-------------------------- MODULE SampleQueueProofs --------------------------
(***************************************************************************)
(* TLAPS proofs about the sample queue, for every capacity and any number  *)
(* of readers, samples and closes.                                         *)
(***************************************************************************)
EXTENDS SampleQueueUse, TLAPS

(* The samples in the queue are the last ones pushed, without a hole.      *)
Contiguous ==
  /\ Len(samples_) <= pushed
  /\ \A i \in 1 .. Len(samples_) : samples_[i] = pushed - Len(samples_) + i - 1

QueueInv == UseTypeOK /\ Conservation /\ Contiguous

(* push() on a queue that is not full appends, on a full one it shifts.    *)
LEMMA PushEffect ==
  ASSUME UseTypeOK, Contiguous, Produce
  PROVE  /\ samples_' \in Seq(Nat)
         /\ Len(samples_') = IF Len(samples_) = Capacity THEN Capacity
                                                         ELSE Len(samples_) + 1
         /\ \A i \in 1 .. Len(samples_') :
              samples_'[i] = pushed' - Len(samples_') + i - 1
<1> USE CapacityPositive DEF UseTypeOK
<1>1. CASE Len(samples_) = Capacity
  <2>1. samples_' = Append(Tail(samples_), pushed) /\ pushed' = pushed + 1
    BY <1>1 DEF Produce, Push
  <2>2. samples_ # <<>>
    BY <1>1
  <2>3. /\ Tail(samples_) \in Seq(Nat)
        /\ Len(Tail(samples_)) = Capacity - 1
        /\ \A i \in 1 .. Capacity - 1 : Tail(samples_)[i] = samples_[i + 1]
    BY <1>1, <2>2
  <2>4. /\ samples_' \in Seq(Nat)
        /\ Len(samples_') = Capacity
    BY <2>1, <2>3
  <2>5. pushed' = pushed + 1
    BY <2>1
  <2>6. \A i \in 1 .. Capacity - 1 : samples_'[i] = samples_[i + 1]
    BY <2>1, <2>3
  <2>7. \A i \in 1 .. Capacity - 1 : samples_[i + 1] = pushed - Capacity + i
    BY <1>1 DEF Contiguous
  <2>8. samples_'[Capacity] = pushed
    BY <2>1, <2>3
  <2>9. ASSUME NEW i \in 1 .. Capacity
        PROVE samples_'[i] = pushed' - Capacity + i - 1
    <3>1. CASE i = Capacity
      BY <2>5, <2>8, <3>1
    <3>2. CASE i \in 1 .. Capacity - 1
      BY <2>5, <2>6, <2>7, <3>2
    <3>3. QED
      BY <3>1, <3>2
  <2>10. QED
    BY <1>1, <2>4, <2>9
<1>2. CASE Len(samples_) # Capacity
  <2>1. samples_' = Append(samples_, pushed) /\ pushed' = pushed + 1
    BY <1>2 DEF Produce, Push
  <2>2. QED
    BY <1>2, <2>1 DEF Contiguous
<1>3. QED
  BY <1>1, <1>2

(* A read takes the head and shifts the rest.                              *)
LEMMA PopEffect ==
  ASSUME UseTypeOK, Contiguous, NEW r \in Readers, GotSample(r)
  PROVE  /\ samples_' \in Seq(Nat)
         /\ Len(samples_) > 0
         /\ Len(samples_') = Len(samples_) - 1
         /\ last_read' = pushed - Len(samples_) + 1
         /\ \A i \in 1 .. Len(samples_') :
              samples_'[i] = pushed - Len(samples_') + i - 1
<1> USE DEF UseTypeOK
<1>1. samples_ # <<>> /\ samples_' = Tail(samples_) /\ last_read' = Head(samples_) + 1
  BY DEF GotSample, ReadSample
<1>2. /\ Len(samples_) > 0
      /\ samples_' \in Seq(Nat)
      /\ Len(samples_') = Len(samples_) - 1
      /\ \A i \in 1 .. Len(samples_') : samples_'[i] = samples_[i + 1]
      /\ Head(samples_) = samples_[1]
  BY <1>1
<1>3. QED
  BY <1>1, <1>2 DEF Contiguous

(* What the other operations change.                                       *)
LEMMA ReaderFrame ==
  ASSUME UseTypeOK, NEW r \in Readers, Capture(r) \/ TimedOut(r) \/ SawClose(r)
  PROVE  /\ UNCHANGED <<queueVars, pushed, last_read, pushed_run, read_run>>
         /\ captured' \in [Readers -> Nat]
         /\ closes_seen' \in [Readers -> Nat]
<1> USE BoundsNat DEF UseTypeOK, queueVars, Idle
<1>1. CASE Capture(r)
  BY <1>1 DEF Capture
<1>2. CASE TimedOut(r)
  BY <1>2 DEF TimedOut, ReadTimeout
<1>3. CASE SawClose(r)
  BY <1>3 DEF SawClose, ReadClosed
<1>4. QED
  BY <1>1, <1>2, <1>3

(* Taking the head leaves capacity, closing and the readers alone.          *)
LEMMA PopFrame ==
  ASSUME UseTypeOK, NEW r \in Readers, GotSample(r)
  PROVE  /\ UNCHANGED <<dropped_count_, closed_, close_generation_, pushed,
                        closes_seen, pushed_run>>
         /\ read_run' = read_run + 1
         /\ captured' \in [Readers -> Nat]
  BY BoundsNat DEF UseTypeOK, GotSample, ReadSample, Idle

(* Every step of the queue and of its users preserves the inductive        *)
(* invariant.                                                              *)
LEMMA QueueStep == QueueInv /\ [UseNext]_useVars => QueueInv'
<1> SUFFICES ASSUME QueueInv, [UseNext]_useVars PROVE QueueInv'
  OBVIOUS
<1>0. UseTypeOK /\ Conservation /\ Contiguous
  BY DEF QueueInv
<1> USE CapacityPositive, BoundsNat
<1>1. CASE Produce
  <2>1. /\ samples_' \in Seq(Nat)
        /\ Len(samples_') = IF Len(samples_) = Capacity THEN Capacity
                                                        ELSE Len(samples_) + 1
        /\ \A i \in 1 .. Len(samples_') :
             samples_'[i] = pushed' - Len(samples_') + i - 1
    BY <1>0, <1>1, PushEffect
  <2>2. /\ pushed' = pushed + 1
        /\ pushed_run' = pushed_run + 1
        /\ dropped_count_' = IF Len(samples_) = Capacity THEN dropped_count_ + 1
                                                         ELSE dropped_count_
        /\ UNCHANGED <<closed_, close_generation_, last_read, captured,
                       closes_seen, read_run>>
    BY <1>1 DEF Produce, Push
  <2>3. UseTypeOK'
    BY <1>0, <2>1, <2>2 DEF UseTypeOK
  <2>4. Conservation'
    <3>1. CASE Len(samples_) = Capacity
      BY <1>0, <2>1, <2>2, <3>1 DEF UseTypeOK, Conservation
    <3>2. CASE Len(samples_) # Capacity
      BY <1>0, <2>1, <2>2, <3>2 DEF UseTypeOK, Conservation
    <3>3. QED
      BY <3>1, <3>2
  <2>5. Contiguous'
    <3>1. Len(samples_') <= pushed'
      BY <1>0, <2>1, <2>2 DEF UseTypeOK, Contiguous
    <3>2. QED
      BY <2>1, <3>1 DEF Contiguous
  <2>6. QED
    BY <2>3, <2>4, <2>5 DEF QueueInv
<1>2. CASE CloseCall
  <2>1. closed_' \in BOOLEAN
    BY <1>2, Zenon DEF CloseCall, CloseQueue
  <2>2. QED
    BY <1>0, <1>2, <2>1
       DEF CloseCall, CloseQueue, QueueInv, UseTypeOK, Conservation, Contiguous
<1>3. CASE ResetCall
  <2>1. closed_' \in BOOLEAN
    BY <1>3, Zenon DEF ResetCall, ResetQueue
  <2>2. QED
    BY <1>0, <1>3, <2>1
       DEF ResetCall, ResetQueue, QueueInv, UseTypeOK, Conservation, Contiguous
<1>4. ASSUME NEW r \in Readers, Capture(r) \/ TimedOut(r) \/ SawClose(r)
      PROVE QueueInv'
  BY <1>0, <1>4, ReaderFrame, Zenon
     DEF QueueInv, UseTypeOK, Conservation, Contiguous, queueVars
<1>5. ASSUME NEW r \in Readers, GotSample(r) PROVE QueueInv'
  <2>1. /\ samples_' \in Seq(Nat)
        /\ Len(samples_) > 0
        /\ Len(samples_') = Len(samples_) - 1
        /\ last_read' = pushed - Len(samples_) + 1
        /\ \A i \in 1 .. Len(samples_') :
             samples_'[i] = pushed - Len(samples_') + i - 1
    BY <1>0, <1>5, PopEffect
  <2>2. /\ UNCHANGED <<dropped_count_, closed_, close_generation_, pushed,
                       closes_seen, pushed_run>>
        /\ read_run' = read_run + 1
        /\ captured' \in [Readers -> Nat]
    BY <1>0, <1>5, PopFrame
  <2>3. UseTypeOK'
    BY <1>0, <2>1, <2>2 DEF UseTypeOK, Contiguous
  <2>4. Conservation'
    BY <1>0, <2>1, <2>2 DEF UseTypeOK, Conservation
  <2>5. Contiguous'
    BY <1>0, <2>1, <2>2 DEF UseTypeOK, Contiguous
  <2>6. QED
    BY <2>3, <2>4, <2>5 DEF QueueInv
<1>6. CASE UNCHANGED useVars
  BY <1>0, <1>6 DEF useVars, queueVars, QueueInv, UseTypeOK, Conservation, Contiguous
<1>7. QED
  BY <1>1, <1>2, <1>3, <1>4, <1>5, <1>6 DEF UseNext

(* The inductive invariant holds in every reachable state.                 *)
LEMMA QueueInvariant == UseSpec => []QueueInv
<1>1. UseInit => QueueInv
  <2>1. UseInit => closed_ \in BOOLEAN
    BY Zenon DEF UseInit, QueueInit
  <2>2. QED
    BY <2>1, CapacityPositive, BoundsNat
       DEF UseInit, QueueInit, QueueInv, UseTypeOK, Conservation, Contiguous, Idle
<1>2. QED
  BY <1>1, QueueStep, PTL DEF UseSpec

(* The queue never holds more than its capacity and its fields keep their  *)
(* types, whatever the order of push, read, close and reset.               *)
THEOREM QueueTypeCorrect == UseSpec => []UseTypeOK
  BY QueueInvariant, PTL DEF QueueInv

(* Every sample pushed since the last reset() was read, counted in         *)
(* dropped_count_, or is still queued.                                     *)
THEOREM QueueConserves == UseSpec => []Conservation
  BY QueueInvariant, PTL DEF QueueInv

(* The queue implements a sliding window over the samples produced: the    *)
(* interval invariant Contiguous ties Head(samples_) to the window's low   *)
(* end, and each operation maps to Slide, Take, Clear or a stutter.        *)
THEOREM QueueIsWindow == UseSpec => WindowRefinement
<1> USE DEF Window!WindowVars
<1>1. UseInit => Window!WindowInit
  <2>1. UseInit => samples_ = <<>> /\ pushed = 0 /\ dropped_count_ = 0 /\ last_read = 0
    BY DEF UseInit, QueueInit
  <2>2. Len(<<>>) = 0 /\ 0 - 0 = 0
    OBVIOUS
  <2>3. QED
    BY <2>1, <2>2, Zenon DEF Window!WindowInit
<1>2. QueueInv /\ [UseNext]_useVars => [Window!WindowNext]_(Window!WindowVars)
  <2> SUFFICES ASSUME QueueInv, [UseNext]_useVars
               PROVE [Window!WindowNext]_(Window!WindowVars)
    OBVIOUS
  <2>0. UseTypeOK /\ Conservation /\ Contiguous
    BY DEF QueueInv
  <2> USE CapacityPositive
  <2>1. CASE Produce
    <3>1. Len(samples_') = IF Len(samples_) = Capacity THEN Capacity
                                                       ELSE Len(samples_) + 1
      BY <2>0, <2>1, PushEffect
    <3>2. /\ pushed' = pushed + 1
          /\ last_read' = last_read
          /\ dropped_count_' = IF Len(samples_) = Capacity THEN dropped_count_ + 1
                                                           ELSE dropped_count_
      BY <2>1 DEF Produce, Push
    <3>3. Window!Slide
      <4>1. CASE Len(samples_) = Capacity
        BY <2>0, <3>1, <3>2, <4>1 DEF UseTypeOK, Contiguous, Window!Slide
      <4>2. CASE Len(samples_) # Capacity
        <5>1. /\ pushed - (pushed - Len(samples_)) < Capacity
              /\ pushed' - Len(samples_') = pushed - Len(samples_)
          BY <2>0, <3>1, <3>2, <4>2 DEF UseTypeOK
        <5>2. QED
          BY <3>2, <4>2, <5>1 DEF Window!Slide
      <4>3. QED
        BY <4>1, <4>2
    <3>4. QED
      BY <3>3 DEF Window!WindowNext
  <2>2. CASE CloseCall
    BY <2>2 DEF CloseCall, CloseQueue
  <2>3. CASE ResetCall
    <3>1. Window!Clear
      <4>1. Len(samples_') = 0
        BY <2>3 DEF ResetCall, ResetQueue
      <4>2. dropped_count_' = 0 /\ UNCHANGED <<pushed, last_read>>
        BY <2>3 DEF ResetCall, ResetQueue
      <4>3. QED
        BY <2>0, <4>1, <4>2 DEF UseTypeOK, Window!Clear
    <3>2. QED
      BY <3>1 DEF Window!WindowNext
  <2>4. ASSUME NEW r \in Readers, Capture(r) \/ TimedOut(r) \/ SawClose(r)
        PROVE UNCHANGED Window!WindowVars
    BY <2>0, <2>4, ReaderFrame DEF queueVars
  <2>5. ASSUME NEW r \in Readers, GotSample(r) PROVE Window!WindowNext
    <3>1. Window!Take
      <4>1. /\ Len(samples_) > 0
            /\ Len(samples_') = Len(samples_) - 1
            /\ last_read' = pushed - Len(samples_) + 1
        BY <2>0, <2>5, PopEffect
      <4>2. UNCHANGED <<pushed, dropped_count_>>
        BY <2>0, <2>5, PopFrame
      <4>3. QED
        BY <2>0, <4>1, <4>2 DEF UseTypeOK, Contiguous, Window!Take
    <3>2. QED
      BY <3>1 DEF Window!WindowNext
  <2>6. CASE UNCHANGED useVars
    BY <2>6 DEF useVars, queueVars
  <2>7. QED
    BY <2>1, <2>2, <2>3, <2>4, <2>5, <2>6 DEF UseNext
<1>3. QED
  BY <1>1, <1>2, QueueInvariant, PTL DEF UseSpec, WindowRefinement, Window!WindowSpec

(* A reader's captured generation lags behind by the closes it missed.     *)
CaptureInv ==
  /\ close_generation_ <= MaxCloses
  /\ \A r \in Readers :
       captured[r] # Idle => close_generation_ = captured[r] + closes_seen[r]

(* Every step preserves what a captured close generation stands for.       *)
LEMMA CaptureStep == UseTypeOK /\ CaptureInv /\ [UseNext]_useVars => CaptureInv'
<1> SUFFICES ASSUME UseTypeOK, CaptureInv, [UseNext]_useVars PROVE CaptureInv'
  OBVIOUS
<1> USE BoundsNat DEF UseTypeOK, CaptureInv, Idle
<1>1. CASE Produce \/ ResetCall
  BY <1>1 DEF Produce, Push, ResetCall, ResetQueue
<1>2. CASE CloseCall
  BY <1>2 DEF CloseCall, CloseQueue
<1>3. ASSUME NEW r \in Readers, Capture(r) PROVE CaptureInv'
  BY <1>3 DEF Capture, queueVars
<1>4. ASSUME NEW r \in Readers, TimedOut(r) \/ SawClose(r) \/ GotSample(r)
      PROVE CaptureInv'
  <2>1. /\ UNCHANGED <<close_generation_, closes_seen>>
        /\ captured' = [captured EXCEPT ![r] = Idle]
    BY <1>4 DEF TimedOut, SawClose, GotSample, ReadTimeout, ReadClosed,
                ReadSample, queueVars
  <2>2. QED
    BY <2>1
<1>5. CASE UNCHANGED useVars
  BY <1>5 DEF useVars, queueVars
<1>6. QED
  BY <1>1, <1>2, <1>3, <1>4, <1>5 DEF UseNext

(* However close() and reset() are interleaved with a blocked read, the    *)
(* read never returns a sample once a close() came after it began: the     *)
(* generation counter only grows and reset() leaves it alone.              *)
THEOREM CloseIsNoticed == UseSpec => CloseReachesReaders
<1>1. UseInit => CaptureInv
  BY BoundsNat DEF UseInit, QueueInit, CaptureInv, Idle
<1>2. UseTypeOK /\ CaptureInv /\ [UseNext]_useVars
        => [\A r \in Readers : GotSample(r) => closes_seen[r] = 0]_useVars
  <2> SUFFICES ASSUME UseTypeOK, CaptureInv, NEW r \in Readers, GotSample(r)
               PROVE closes_seen[r] = 0
    OBVIOUS
  <2>1. captured[r] # Idle /\ close_generation_ = captured[r]
    BY DEF GotSample, ReadSample, ClosedFor
  <2>2. QED
    BY <2>1 DEF UseTypeOK, CaptureInv
<1>3. QED
  BY <1>1, <1>2, CaptureStep, QueueTypeCorrect, PTL DEF UseSpec, CloseReachesReaders
=============================================================================
