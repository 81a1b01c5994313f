----------------------------- MODULE SampleQueue -----------------------------
(***************************************************************************)
(* The bounded queue between the receive worker and the Python consumers   *)
(* (bindings/python/sample_queue.cpp).  Every operation is one critical    *)
(* section of mutex_, so each is one step; a blocked read takes its step   *)
(* when its predicate holds or its time is up.  This module has the        *)
(* queue's state and operations only: SampleQueueUse runs them on their    *)
(* own, PyClient runs them under the Python client.                        *)
(***************************************************************************)
EXTENDS Integers, Sequences

CONSTANT Capacity   \* capacity_

(* The constructor refuses a capacity of zero.                             *)
ASSUME CapacityPositive == Capacity \in Nat \ {0}

VARIABLES
  samples_,
  dropped_count_,
  closed_,
  close_generation_

queueVars == <<samples_, dropped_count_, closed_, close_generation_>>

QueueInit ==
  /\ samples_ = <<>>
  /\ dropped_count_ = 0
  /\ closed_ = FALSE
  /\ close_generation_ = 0

(* Mutant: the newest sample makes room.                                   *)
PushReplacesNewest(sample) ==
  LET full == Len(samples_) = Capacity IN
  /\ samples_' = Append(IF full THEN SubSeq(samples_, 1, Capacity - 1)
                                ELSE samples_, sample)
  /\ dropped_count_' = IF full THEN dropped_count_ + 1 ELSE dropped_count_
  /\ UNCHANGED <<closed_, close_generation_>>

(* push(): the oldest sample makes room.  A closed queue accepts it too.   *)
Push(sample) ==
  LET full == Len(samples_) = Capacity IN
  /\ samples_' = Append(IF full THEN Tail(samples_) ELSE samples_, sample)
  /\ dropped_count_' = IF full THEN dropped_count_ + 1 ELSE dropped_count_
  /\ UNCHANGED <<closed_, close_generation_>>

(* Mutant: only the flag is looked at, which reset() clears again.         *)
ClosedFlag(generation) == closed_

(* A close happened after the reader captured its generation.              *)
ClosedFor(generation) == closed_ \/ close_generation_ # generation

(* read_for(): a timeout only when there is nothing to report, and a close *)
(* before any sample.                                                      *)
ReadTimeout(generation) ==
  /\ ~ClosedFor(generation)
  /\ samples_ = <<>>
  /\ UNCHANGED queueVars

ReadClosed(generation) ==
  /\ ClosedFor(generation)
  /\ UNCHANGED queueVars

ReadSample(generation, sample) ==
  /\ ~ClosedFor(generation)
  /\ samples_ # <<>>
  /\ sample = Head(samples_)
  /\ samples_' = Tail(samples_)
  /\ UNCHANGED <<dropped_count_, closed_, close_generation_>>

CloseQueue ==
  /\ closed_' = TRUE
  /\ close_generation_' = close_generation_ + 1
  /\ UNCHANGED <<samples_, dropped_count_>>

(* Mutants: the queue of the new run is still closed; the drops of the     *)
(* last run are carried over.                                              *)
ResetStaysClosed ==
  /\ samples_' = <<>>
  /\ dropped_count_' = 0
  /\ UNCHANGED <<closed_, close_generation_>>

ResetKeepsCount ==
  /\ samples_' = <<>>
  /\ closed_' = FALSE
  /\ UNCHANGED <<dropped_count_, close_generation_>>

(* reset() keeps the generation, so that a reader from before the close    *)
(* still notices it.                                                       *)
ResetQueue ==
  /\ samples_' = <<>>
  /\ dropped_count_' = 0
  /\ closed_' = FALSE
  /\ UNCHANGED close_generation_
=============================================================================
