---------------------------- MODULE SlidingWindow ----------------------------
(***************************************************************************)
(* What the sample queue promises, with no queue in it: of the samples     *)
(* 0, 1, 2, ... produced so far it offers an interval lo .. hi - 1, never  *)
(* longer than Capacity and always ending at the newest one; consumers are *)
(* given the samples of that interval from the low end, each at most once. *)
(***************************************************************************)
EXTENDS Integers

CONSTANT Capacity

VARIABLES
  lo,     \* the oldest sample still on offer
  hi,     \* the next sample to be produced
  lost,   \* samples that left unread since the last Clear
  out     \* the sample given out last, plus one

WindowVars == <<lo, hi, lost, out>>

WindowInit == lo = 0 /\ hi = 0 /\ lost = 0 /\ out = 0

Slide ==
  /\ hi' = hi + 1
  /\ \/ /\ hi - lo < Capacity
        /\ UNCHANGED <<lo, lost>>
     \/ /\ hi - lo = Capacity
        /\ lo' = lo + 1
        /\ lost' = lost + 1
  /\ UNCHANGED out

Take ==
  /\ lo < hi
  /\ lo' = lo + 1
  /\ out' = lo + 1
  /\ UNCHANGED <<hi, lost>>

Clear ==
  /\ lo' = hi
  /\ lost' = 0
  /\ UNCHANGED <<hi, out>>

WindowNext == Slide \/ Take \/ Clear

WindowSpec == WindowInit /\ [][WindowNext]_WindowVars
=============================================================================
