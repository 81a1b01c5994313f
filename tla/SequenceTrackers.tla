--------------------------- MODULE SequenceTrackers ---------------------------
(***************************************************************************)
(* The two sequence trackers of the core (core/src/detail/sequence.cpp),   *)
(* as operators: a tracker and a sequence number give a classification and *)
(* the next tracker.  Numbers are unsigned words that wrap at Modulus,     *)
(* 2^32 in the code.                                                       *)
(***************************************************************************)
EXTENDS Naturals

CONSTANTS
  Modulus,         \* 2^32
  RestartLowMax    \* kRestartLowMax

ASSUME WordSize ==
  /\ Modulus \in Nat /\ Modulus > 2 /\ Modulus % 2 = 0
  /\ RestartLowMax \in 0 .. Modulus - 1

Word == 0 .. Modulus - 1
Half == Modulus \div 2

(* Unsigned subtraction.                                                   *)
Minus(a, b) == IF a >= b THEN a - b ELSE a + Modulus - b

(* Whether a is ahead of b: 0 < a - b < 0x80000000.                        *)
Ahead(a, b) == a # b /\ Minus(a, b) < Half

-----------------------------------------------------------------------------
(* RdtSequenceTracker                                                      *)

RdtNew == [has_last |-> FALSE, previous |-> 0]

RdtReset(t) == [t EXCEPT !.has_last = FALSE]

Gap(t, current) == Minus(current, t.previous) - 1

RdtKind(t, current) ==
  CASE ~t.has_last                              -> "First"
    [] t.has_last /\ current = t.previous       -> "Duplicate"
    [] t.has_last /\ ~Ahead(current, t.previous) /\ current # t.previous -> "OutOfOrder"
    [] t.has_last /\ Ahead(current, t.previous) ->
         IF Minus(current, t.previous) = 1 THEN "Contiguous" ELSE "Gap"

RdtNext(t, current) ==
  IF RdtKind(t, current) \in {"Duplicate", "OutOfOrder"}
  THEN t ELSE [has_last |-> TRUE, previous |-> current]

-----------------------------------------------------------------------------
(* FtSequenceTracker                                                       *)

FtNew == [has_last |-> FALSE, previous |-> 0,
          has_restart_candidate |-> FALSE, restart_candidate |-> 0]

FtBeginSession(t) == [t EXCEPT !.has_restart_candidate = FALSE]

(* A second low number, above the first, after a baseline that is not low. *)
ConfirmsRestart(t, current) ==
  /\ t.previous > RestartLowMax
  /\ t.has_restart_candidate
  /\ t.restart_candidate <= RestartLowMax
  /\ current <= RestartLowMax
  /\ Ahead(current, t.restart_candidate)

FtKind(t, current) ==
  CASE ~t.has_last                              -> "First"
    [] t.has_last /\ current = t.previous       -> "Stall"
    [] t.has_last /\ Ahead(current, t.previous) -> "Forward"
    [] t.has_last /\ current # t.previous /\ ~Ahead(current, t.previous) ->
         IF ConfirmsRestart(t, current) THEN "Restart" ELSE "Backward"

FtNext(t, current) ==
  CASE FtKind(t, current) = "First" ->
         [t EXCEPT !.has_last = TRUE, !.previous = current]
    [] FtKind(t, current) = "Stall" ->
         [t EXCEPT !.has_restart_candidate = FALSE]
    [] FtKind(t, current) \in {"Forward", "Restart"} ->
         [t EXCEPT !.previous = current, !.has_restart_candidate = FALSE]
    [] FtKind(t, current) = "Backward" ->
         [t EXCEPT !.has_restart_candidate = TRUE, !.restart_candidate = current]
=============================================================================
