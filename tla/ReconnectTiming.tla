--------------------------- MODULE ReconnectTiming ---------------------------
(***************************************************************************)
(* The clock side of the reconnecting worker (client_impl.cpp, run()): the *)
(* growing delay between sessions, the timed wait in which it is slept     *)
(* through, and a stop() that may come at any moment of it.  stop() sets   *)
(* stopping_ and notifies first_sample_cv_ without data_mutex_, so its     *)
(* notification can fall between the waiter's test and its block.          *)
(*                                                                         *)
(* now counts ticks of the steady clock.  A configured delay is a multiple *)
(* of a fraction of a tick: Resolution of them make one.  Time passes only *)
(* while the worker sleeps or is in a session; its own steps take none.    *)
(* How a session ends when stop() comes is UdpReceive's subject.           *)
(***************************************************************************)
EXTENDS Integers

CONSTANTS
  Resolution,
  ClockMax,      \* SteadyClock::time_point::max()
  MaxDelay,      \* bound: the delays that are tried, in fractions of a tick
  MaxFailures    \* bound: sessions in a row without a valid record

ASSUME TimingConstants ==
  Resolution \in Nat \ {0} /\ ClockMax \in Nat /\ MaxDelay \in Nat /\ MaxFailures \in Nat

VARIABLES
  now,
  reconnect_initial_delay,
  reconnect_max_delay,
  phase,
  backoff,
  deadline,
  stopping_,
  notify_due,    \* stop() has stored stopping_ and not yet notified
  woken,         \* the sleeping worker has been notified
  faulted_,
  slept_from,    \* history: when the wait began
  failures,      \* history: sessions in a row without a valid record
  stop_at,       \* history: when stop() notified
  stop_phase     \* history: where the worker was then

config    == <<reconnect_initial_delay, reconnect_max_delay>>
stopVars  == <<stopping_, notify_due, stop_at, stop_phase>>
sleepVars == <<deadline, slept_from>>
vars == <<now, config, phase, backoff, sleepVars, stopVars, woken, faulted_, failures>>

-----------------------------------------------------------------------------
(* detail/time.hpp and types.cpp: numbers that are not finite do not occur *)

(* Throws unless InRange.  The conversion truncates.                       *)
InRange(delay) == delay >= 0 /\ delay < ClockMax * Resolution
checked_duration(delay) == delay \div Resolution

(* Throws unless Reachable.                                                *)
Reachable(origin, delay) ==
  InRange(delay) /\ origin <= ClockMax - checked_duration(delay)
checked_deadline(origin, delay) == origin + checked_duration(delay)

require_safe_timeout(delay) ==
  delay > 0 /\ checked_duration(delay) > 0 /\ Reachable(now, delay)

(* The part of validate(Config) that is about these two fields.            *)
validate ==
  /\ require_safe_timeout(reconnect_initial_delay)
  /\ require_safe_timeout(reconnect_max_delay)
  /\ reconnect_initial_delay <= reconnect_max_delay

Init ==
  /\ now \in 0 .. ClockMax
  /\ reconnect_initial_delay \in 0 .. MaxDelay
  /\ reconnect_max_delay \in 0 .. MaxDelay
  /\ validate
  /\ phase = "session" /\ backoff = reconnect_initial_delay
  /\ deadline = 0 /\ slept_from = 0
  /\ stopping_ = FALSE /\ notify_due = FALSE /\ woken = FALSE /\ faulted_ = FALSE
  /\ failures = 0 /\ stop_at = 0 /\ stop_phase = "none"

-----------------------------------------------------------------------------
(* run()                                                                   *)

(* Mutant: a session with a valid record does not reset the delay.         *)
KeptDelay(received_valid_record) == backoff

(* Lines 401-403.                                                          *)
DelayAfter(received_valid_record) ==
  IF received_valid_record THEN reconnect_initial_delay ELSE backoff

(* Lines 387-409, RecoveryPolicy::Reconnect.                               *)
SessionEnds(received_valid_record) ==
  /\ phase = "session"
  /\ IF stopping_
     THEN phase' = "exited" /\ UNCHANGED <<backoff, failures>>
     ELSE /\ received_valid_record \/ failures < MaxFailures
          /\ phase' = "backoff"
          /\ backoff' = DelayAfter(received_valid_record)
          /\ failures' = IF received_valid_record THEN 0 ELSE failures
  /\ UNCHANGED <<now, config, sleepVars, stopVars, woken, faulted_>>

NextDelay(doubled) ==
  IF doubled <= reconnect_max_delay THEN doubled ELSE reconnect_max_delay

(* Line 416 and the loop's test.                                           *)
GoOn ==
  /\ backoff' = NextDelay(2 * backoff)
  /\ failures' = failures + 1
  /\ phase' = IF stopping_ THEN "exited" ELSE "session"
  /\ woken' = FALSE

(* Lines 411-413: the deadline and the first test of the predicate, or the *)
(* exception of lines 418-420.                                             *)
BeginWait ==
  /\ phase = "backoff"
  /\ IF Reachable(now, backoff)
     THEN /\ deadline' = checked_deadline(now, backoff)
          /\ slept_from' = now
          /\ IF stopping_ THEN GoOn
             ELSE phase' = "blocking" /\ UNCHANGED <<backoff, failures, woken>>
          /\ UNCHANGED faulted_
     ELSE /\ faulted_' = ~stopping_
          /\ phase' = "exited"
          /\ UNCHANGED <<sleepVars, backoff, failures, woken>>
  /\ UNCHANGED <<now, config, stopVars>>

(* The thread is put on the condition variable.                            *)
Block ==
  /\ phase = "blocking"
  /\ phase' = "asleep"
  /\ UNCHANGED <<now, config, backoff, sleepVars, stopVars, woken, faulted_, failures>>

Expired == now >= deadline

(* It wakes when notified, finding stopping_ set, or at the deadline.      *)
Wake ==
  /\ phase = "asleep"
  /\ (woken /\ stopping_) \/ Expired
  /\ GoOn
  /\ UNCHANGED <<now, config, sleepVars, stopVars, faulted_>>

-----------------------------------------------------------------------------
(* stop(), lines 240 and 241                                               *)

StopStores ==
  /\ ~stopping_
  /\ stopping_' = TRUE /\ notify_due' = TRUE
  /\ UNCHANGED <<now, config, phase, backoff, sleepVars, woken, faulted_, failures,
                 stop_at, stop_phase>>

(* Mutant: nobody is notified.                                             *)
Unnotified == FALSE

Notified == phase = "asleep"

StopNotifies ==
  /\ notify_due
  /\ notify_due' = FALSE
  /\ woken' = Notified
  /\ stop_at' = now /\ stop_phase' = phase
  /\ UNCHANGED <<now, config, phase, backoff, sleepVars, stopping_, faulted_, failures>>

(* stop() does not dawdle between its two lines, and a session that is     *)
(* told to stop ends.                                                      *)
Tick ==
  /\ now < ClockMax /\ ~notify_due
  /\ \/ phase = "session" /\ ~stopping_
     \/ phase = "asleep" /\ now < deadline /\ ~woken
  /\ now' = now + 1
  /\ UNCHANGED <<config, phase, backoff, sleepVars, stopVars, woken, faulted_, failures>>

WorkerStep == (\E valid \in BOOLEAN : SessionEnds(valid)) \/ BeginWait \/ Block \/ Wake

Next == WorkerStep \/ StopStores \/ StopNotifies \/ Tick

Spec == Init /\ [][Next]_vars

-----------------------------------------------------------------------------
(* Properties                                                              *)

Sleeping == phase \in {"blocking", "asleep"}

PowerOfTwo[n \in Nat] == IF n = 0 THEN 1 ELSE 2 * PowerOfTwo[n - 1]

(* The n-th delay in a row without a valid record is the initial one       *)
(* doubled n times, up to the maximum; a valid record starts over.         *)
BackoffSchedule ==
  Sleeping =>
    LET wanted == reconnect_initial_delay * PowerOfTwo[failures]
    IN  deadline - slept_from =
          checked_duration(IF wanted <= reconnect_max_delay THEN wanted
                                                            ELSE reconnect_max_delay)

(* The worker never reconnects in a busy loop: every wait that stop() does *)
(* not cut short lasts a tick at least, since validation refuses delays    *)
(* that truncate to none.                                                  *)
NoBusyReconnect == Sleeping => deadline > slept_from

(* A stop() is at most reconnect_max_delay late when its notification is   *)
(* missed, and not late at all if the worker was already asleep.           *)
StopLatency ==
  stopping_ /\ ~notify_due /\ phase # "exited" =>
    /\ now - stop_at <= checked_duration(reconnect_max_delay)
    /\ stop_phase = "asleep" => now = stop_at

(* Adding a delay to the clock fails, and turns into a fault, only within  *)
(* reconnect_max_delay of the end of the clock's range.                    *)
ClockFaultOnlyAtEnd ==
  faulted_ => now + checked_duration(reconnect_max_delay) > ClockMax

=============================================================================
