----------------------------- MODULE DataProofs -----------------------------
(***************************************************************************)
(* Proofs about ReconnectTiming and XmlConfig, which both rest on          *)
(* induction over the natural numbers and on functions defined by          *)
(* recursion; the lemmas for those come first.  For every clock,           *)
(* resolution and pair of delays: waits are never empty, a stop() is never *)
(* later than the longest delay, the clock's end is the only source of a   *)
(* timing fault, and delays double from the first to the longest.  For     *)
(* documents of any length: the parser accepts those that are acceptable   *)
(* and finds in them what they mean.                                       *)
(***************************************************************************)
EXTENDS ReconnectTiming, XmlConfig, FiniteSetTheorems, WellFoundedInduction, TLAPS

(* Induction and recursion                                                 *)

(* A set with a natural number in it has a least one.                      *)
LEMMA LeastNumber ==
  ASSUME NEW S \in SUBSET Nat, S # {}
  PROVE  \E x \in S : \A y \in S : x <= y
<1> DEFINE R == OpToRel(<, Nat)
<1>1. IsWellFoundedOn(R, Nat)
  BY NatLessThanWellFounded, Zenon
<1>2. \A y, x \in Nat : y < x => <<y, x>> \in R
  BY DEF OpToRel
<1> HIDE DEF R
<1>3. PICK x \in S : \A y \in S : ~(<<y, x>> \in R)
  BY <1>1, WFMin, Zenon
<1>4. \A y \in S : ~(y < x)
  BY <1>2, <1>3, Zenon
<1> QED BY <1>4

(* Induction over the natural numbers, as a fact about sets.               *)
LEMMA NumberInduction ==
  ASSUME NEW S, 0 \in S, \A n \in Nat : n \in S => n + 1 \in S
  PROVE  Nat \subseteq S
<1> DEFINE T == Nat \ S
<1> SUFFICES ASSUME T # {} PROVE FALSE
  OBVIOUS
<1>1. PICK x \in T : \A y \in T : x <= y
  BY LeastNumber, Zenon
<1>2. x # 0 /\ x - 1 \in Nat /\ ~(x <= x - 1)
  OBVIOUS
<1>3. x - 1 \in S
  BY <1>1, <1>2
<1>4. (x - 1) + 1 \in S
  BY <1>2, <1>3
<1> QED BY <1>4

(* f[i + 1] is linear in f[i].                                             *)
Linear(f, factor, base, summand) ==
  f[0] = base /\ \A i \in Nat : f[i + 1] = factor * f[i] + summand[i + 1]

(* A function may be defined by a linear recursion.                        *)
LEMMA LinearRecursion ==
  ASSUME NEW factor \in Nat, NEW base \in Nat, NEW summand \in [Nat -> Nat]
  PROVE  \E f \in [Nat -> Nat] : Linear(f, factor, base, summand)
<1> DEFINE Good(n, f) == /\ f \in [0 .. n -> Nat] /\ f[0] = base
                         /\ \A i \in 0 .. n - 1 : f[i + 1] = factor * f[i] + summand[i + 1]
           S == {n \in Nat : \E f : Good(n, f)}
<1>1. 0 \in S
  <2>1. Good(0, [i \in 0 .. 0 |-> base])
    OBVIOUS
  <2> QED BY <2>1, Zenon
<1>2. ASSUME NEW n \in Nat, n \in S PROVE n + 1 \in S
  <2>1. PICK f : Good(n, f)
    BY <1>2, Zenon
  <2> DEFINE last == factor * f[n] + summand[n + 1]
             g == [i \in 0 .. n + 1 |-> IF i <= n THEN f[i] ELSE last]
  <2>2. last \in Nat
    <3>1. f[n] \in Nat /\ summand[n + 1] \in Nat
      BY <2>1, SMTT(30)
    <3> QED BY <3>1
  <2>3. g \in [0 .. n + 1 -> Nat] /\ g[0] = base
    <3> HIDE DEF last
    <3>1. f \in [0 .. n -> Nat] /\ f[0] = base
      BY <2>1, SMTT(30)
    <3>2. \A i \in 0 .. n + 1 : (IF i <= n THEN f[i] ELSE last) \in Nat
      <4> TAKE i \in 0 .. n + 1
      <4>1. CASE i <= n
        <5>1. i \in 0 .. n
          BY <4>1
        <5> QED BY <3>1, <4>1, <5>1, Zenon
      <4>2. CASE ~(i <= n)
        BY <2>2, <4>2
      <4> QED BY <4>1, <4>2
    <3>3. g \in [0 .. n + 1 -> Nat]
      BY <3>2, Zenon
    <3>4. g[0] = f[0]
      OBVIOUS
    <3> QED BY <3>1, <3>3, <3>4, Zenon
  <2>4. ASSUME NEW i \in 0 .. (n + 1) - 1 PROVE g[i + 1] = factor * g[i] + summand[i + 1]
    <3>1. CASE i = n
      BY <3>1
    <3>2. CASE i # n
      <4>1. i \in 0 .. n - 1 /\ g[i + 1] = f[i + 1] /\ g[i] = f[i]
        BY <3>2
      <4> QED BY <2>1, <4>1
    <3> QED BY <3>1, <3>2
  <2> HIDE DEF g
  <2>5. Good(n + 1, g)
    BY <2>3, <2>4, Zenon
  <2> HIDE DEF Good
  <2> QED BY <2>5
<1>3. \A n \in Nat : \E f : Good(n, f)
  <2> HIDE DEF Good
  <2>1. Nat \subseteq S
    <3> HIDE DEF S
    <3> QED BY <1>1, <1>2, NumberInduction
  <2> QED BY <2>1
<1> DEFINE F(n) == CHOOSE f : Good(n, f)
<1>4. \A n \in Nat : Good(n, F(n))
  <2> HIDE DEF Good
  <2> QED BY <1>3
<1> HIDE DEF F
<1> DEFINE U == {n \in Nat : \A m \in Nat : n <= m => F(m)[n] = F(n)[n]}
<1>5. 0 \in U
  BY <1>4, Zenon
<1>6. ASSUME NEW n \in Nat, n \in U PROVE n + 1 \in U
  <2> SUFFICES ASSUME NEW m \in Nat, n + 1 <= m PROVE F(m)[n + 1] = F(n + 1)[n + 1]
    OBVIOUS
  <2>0. n + 1 \in Nat /\ n <= m /\ n <= n + 1 /\ n \in 0 .. m - 1 /\ n \in 0 .. (n + 1) - 1
    OBVIOUS
  <2>1. F(m)[n] = F(n + 1)[n]
    BY <1>6, <2>0
  <2>2. Good(m, F(m)) /\ Good(n + 1, F(n + 1))
    <3> HIDE DEF Good
    <3> QED BY <1>4, <2>0
  <2>3. /\ F(m)[n + 1] = factor * F(m)[n] + summand[n + 1]
        /\ F(n + 1)[n + 1] = factor * F(n + 1)[n] + summand[n + 1]
    BY <2>0, <2>2, Zenon
  <2> QED BY <2>1, <2>3
<1>7. Nat \subseteq U
  <2> HIDE DEF U
  <2> QED BY <1>5, <1>6, NumberInduction
<1> DEFINE f == [n \in Nat |-> F(n)[n]]
<1>8. f \in [Nat -> Nat] /\ f[0] = base
  BY <1>4
<1>9. ASSUME NEW n \in Nat PROVE f[n + 1] = factor * f[n] + summand[n + 1]
  <2>1. n + 1 \in Nat /\ n <= n + 1 /\ n \in 0 .. (n + 1) - 1
    OBVIOUS
  <2>2. F(n + 1)[n] = F(n)[n]
    BY <1>7, <2>1
  <2>3. Good(n + 1, F(n + 1))
    <3> HIDE DEF Good
    <3> QED BY <1>4, <2>1
  <2>4. F(n + 1)[n + 1] = factor * F(n + 1)[n] + summand[n + 1]
    BY <2>1, <2>3
  <2> QED BY <2>1, <2>2, <2>4
<1> HIDE DEF f
<1>10. Linear(f, factor, base, summand)
  BY <1>8, <1>9, Zenon DEF Linear
<1> QED BY <1>8, <1>10, Zenon

(* The powers of a number, by recursion.                                   *)
LEMMA PowerRecursion ==
  ASSUME NEW factor \in Nat, NEW P,
         (\E f : f = [n \in Nat |-> IF n = 0 THEN 1 ELSE factor * f[n - 1]])
           => P = [n \in Nat |-> IF n = 0 THEN 1 ELSE factor * P[n - 1]]
  PROVE  /\ P \in [Nat -> Nat] /\ P[0] = 1
         /\ \A n \in Nat : P[n + 1] = factor * P[n]
<1> DEFINE none == [n \in Nat |-> 0]
<1>1. PICK f \in [Nat -> Nat] : Linear(f, factor, 1, none)
  <2>1. none \in [Nat -> Nat] /\ 1 \in Nat /\ factor \in Nat
    OBVIOUS
  <2> HIDE DEF none
  <2> QED BY <2>1, LinearRecursion, Zenon
<1>2. f[0] = 1 /\ \A n \in Nat : f[n + 1] = factor * f[n]
  BY <1>1 DEF Linear
<1>3. \A n \in Nat : f[n] = IF n = 0 THEN 1 ELSE factor * f[n - 1]
  <2> TAKE n \in Nat
  <2>1. CASE n # 0
    <3>1. n - 1 \in Nat /\ (n - 1) + 1 = n
      BY <2>1
    <3> QED BY <1>2, <2>1, <3>1
  <2> QED BY <1>2, <2>1
<1>4. f = [n \in Nat |-> IF n = 0 THEN 1 ELSE factor * f[n - 1]]
  BY <1>3
<1>6. P = [n \in Nat |-> IF n = 0 THEN 1 ELSE factor * P[n - 1]]
  BY <1>4, Zenon
<1>7. P[0] = 1 /\ \A n \in Nat : P[n + 1] = factor * P[n]
  <2>1. \A n \in Nat : P[n] = IF n = 0 THEN 1 ELSE factor * P[n - 1]
    BY <1>6
  <2> QED BY <2>1
<1> DEFINE S == {n \in Nat : P[n] \in Nat}
<1>8. 0 \in S /\ \A n \in Nat : n \in S => n + 1 \in S
  BY <1>7
<1>9. Nat \subseteq S
  <2> HIDE DEF S
  <2> QED BY <1>8, NumberInduction
<1>10. P \in [Nat -> Nat]
  BY <1>6, <1>9
<1> QED BY <1>7, <1>10

(* PowerOfTwo doubles from one number to the next.                         *)
LEMMA PowerOfTwoDoubles ==
  /\ PowerOfTwo \in [Nat -> Nat] /\ PowerOfTwo[0] = 1
  /\ \A n \in Nat : PowerOfTwo[n + 1] = 2 * PowerOfTwo[n]
<1> DEFINE P == PowerOfTwo
<1>1. (\E f : f = [n \in Nat |-> IF n = 0 THEN 1 ELSE 2 * f[n - 1]])
        => P = [n \in Nat |-> IF n = 0 THEN 1 ELSE 2 * P[n - 1]]
  BY Zenon DEF PowerOfTwo
<1> HIDE DEF P
<1>2. 2 \in Nat
  OBVIOUS
<1>3. P \in [Nat -> Nat] /\ P[0] = 1 /\ \A n \in Nat : P[n + 1] = 2 * P[n]
  BY <1>1, <1>2, PowerRecursion, Zenon
<1> QED BY <1>3 DEF P

(* A digit more makes ten times the weight.                                *)
LEMMA PowerOfTenGrows ==
  /\ PowerOfTen \in [Nat -> Nat] /\ PowerOfTen[0] = 1
  /\ \A n \in Nat : PowerOfTen[n + 1] = 10 * PowerOfTen[n]
<1> DEFINE P == PowerOfTen
<1>1. (\E f : f = [n \in Nat |-> IF n = 0 THEN 1 ELSE 10 * f[n - 1]])
        => P = [n \in Nat |-> IF n = 0 THEN 1 ELSE 10 * P[n - 1]]
  BY Zenon DEF PowerOfTen
<1> HIDE DEF P
<1>2. 10 \in Nat
  OBVIOUS
<1>3. P \in [Nat -> Nat] /\ P[0] = 1 /\ \A n \in Nat : P[n + 1] = 10 * P[n]
  BY <1>1, <1>2, PowerRecursion, Zenon
<1> QED BY <1>3 DEF P

-----------------------------------------------------------------------------
(* ReconnectTiming                                                         *)

(* Truncation to ticks (checked_duration) never orders two delays the      *)
(* other way round, and gives a natural number.                            *)
LEMMA TruncationMonotone ==
  ASSUME NEW a \in Nat, NEW b \in Nat, a <= b
  PROVE  /\ checked_duration(a) \in Nat
         /\ checked_duration(b) \in Nat
         /\ checked_duration(a) <= checked_duration(b)
<1> DEFINE p == a \div Resolution
           q == b \div Resolution
<1>0. Resolution \in Nat /\ Resolution > 0
  BY TimingConstants
<1>1. /\ p \in Int /\ q \in Int
      /\ Resolution * p <= a /\ a < Resolution * p + Resolution
      /\ Resolution * q <= b /\ b < Resolution * q + Resolution
  BY <1>0
<1> HIDE DEF p, q
<1>2. p >= 0
  <2>1. SUFFICES ASSUME p + 1 <= 0 PROVE FALSE
    BY <1>1
  <2>2. Resolution * (p + 1) <= 0
    BY <2>1, <1>0, <1>1
  <2> QED BY <2>2, <1>0, <1>1
<1>3. p <= q
  <2>1. SUFFICES ASSUME q + 1 <= p PROVE FALSE
    BY <1>1
  <2>2. Resolution * (q + 1) <= Resolution * p
    BY <2>1, <1>0, <1>1
  <2> QED BY <2>2, <1>0, <1>1
<1> QED BY <1>1, <1>2, <1>3 DEF checked_duration, p, q

(* The delay in use stays between the two configured ones.                 *)
DelayInv ==
  /\ reconnect_initial_delay \in Nat /\ reconnect_max_delay \in Nat /\ backoff \in Nat
  /\ checked_duration(reconnect_initial_delay) > 0
  /\ InRange(reconnect_max_delay)
  /\ reconnect_initial_delay <= backoff /\ backoff <= reconnect_max_delay

(* What is known of a wait in progress.                                    *)
SleepInv ==
  /\ now \in Nat /\ deadline \in Nat /\ slept_from \in Nat /\ stop_at \in Nat
  /\ phase \in {"session", "backoff", "blocking", "asleep", "exited"}
  /\ stopping_ \in BOOLEAN /\ notify_due \in BOOLEAN /\ woken \in BOOLEAN
  /\ faulted_ \in BOOLEAN
  /\ Sleeping => /\ deadline = slept_from + checked_duration(backoff)
                 /\ slept_from <= now /\ now <= deadline

(* What is known of a stop() that has notified.                            *)
StopInv ==
  /\ notify_due => stopping_
  /\ stopping_ /\ ~notify_due /\ phase # "exited" =>
       /\ stop_at <= now
       /\ ~Sleeping => now = stop_at
       /\ Sleeping => slept_from <= stop_at
       /\ stop_phase = "asleep" => phase = "asleep" /\ woken /\ now = stop_at

FaultInv ==
  faulted_ => phase = "exited" /\ ClockFaultOnlyAtEnd

TimingInv == DelayInv /\ SleepInv /\ StopInv /\ FaultInv

(* The delay is that of a natural number of ticks, at least one.           *)
LEMMA DelayTicks ==
  ASSUME DelayInv
  PROVE  /\ checked_duration(backoff) \in Nat
         /\ checked_duration(backoff) > 0
         /\ checked_duration(backoff) <= checked_duration(reconnect_max_delay)
         /\ checked_duration(reconnect_max_delay) \in Nat
<1>1. checked_duration(reconnect_initial_delay) \in Nat
      /\ checked_duration(reconnect_initial_delay) <= checked_duration(backoff)
  BY TruncationMonotone DEF DelayInv
<1>2. /\ checked_duration(backoff) \in Nat
      /\ checked_duration(reconnect_max_delay) \in Nat
      /\ checked_duration(backoff) <= checked_duration(reconnect_max_delay)
  BY TruncationMonotone DEF DelayInv
<1> QED BY <1>1, <1>2 DEF DelayInv

(* Validation establishes the invariant.                                   *)
LEMMA TimingInit == Init => TimingInv
<1> SUFFICES ASSUME Init PROVE TimingInv
  OBVIOUS
<1>1. DelayInv
  BY TimingConstants DEF Init, validate, require_safe_timeout, Reachable, DelayInv
<1>2. SleepInv
  <2>1. now \in Nat
    BY TimingConstants DEF Init
  <2> QED BY <2>1, Zenon DEF Init, SleepInv, Sleeping
<1>3. StopInv /\ FaultInv
  BY DEF Init, StopInv, FaultInv
<1> QED BY <1>1, <1>2, <1>3 DEF TimingInv

(* Leaving a wait keeps the delay in its bounds.                           *)
LEMMA GoOnDelay ==
  ASSUME DelayInv, GoOn, UNCHANGED config
  PROVE  DelayInv'
BY DEF DelayInv, GoOn, NextDelay, config, InRange, checked_duration

(* Every step keeps the invariant.                                         *)
LEMMA TimingStep == TimingInv /\ [Next]_vars => TimingInv'
<1> SUFFICES ASSUME TimingInv, [Next]_vars PROVE TimingInv'
  OBVIOUS
<1>d. DelayInv /\ SleepInv /\ StopInv /\ FaultInv
  BY DEF TimingInv
<1>t. /\ checked_duration(backoff) \in Nat
      /\ checked_duration(backoff) > 0
      /\ checked_duration(backoff) <= checked_duration(reconnect_max_delay)
      /\ checked_duration(reconnect_max_delay) \in Nat
  BY <1>d, DelayTicks
<1> USE DEF config, stopVars, sleepVars
<1>1. ASSUME NEW valid \in BOOLEAN, SessionEnds(valid) PROVE TimingInv'
  <2>1. DelayInv'
    BY <1>d, <1>1 DEF SessionEnds, DelayInv, DelayAfter, InRange, checked_duration
  <2>2. SleepInv' /\ StopInv' /\ FaultInv'
    BY <1>d, <1>1 DEF SessionEnds, SleepInv, StopInv, FaultInv, Sleeping
  <2> QED BY <2>1, <2>2 DEF TimingInv
<1>2. CASE BeginWait /\ Reachable(now, backoff) /\ stopping_
  <2>1. DelayInv'
    BY <1>d, <1>2, GoOnDelay DEF BeginWait
  <2>0. deadline' = now + checked_duration(backoff) /\ deadline' \in Nat
    BY <1>d, <1>t, <1>2 DEF BeginWait, SleepInv, checked_deadline
  <2>2. SleepInv'
    BY <1>d, <1>2, <2>0, Zenon DEF BeginWait, GoOn, SleepInv, Sleeping
  <2>3. StopInv' /\ FaultInv'
    BY <1>d, <1>2 DEF BeginWait, GoOn, SleepInv, StopInv, FaultInv, Sleeping
  <2> QED BY <2>1, <2>2, <2>3 DEF TimingInv
<1>3. CASE BeginWait /\ Reachable(now, backoff) /\ ~stopping_
  <2>1. DelayInv'
    BY <1>d, <1>3 DEF BeginWait, DelayInv, InRange, checked_duration
  <2>2. checked_duration(backoff)' = checked_duration(backoff)
    BY <1>3 DEF BeginWait, checked_duration
  <2>3. SleepInv'
    BY <1>d, <1>t, <1>3, <2>2 DEF BeginWait, SleepInv, Sleeping, checked_deadline
  <2>4. StopInv' /\ FaultInv'
    BY <1>d, <1>3 DEF BeginWait, SleepInv, StopInv, FaultInv, Sleeping
  <2> QED BY <2>1, <2>3, <2>4 DEF TimingInv
<1>4. CASE BeginWait /\ ~Reachable(now, backoff)
  <2>1. DelayInv'
    BY <1>d, <1>4 DEF BeginWait, DelayInv, InRange, checked_duration
  <2>2. SleepInv' /\ StopInv'
    BY <1>d, <1>4 DEF BeginWait, SleepInv, StopInv, Sleeping
  <2>3. now + checked_duration(reconnect_max_delay) > ClockMax
    BY <1>d, <1>t, <1>4, TimingConstants DEF Reachable, InRange, DelayInv, SleepInv
  <2>4. FaultInv'
    BY <2>3, <1>4 DEF BeginWait, FaultInv, ClockFaultOnlyAtEnd, checked_duration
  <2> QED BY <2>1, <2>2, <2>4 DEF TimingInv
<1>5. CASE Block
  <2>1. DelayInv' /\ checked_duration(backoff)' = checked_duration(backoff)
    BY <1>d, <1>5 DEF Block, DelayInv, InRange, checked_duration
  <2>2. SleepInv' /\ StopInv' /\ FaultInv'
    BY <1>d, <1>5, <2>1 DEF Block, SleepInv, StopInv, FaultInv, Sleeping
  <2> QED BY <2>1, <2>2 DEF TimingInv
<1>6. CASE Wake
  <2>1. DelayInv'
    BY <1>d, <1>6, GoOnDelay DEF Wake
  <2>2. SleepInv' /\ StopInv' /\ FaultInv'
    BY <1>d, <1>6, Zenon DEF Wake, GoOn, SleepInv, StopInv, FaultInv, Sleeping
  <2> QED BY <2>1, <2>2 DEF TimingInv
<1>7. CASE StopStores \/ StopNotifies
  <2>1. DelayInv' /\ checked_duration(backoff)' = checked_duration(backoff)
    BY <1>d, <1>7 DEF StopStores, StopNotifies, DelayInv, InRange, checked_duration
  <2>2. SleepInv'
    BY <1>d, <1>7, <2>1, Zenon DEF StopStores, StopNotifies, Notified, SleepInv, Sleeping
  <2>3. StopInv'
    BY <1>d, <1>7 DEF StopStores, StopNotifies, Notified, SleepInv, StopInv, Sleeping
  <2>4. FaultInv'
    BY <1>d, <1>7, Zenon
    DEF StopStores, StopNotifies, FaultInv, ClockFaultOnlyAtEnd, checked_duration
  <2> QED BY <2>1, <2>2, <2>3, <2>4 DEF TimingInv
<1>8. CASE Tick
  <2>1. DelayInv' /\ checked_duration(backoff)' = checked_duration(backoff)
    BY <1>d, <1>8 DEF Tick, DelayInv, InRange, checked_duration
  <2>2. SleepInv' /\ StopInv' /\ FaultInv'
    BY <1>d, <1>8, <2>1 DEF Tick, SleepInv, StopInv, FaultInv, Sleeping
  <2> QED BY <2>1, <2>2 DEF TimingInv
<1>9. CASE UNCHANGED vars
  BY <1>d, <1>9 DEF vars, TimingInv, DelayInv, SleepInv, StopInv, FaultInv, Sleeping,
                    InRange, checked_duration, ClockFaultOnlyAtEnd
<1> QED
  BY <1>1, <1>2, <1>3, <1>4, <1>5, <1>6, <1>7, <1>8, <1>9 DEF Next, WorkerStep

(* The invariant gives the three properties.                               *)
LEMMA TimingImplies ==
  TimingInv => NoBusyReconnect /\ StopLatency /\ ClockFaultOnlyAtEnd
<1> SUFFICES ASSUME TimingInv PROVE NoBusyReconnect /\ StopLatency /\ ClockFaultOnlyAtEnd
  OBVIOUS
<1>1. /\ checked_duration(backoff) \in Nat /\ checked_duration(backoff) > 0
      /\ checked_duration(backoff) <= checked_duration(reconnect_max_delay)
      /\ checked_duration(reconnect_max_delay) \in Nat
  BY DelayTicks DEF TimingInv
<1>2. NoBusyReconnect
  BY <1>1 DEF TimingInv, SleepInv, NoBusyReconnect
<1>3. StopLatency
  BY <1>1 DEF TimingInv, SleepInv, StopInv, StopLatency, Sleeping
<1> QED BY <1>2, <1>3 DEF TimingInv, FaultInv, ClockFaultOnlyAtEnd

(* Every reachable state keeps the invariant.                              *)
THEOREM TimingInvariant == Spec => []TimingInv
<1> QED BY TimingInit, TimingStep, PTL DEF Spec

(* No reconnect wait is empty, for every validated configuration           *)
(* (types.cpp:28, client_impl.cpp:412).                                    *)
THEOREM NeverBusy == Spec => []NoBusyReconnect
<1> QED BY TimingInvariant, TimingImplies, PTL

(* stop() is late by at most reconnect_max_delay, even if its notification *)
(* is missed (client_impl.cpp:241 and 412).                                *)
THEOREM StopIsNeverLate == Spec => []StopLatency
<1> QED BY TimingInvariant, TimingImplies, PTL

(* A validated configuration cannot overflow the clock before the clock is *)
(* within reconnect_max_delay of its end (time.hpp:24).                    *)
THEOREM ClockFaultBound == Spec => []ClockFaultOnlyAtEnd
<1> QED BY TimingInvariant, TimingImplies, PTL

(* The delay after failures in a row, without a maximum.                   *)
Wanted == reconnect_initial_delay * PowerOfTwo[failures]

(* BackoffSchedule speaks of waits in progress; the delay follows the      *)
(* schedule at all times.                                                  *)
ScheduleInv ==
  /\ failures \in Nat
  /\ backoff = IF Wanted <= reconnect_max_delay THEN Wanted ELSE reconnect_max_delay

(* One more failure doubles the delay that is wanted.                      *)
LEMMA WantedDoubles ==
  ASSUME reconnect_initial_delay \in Nat, failures \in Nat, failures' = failures + 1,
         UNCHANGED reconnect_initial_delay
  PROVE  Wanted \in Nat /\ Wanted' = 2 * Wanted
<1>1. PowerOfTwo[failures] \in Nat /\ PowerOfTwo[failures + 1] = 2 * PowerOfTwo[failures]
  BY PowerOfTwoDoubles
<1>2. Wanted' = reconnect_initial_delay * PowerOfTwo[failures + 1]
  BY DEF Wanted
<1>3. ASSUME NEW i \in Nat, NEW p \in Nat PROVE i * p \in Nat /\ i * (2 * p) = 2 * (i * p)
  OBVIOUS
<1> HIDE DEF PowerOfTwo
<1>4. Wanted' = reconnect_initial_delay * (2 * PowerOfTwo[failures])
  BY <1>1, <1>2, Zenon
<1> QED BY <1>1, <1>3, <1>4, Zenon DEF Wanted

(* Without a failure yet, the initial delay is wanted.                     *)
LEMMA WantedAtFirst ==
  ASSUME reconnect_initial_delay \in Nat, failures = 0
  PROVE  Wanted = reconnect_initial_delay
<1>1. PowerOfTwo[failures] = 1
  BY PowerOfTwoDoubles
<1> HIDE DEF PowerOfTwo
<1> QED BY <1>1 DEF Wanted

(* Every step keeps the schedule.                                          *)
LEMMA ScheduleStep == TimingInv /\ ScheduleInv /\ [Next]_vars => ScheduleInv'
<1> SUFFICES ASSUME TimingInv, ScheduleInv, [Next]_vars PROVE ScheduleInv'
  OBVIOUS
<1>0. /\ reconnect_initial_delay \in Nat /\ reconnect_max_delay \in Nat /\ backoff \in Nat
      /\ reconnect_initial_delay <= reconnect_max_delay
  BY DEF TimingInv, DelayInv
<1>1. UNCHANGED config
  BY DEF Next, WorkerStep, SessionEnds, BeginWait, Block, Wake, StopStores, StopNotifies, Tick,
         vars
<1>2. CASE UNCHANGED <<backoff, failures>>
  BY <1>1, <1>2 DEF ScheduleInv, Wanted, config
<1>3. CASE GoOn
  <2>1. failures' = failures + 1 /\ backoff' = NextDelay(2 * backoff)
    BY <1>3 DEF GoOn
  <2>2. Wanted \in Nat /\ Wanted' = 2 * Wanted /\ reconnect_max_delay' = reconnect_max_delay
    BY <1>0, <1>1, <2>1, WantedDoubles DEF ScheduleInv, config
  <2> HIDE DEF Wanted
  <2> QED BY <1>0, <2>1, <2>2 DEF ScheduleInv, NextDelay
<1>4. ASSUME NEW valid \in BOOLEAN, SessionEnds(valid) PROVE ScheduleInv'
  <2>1. CASE stopping_ \/ ~valid
    BY <1>2, <1>4, <2>1 DEF SessionEnds, DelayAfter
  <2>2. CASE ~stopping_ /\ valid
    <3>1. failures' = 0 /\ backoff' = reconnect_initial_delay
      BY <1>4, <2>2 DEF SessionEnds, DelayAfter
    <3>2. reconnect_initial_delay' \in Nat /\ failures' = 0
      BY <1>0, <1>1, <3>1 DEF config
    <3>3. Wanted' = reconnect_initial_delay'
      <4>1. PowerOfTwo[failures'] = 1
        BY <3>2, PowerOfTwoDoubles
      <4>2. Wanted' = reconnect_initial_delay' * 1
        BY <4>1, Zenon DEF Wanted
      <4>3. \A delay \in Nat : delay * 1 = delay
        OBVIOUS
      <4> QED BY <3>2, <4>2, <4>3, Zenon
    <3> HIDE DEF Wanted
    <3> QED BY <1>0, <1>1, <3>1, <3>3 DEF ScheduleInv, config
  <2> QED BY <2>1, <2>2
<1> QED
  BY <1>2, <1>3, <1>4 DEF Next, WorkerStep, BeginWait, Block, Wake, StopStores, StopNotifies,
                          Tick, vars

(* The reconnect delay doubles with every session in a row that brought no *)
(* valid record, up to the maximum, for every number of failures           *)
(* (client_impl.cpp:401-416).                                              *)
THEOREM BackoffFollowsSchedule == Spec => []BackoffSchedule
<1>1. Init => ScheduleInv
  <2> SUFFICES ASSUME Init PROVE ScheduleInv
    OBVIOUS
  <2>1. /\ reconnect_initial_delay \in Nat /\ failures = 0
        /\ reconnect_initial_delay <= reconnect_max_delay
        /\ backoff = reconnect_initial_delay
    BY DEF Init, validate
  <2>2. Wanted = reconnect_initial_delay
    BY <2>1, WantedAtFirst
  <2> HIDE DEF Wanted
  <2> QED BY <2>1, <2>2 DEF ScheduleInv
<1>2. TimingInv /\ ScheduleInv => BackoffSchedule
  <2> SUFFICES ASSUME TimingInv, ScheduleInv, Sleeping
               PROVE  deadline - slept_from = checked_duration(backoff)
    BY DEF BackoffSchedule, ScheduleInv, Wanted
  <2>1. checked_duration(backoff) \in Nat
    BY DelayTicks DEF TimingInv
  <2> QED BY <2>1 DEF TimingInv, SleepInv
<1> QED BY <1>1, <1>2, ScheduleStep, TimingInvariant, PTL DEF Spec

-----------------------------------------------------------------------------
(* XmlConfig: depth, and the order of positions                            *)

CountOf(d, n, kind) == Cardinality({j \in 1 .. n : d[j].kind = kind})

(* The number of tokens of a kind grows by one at each of them.            *)
LEMMA CountKind ==
  ASSUME NEW d, NEW kind, NEW i \in Nat
  PROVE  /\ CountOf(d, i, kind) \in Nat
         /\ CountOf(d, i + 1, kind) =
              CountOf(d, i, kind) + IF d[i + 1].kind = kind THEN 1 ELSE 0
<1> DEFINE upto(n) == {j \in 1 .. n : d[j].kind = kind}
<1>1. IsFiniteSet(upto(i)) /\ Cardinality(upto(i)) \in Nat
  <2>1. IsFiniteSet(1 .. i)
    BY FS_Interval
  <2> QED BY <2>1, FS_Subset, FS_CardinalityType
<1>2. upto(i + 1) = IF d[i + 1].kind = kind THEN upto(i) \cup {i + 1} ELSE upto(i)
  OBVIOUS
<1>3. i + 1 \notin upto(i)
  OBVIOUS
<1>4. \A n : CountOf(d, n, kind) = Cardinality(upto(n))
  BY Zenon DEF CountOf
<1> HIDE DEF upto
<1>5. Cardinality(upto(i) \cup {i + 1}) = Cardinality(upto(i)) + 1
  BY <1>1, <1>3, FS_AddElement
<1> QED BY <1>1, <1>2, <1>4, <1>5

(* How a token changes the depth.                                          *)
Nesting(token) ==
  IF token.kind = "open" THEN 1 ELSE IF token.kind = "close" THEN -1 ELSE 0

(* The depth of a document from token to token.                            *)
LEMMA DepthStep ==
  ASSUME NEW d
  PROVE  /\ Depth(d, 0) = 0
         /\ \A i \in Nat : Depth(d, i) \in Int
         /\ \A i \in Nat : Depth(d, i + 1) = Depth(d, i) + Nesting(d[i + 1])
<1>1. \A i : Depth(d, i) = CountOf(d, i, "open") - CountOf(d, i, "close")
  BY DEF Depth, CountOf
<1>2. \A kind : CountOf(d, 0, kind) = 0
  <2>1. \A kind : {j \in 1 .. 0 : d[j].kind = kind} = {}
    OBVIOUS
  <2> QED BY <2>1, FS_EmptySet, Zenon DEF CountOf
<1>3. \A i \in Nat : \A kind :
        /\ CountOf(d, i, kind) \in Nat
        /\ CountOf(d, i + 1, kind) =
             CountOf(d, i, kind) + IF d[i + 1].kind = kind THEN 1 ELSE 0
  BY CountKind
<1> QED BY <1>1, <1>2, <1>3 DEF Nesting

(* Tokens to come do not change the depth so far.                          *)
LEMMA DepthSoFar ==
  ASSUME NEW T, NEW d \in Seq(T), NEW token \in T, NEW i \in 0 .. Len(d)
  PROVE  Depth(Append(d, token), i) = Depth(d, i)
<1>1. \A j \in 1 .. i : Append(d, token)[j] = d[j]
  OBVIOUS
<1>2. \A kind : {j \in 1 .. i : Append(d, token)[j].kind = kind}
                 = {j \in 1 .. i : d[j].kind = kind}
  BY <1>1
<1> QED BY <1>2, Zenon DEF Depth

-----------------------------------------------------------------------------
(* The numbers of the texts.                                               *)

Rank(S, k) == Cardinality({m \in S : m <= k})

(* Every place in the order of S is taken.                                 *)
HasRanks(S) == \A n \in 1 .. Cardinality(S) : \E k \in S : Rank(S, k) = n

(* Adding a position after all others adds the last place.                 *)
LEMMA RankAdded ==
  ASSUME NEW S \in SUBSET Nat, IsFiniteSet(S), NEW x \in Nat, \A k \in S : k < x
  PROVE  /\ Cardinality(S) \in Nat
         /\ Cardinality(S \cup {x}) = Cardinality(S) + 1
         /\ \A k \in S : /\ Rank(S \cup {x}, k) = Rank(S, k)
                         /\ Rank(S, k) \in Nat /\ Rank(S, k) <= Cardinality(S)
         /\ Rank(S \cup {x}, x) = Cardinality(S) + 1
         /\ HasRanks(S) => HasRanks(S \cup {x})
<1>1. Cardinality(S) \in Nat /\ x \notin S
  BY FS_CardinalityType
<1>2. Cardinality(S \cup {x}) = Cardinality(S) + 1
  BY <1>1, FS_AddElement, SMTT(30)
<1>3. ASSUME NEW k \in S
      PROVE  /\ Rank(S \cup {x}, k) = Rank(S, k)
             /\ Rank(S, k) \in Nat /\ Rank(S, k) <= Cardinality(S)
  <2>1. {m \in S \cup {x} : m <= k} = {m \in S : m <= k}
    OBVIOUS
  <2>2. /\ IsFiniteSet({m \in S : m <= k})
        /\ Cardinality({m \in S : m <= k}) <= Cardinality(S)
    BY FS_Subset
  <2> QED BY <2>1, <2>2, FS_CardinalityType, Zenon DEF Rank
<1>4. Rank(S \cup {x}, x) = Cardinality(S) + 1
  <2>0. \A m \in S \cup {x} : m <= x
    <3>1. \A m \in Nat : m < x => m <= x
      OBVIOUS
    <3>2. x <= x
      OBVIOUS
    <3> QED BY <3>1, <3>2
  <2>1. {m \in S \cup {x} : m <= x} = S \cup {x}
    BY <2>0, Zenon
  <2> QED BY <1>2, <2>1 DEF Rank
<1>5. HasRanks(S) => HasRanks(S \cup {x})
  <2> SUFFICES ASSUME HasRanks(S), NEW n \in 1 .. Cardinality(S) + 1
               PROVE  \E k \in S \cup {x} : Rank(S \cup {x}, k) = n
    BY <1>2 DEF HasRanks
  <2>1. CASE n = Cardinality(S) + 1
    BY <1>4, <2>1
  <2>2. CASE n \in 1 .. Cardinality(S)
    BY <1>3, <2>2 DEF HasRanks
  <2> QED BY <1>1, <2>1, <2>2
<1> QED BY <1>1, <1>2, <1>3, <1>4, <1>5

(* A set of positions of a page is finite, so that what is counted over it *)
(* is a number.                                                            *)
LEMMA FinitePositions ==
  ASSUME NEW T, NEW d \in Seq(T), NEW S \in SUBSET (1 .. Len(d))
  PROVE  IsFiniteSet(S)
<1>1. \A n \in Nat : IsFiniteSet(1 .. n)
  BY FS_Interval
<1>2. Len(d) \in Nat
  OBVIOUS
<1> QED BY <1>1, <1>2, FS_Subset, Zenon

(* A text that is added comes last; tokens to come change no text before.  *)
LEMMA InOrderAdded ==
  ASSUME NEW T, NEW d \in Seq(T), NEW token \in T,
         NEW S \in SUBSET (1 .. Len(d)), HasRanks(S),
         NEW C, InOrder(d, S) \in Seq(C), token.name \in C
  PROVE  /\ InOrder(Append(d, token), S) = InOrder(d, S)
         /\ InOrder(Append(d, token), S \cup {Len(d) + 1}) = Append(InOrder(d, S), token.name)
         /\ HasRanks(S \cup {Len(d) + 1})
<1> DEFINE x == Len(d) + 1
           e == Append(d, token)
           c == Cardinality(S)
<1>1. /\ Len(d) \in Nat /\ x \in Nat /\ S \in SUBSET Nat /\ \A k \in S : k < x
      /\ \A k \in S : e[k] = d[k]
      /\ e[x] = token
  OBVIOUS
<1>2. IsFiniteSet(S)
  BY FinitePositions, Zenon
<1> HIDE DEF e, x
<1>3. /\ c \in Nat /\ Cardinality(S \cup {x}) = c + 1
      /\ \A k \in S : /\ Rank(S \cup {x}, k) = Rank(S, k)
                      /\ Rank(S, k) \in Nat /\ Rank(S, k) <= c
      /\ Rank(S \cup {x}, x) = c + 1
      /\ HasRanks(S \cup {x})
  BY <1>1, <1>2, RankAdded, Zenon
<1> HIDE DEF c
<1> DEFINE At(U, n) == CHOOSE k \in U : Rank(U, k) = n
<1>4. \A U, q : InOrder(q, U) = [n \in 1 .. Cardinality(U) |-> q[At(U, n)].name]
  BY Zenon DEF InOrder, Rank
<1>5. ASSUME NEW n \in 1 .. c PROVE At(S, n) \in S /\ At(S \cup {x}, n) = At(S, n)
  <2>1. \E k \in S : Rank(S, k) = n
    BY DEF HasRanks, c
  <2>2. At(S, n) \in S
    BY <2>1
  <2>3. \A k : (k \in S \cup {x} /\ Rank(S \cup {x}, k) = n) <=> (k \in S /\ Rank(S, k) = n)
    <3>1. n # c + 1
      BY <1>3
    <3> QED BY <1>3, <3>1, Zenon
  <2>4. At(S \cup {x}, n) = At(S, n)
    BY <2>3, Zenon
  <2> QED BY <2>2, <2>4
<1>6. At(S \cup {x}, c + 1) = x
  <2>0. \A r \in Nat : r <= c => r # c + 1
    BY <1>3
  <2>1. \A k \in S \cup {x} : Rank(S \cup {x}, k) = c + 1 <=> k = x
    <3>1. \A k \in S : Rank(S \cup {x}, k) # c + 1
      BY <1>3, <2>0, Zenon
    <3> QED BY <1>1, <1>3, <3>1, Zenon
  <2> QED BY <2>1, Zenon
<1> HIDE DEF At
<1>7. InOrder(e, S) = InOrder(d, S)
  <2>1. \A n \in 1 .. c : e[At(S, n)].name = d[At(S, n)].name
    BY <1>1, <1>5, Zenon
  <2> QED BY <1>4, <2>1, Zenon DEF c
<1>8. InOrder(e, S \cup {x}) = Append(InOrder(d, S), token.name)
  <2> DEFINE f == InOrder(e, S \cup {x})
             g == InOrder(d, S)
             h == Append(g, token.name)
  <2>1. /\ DOMAIN f = 1 .. c + 1
        /\ \A n \in 1 .. c + 1 : f[n] = e[At(S \cup {x}, n)].name
    BY <1>3, <1>4, Zenon
  <2>1a. f = [n \in DOMAIN f |-> f[n]]
    BY <1>4, Zenon
  <2>2. DOMAIN g = 1 .. c /\ \A n \in 1 .. c : g[n] = d[At(S, n)].name
    BY <1>4, Zenon DEF c
  <2> HIDE DEF f, g
  <2>3. g \in Seq(C) /\ Len(g) = c
    <3>1. g \in Seq(C)
      BY DEF g
    <3>2. DOMAIN g = 1 .. Len(g) /\ Len(g) \in Nat
      BY <3>1
    <3> QED BY <1>3, <2>2, <3>1, <3>2
  <2>4. h \in Seq(C) /\ Len(h) = c + 1 /\ h[c + 1] = token.name
        /\ \A n \in 1 .. c : h[n] = g[n]
    BY <2>3
  <2>5. DOMAIN h = 1 .. c + 1 /\ h = [n \in DOMAIN h |-> h[n]]
    BY <2>4
  <2> HIDE DEF h
  <2>6. ASSUME NEW n \in 1 .. c + 1 PROVE f[n] = h[n]
    <3>1. CASE n = c + 1
      <4>1. f[c + 1] = e[x].name
        <5>1. c + 1 \in 1 .. c + 1
          BY <1>3
        <5> QED BY <1>6, <2>1, <5>1, Zenon
      <4>2. e[x] = token
        BY <1>1
      <4> QED BY <2>4, <3>1, <4>1, <4>2
    <3>2. CASE n # c + 1
      <4>1. n \in 1 .. c
        BY <1>3, <3>2
      <4>2. f[n] = e[At(S, n)].name
        BY <1>5, <2>1, <4>1, Zenon
      <4>3. e[At(S, n)] = d[At(S, n)]
        BY <1>1, <1>5, <4>1, Zenon
      <4> QED BY <2>2, <2>4, <4>1, <4>2, <4>3
    <3> QED BY <3>1, <3>2
  <2>7. f = h
    BY <2>1, <2>1a, <2>5, <2>6, Zenon
  <2> QED BY <2>7, Zenon DEF f, g, h
<1> QED BY <1>3, <1>7, <1>8, Zenon DEF e, x

-----------------------------------------------------------------------------
(* XmlConfig: the stack and the elements that are open                     *)

(* The element opened at p is still open after the tokens of d.            *)
Pending(d, p) ==
  /\ p \in DOMAIN d /\ d[p].kind = "open"
  /\ \A q \in p .. Len(d) : Depth(d, q) >= Depth(d, p)

(* Every tag has its counterpart or is an element that is open.            *)
Paired(d) ==
  \A p \in DOMAIN d :
    /\ d[p].kind # "malformed"
    /\ d[p].kind = "open" => Pending(d, p) \/ \E i \in DOMAIN d : Matches(d, p, i)
    /\ d[p].kind = "close" => \E j \in DOMAIN d : Matches(d, j, p)

(* The stack holds the elements that are open, outermost first.            *)
Stacked(d, stack) ==
  /\ Depth(d, Len(d)) = Len(stack)
  /\ \A i \in 0 .. Len(d) : Depth(d, i) >= 0
  /\ \A k \in 1 .. Len(stack) : \E p \in DOMAIN d :
       Pending(d, p) /\ Depth(d, p) = k /\ d[p].name = stack[k]
  /\ Paired(d)

(* e is the document d with one token more.                                *)
OneMoreThan(e, d, token) ==
  /\ Len(d) \in Nat /\ Len(e) = Len(d) + 1
  /\ DOMAIN d = 1 .. Len(d) /\ DOMAIN e = 1 .. Len(d) + 1
  /\ \A i \in 1 .. Len(d) : e[i] = d[i]
  /\ e[Len(d) + 1] = token
  /\ \A i \in 0 .. Len(d) : Depth(e, i) = Depth(d, i) /\ Depth(d, i) \in Int
  /\ Depth(e, Len(d) + 1) = Depth(d, Len(d)) + Nesting(token)

(* What a token changes, and what it leaves alone.                         *)
LEMMA OneMore ==
  ASSUME NEW T, NEW d \in Seq(T), NEW token \in T
  PROVE  OneMoreThan(Append(d, token), d, token)
<1> DEFINE e == Append(d, token)
<1>1. /\ Len(d) \in Nat /\ Len(e) = Len(d) + 1
      /\ DOMAIN d = 1 .. Len(d) /\ DOMAIN e = 1 .. Len(d) + 1
      /\ \A i \in 1 .. Len(d) : e[i] = d[i]
      /\ e[Len(d) + 1] = token
  OBVIOUS
<1>2. \A i \in 0 .. Len(d) : Depth(e, i) = Depth(d, i)
  BY DepthSoFar
<1>3. \A i \in 0 .. Len(d) : Depth(d, i) \in Int
  BY <1>1, DepthStep
<1>4. Depth(e, Len(d) + 1) = Depth(e, Len(d)) + Nesting(e[Len(d) + 1])
  BY <1>1, DepthStep, Zenon
<1>5. Depth(e, Len(d)) = Depth(d, Len(d))
  BY <1>1, <1>2
<1> HIDE DEF e
<1>6. OneMoreThan(e, d, token)
  BY <1>1, <1>2, <1>3, <1>4, <1>5, Zenon DEF OneMoreThan
<1> QED BY <1>6 DEF e

(* A token more changes no match, ends no element that it does not close   *)
(* and opens none of those before it.                                      *)
LEMMA OneMoreMatch ==
  ASSUME NEW T, NEW d \in Seq(T), NEW e, NEW token, OneMoreThan(e, d, token),
         NEW p \in 1 .. Len(d)
  PROVE  /\ \A i \in 1 .. Len(d) : Matches(e, p, i) <=> Matches(d, p, i)
         /\ Pending(e, p) <=> Pending(d, p) /\ Depth(e, Len(d) + 1) >= Depth(d, p)
<1>1. /\ Len(d) \in Nat /\ Len(e) = Len(d) + 1
      /\ DOMAIN d = 1 .. Len(d) /\ DOMAIN e = 1 .. Len(d) + 1
      /\ \A i \in 1 .. Len(d) : e[i] = d[i]
      /\ \A i \in 0 .. Len(d) : Depth(e, i) = Depth(d, i)
  BY DEF OneMoreThan
<1>2. ASSUME NEW i \in 1 .. Len(d) PROVE Matches(e, p, i) <=> Matches(d, p, i)
  <2>1. \A k \in p .. i - 1 : Depth(e, k) = Depth(d, k)
    BY <1>1
  <2>2. Depth(e, p) = Depth(d, p) /\ Depth(e, i) = Depth(d, i) /\ e[p] = d[p] /\ e[i] = d[i]
    BY <1>1
  <2> QED BY <2>1, <2>2, Zenon DEF Matches
<1>3. Pending(e, p) <=> Pending(d, p) /\ Depth(e, Len(d) + 1) >= Depth(d, p)
  <2>1. \A q : q \in p .. Len(d) + 1 <=> q \in p .. Len(d) \/ q = Len(d) + 1
    BY <1>1
  <2>2. \A q \in p .. Len(d) : Depth(e, q) = Depth(d, q)
    BY <1>1
  <2>3. Depth(e, p) = Depth(d, p) /\ e[p] = d[p] /\ p \in DOMAIN d /\ p \in DOMAIN e
    BY <1>1
  <2> QED BY <1>1, <2>1, <2>2, <2>3, Zenon DEF Pending
<1> QED BY <1>2, <1>3, Zenon

(* At most one element is open at a depth.                                 *)
LEMMA PendingUnique ==
  ASSUME NEW T, NEW d \in Seq(T), NEW p, NEW q, Pending(d, p), Pending(d, q),
         Depth(d, p) = Depth(d, q)
  PROVE  p = q
<1>1. Len(d) \in Nat /\ DOMAIN d = 1 .. Len(d) /\ p \in 1 .. Len(d) /\ q \in 1 .. Len(d)
  BY DEF Pending
<1>2. ASSUME NEW x \in 1 .. Len(d), NEW y \in 1 .. Len(d), x < y,
             Pending(d, x), Pending(d, y), Depth(d, x) = Depth(d, y)
      PROVE  FALSE
  <2>1. y - 1 \in Nat /\ y - 1 \in x .. Len(d) /\ (y - 1) + 1 = y
    BY <1>1, <1>2
  <2>2. Depth(d, y - 1) \in Int /\ Depth(d, (y - 1) + 1) = Depth(d, y - 1) + Nesting(d[(y - 1) + 1])
    BY <2>1, DepthStep, Zenon
  <2>3. Nesting(d[y]) = 1
    BY <1>2 DEF Pending, Nesting
  <2>4. Depth(d, y - 1) >= Depth(d, x)
    BY <1>2, <2>1 DEF Pending
  <2>5. Depth(d, y) = Depth(d, y - 1) + 1
    BY <2>1, <2>2, <2>3
  <2> QED BY <1>2, <2>2, <2>4, <2>5
<1>3. p < q \/ q < p \/ p = q
  BY <1>1
<1> QED BY <1>1, <1>2, <1>3

(* An open element is not closed.                                          *)
LEMMA PendingUnmatched ==
  ASSUME NEW T, NEW d \in Seq(T), NEW p, Pending(d, p)
  PROVE  /\ \A i \in DOMAIN d : ~Matches(d, p, i)
         /\ ~WellNested(d)
<1>1. Len(d) \in Nat /\ DOMAIN d = 1 .. Len(d) /\ p \in 1 .. Len(d)
  BY DEF Pending
<1>2. ASSUME NEW i \in DOMAIN d, Matches(d, p, i) PROVE FALSE
  <2>1. p < i /\ Depth(d, i) = Depth(d, p) - 1
    BY <1>2 DEF Matches
  <2>2. i \in p .. Len(d)
    BY <1>1, <2>1
  <2>3. Depth(d, i) >= Depth(d, p)
    BY <2>2 DEF Pending
  <2>4. Depth(d, p) \in Int
    BY <1>1, DepthStep
  <2> QED BY <2>1, <2>3, <2>4
<1>3. ~WellNested(d)
  BY <1>2 DEF WellNested, Pending
<1> QED BY <1>2, <1>3

(* An open element is on the stack, at its depth.                          *)
LEMMA OnStack ==
  ASSUME NEW T, NEW d \in Seq(T), NEW N, NEW stack \in Seq(N), Stacked(d, stack),
         NEW p, Pending(d, p)
  PROVE  Depth(d, p) \in 1 .. Len(stack) /\ d[p].name = stack[Depth(d, p)]
<1>1. Len(d) \in Nat /\ DOMAIN d = 1 .. Len(d) /\ p \in 1 .. Len(d) /\ Len(stack) \in Nat
  BY DEF Pending
<1>2. p - 1 \in Nat /\ p - 1 \in 0 .. Len(d) /\ (p - 1) + 1 = p /\ Len(d) \in p .. Len(d)
  BY <1>1
<1>3. Depth(d, p - 1) \in Int /\ Depth(d, (p - 1) + 1) = Depth(d, p - 1) + Nesting(d[(p - 1) + 1])
  BY <1>2, DepthStep, Zenon
<1>4. Nesting(d[p]) = 1
  BY DEF Pending, Nesting
<1>5. Depth(d, p - 1) >= 0 /\ Depth(d, Len(d)) = Len(stack)
  BY <1>2 DEF Stacked
<1>6. Depth(d, Len(d)) >= Depth(d, p)
  BY <1>2 DEF Pending
<1>7. Depth(d, p) \in 1 .. Len(stack)
  <2>1. Depth(d, p) = Depth(d, p - 1) + 1
    BY <1>2, <1>3, <1>4
  <2> QED BY <1>1, <1>3, <1>5, <1>6, <2>1
<1>8. PICK q \in DOMAIN d :
        /\ Pending(d, q) /\ Depth(d, q) = Depth(d, p)
        /\ d[q].name = stack[Depth(d, p)]
  BY <1>7 DEF Stacked
<1>9. p = q
  BY <1>8, PendingUnique
<1> QED BY <1>7, <1>8, <1>9

(* It remains so when the token read has its counterpart, too, and ends no *)
(* element without closing it.                                             *)
LEMMA PairedMore ==
  ASSUME NEW T, NEW d \in Seq(T), NEW e, NEW token, OneMoreThan(e, d, token),
         Paired(d), \A i \in 0 .. Len(d) : Depth(d, i) >= 0,
         Depth(e, Len(e)) \in Nat,
         token.kind # "malformed",
         token.kind = "open" => Pending(e, Len(e)),
         token.kind = "close" => \E j \in DOMAIN e : Matches(e, j, Len(e)),
         \A p \in 1 .. Len(d) : Pending(d, p) => Pending(e, p) \/ Matches(e, p, Len(e))
  PROVE  Paired(e) /\ \A i \in 0 .. Len(e) : Depth(e, i) >= 0
<1>1. /\ Len(d) \in Nat /\ Len(e) = Len(d) + 1
      /\ DOMAIN d = 1 .. Len(d) /\ DOMAIN e = 1 .. Len(d) + 1
      /\ \A i \in 1 .. Len(d) : e[i] = d[i]
      /\ e[Len(d) + 1] = token
      /\ \A i \in 0 .. Len(d) : Depth(e, i) = Depth(d, i) /\ Depth(d, i) \in Int
  BY DEF OneMoreThan
<1>2. \A i \in 0 .. Len(e) : Depth(e, i) >= 0
  <2> TAKE i \in 0 .. Len(e)
  <2>1. CASE i = Len(e)
    BY <2>1
  <2>2. CASE i # Len(e)
    <3>1. i \in 0 .. Len(d)
      BY <1>1, <2>2
    <3> QED BY <1>1, <3>1, Zenon
  <2> QED BY <2>1, <2>2
<1>3. ASSUME NEW p \in DOMAIN e
      PROVE  /\ e[p].kind # "malformed"
             /\ e[p].kind = "open" => Pending(e, p) \/ \E i \in DOMAIN e : Matches(e, p, i)
             /\ e[p].kind = "close" => \E j \in DOMAIN e : Matches(e, j, p)
  <2>1. CASE p = Len(d) + 1
    BY <1>1, <2>1
  <2>2. CASE p # Len(d) + 1
    <3>1. p \in 1 .. Len(d) /\ p \in DOMAIN d /\ e[p] = d[p] /\ Len(e) \in DOMAIN e
      BY <1>1, <2>2
    <3>2. /\ d[p].kind # "malformed"
          /\ d[p].kind = "open" => Pending(d, p) \/ \E i \in DOMAIN d : Matches(d, p, i)
          /\ d[p].kind = "close" => \E j \in DOMAIN d : Matches(d, j, p)
      BY <3>1, Zenon DEF Paired
    <3>3. \A i \in DOMAIN d : /\ i \in DOMAIN e
                              /\ Matches(d, p, i) => Matches(e, p, i)
                              /\ Matches(d, i, p) => Matches(e, i, p)
      <4>1. ASSUME NEW i \in 1 .. Len(d)
            PROVE  /\ Matches(d, p, i) => Matches(e, p, i)
                   /\ Matches(d, i, p) => Matches(e, i, p)
        BY <3>1, OneMoreMatch, Zenon
      <4> QED BY <1>1, <4>1
    <3>4. Pending(d, p) => Pending(e, p) \/ Matches(e, p, Len(e))
      BY <3>1, Zenon
    <3> QED BY <3>1, <3>2, <3>3, <3>4, Zenon
  <2> QED BY <2>1, <2>2, Zenon
<1> QED BY <1>2, <1>3, Zenon DEF Paired

(* An open element stays open until the depth goes below its own.          *)
LEMMA StillOpen ==
  ASSUME NEW T, NEW d \in Seq(T), NEW e, NEW token, OneMoreThan(e, d, token),
         NEW N, NEW stack \in Seq(N), Stacked(d, stack),
         NEW k \in 1 .. Len(stack), Depth(e, Len(e)) >= k
  PROVE  \E p \in DOMAIN e : Pending(e, p) /\ Depth(e, p) = k /\ e[p].name = stack[k]
<1>1. /\ Len(d) \in Nat /\ Len(e) = Len(d) + 1
      /\ DOMAIN d = 1 .. Len(d) /\ DOMAIN e = 1 .. Len(d) + 1
      /\ \A i \in 1 .. Len(d) : e[i] = d[i]
      /\ \A i \in 0 .. Len(d) : Depth(e, i) = Depth(d, i)
  BY DEF OneMoreThan
<1>2. PICK p \in DOMAIN d : Pending(d, p) /\ Depth(d, p) = k /\ d[p].name = stack[k]
  BY DEF Stacked
<1>3. p \in 1 .. Len(d) /\ p \in 0 .. Len(d) /\ p \in DOMAIN e
  BY <1>1
<1>4. Depth(e, Len(d) + 1) >= Depth(d, p)
  BY <1>1, <1>2, Zenon
<1>5. Pending(e, p)
  BY <1>2, <1>3, <1>4, OneMoreMatch, Zenon
<1>6. Depth(e, p) = k /\ e[p].name = stack[k]
  BY <1>1, <1>2, <1>3
<1> QED BY <1>3, <1>5, <1>6, Zenon

(* A token that is no tag, or an empty element, leaves the stack alone.    *)
LEMMA StackedText ==
  ASSUME NEW T, NEW d \in Seq(T), NEW e, NEW token, OneMoreThan(e, d, token),
         NEW N, NEW stack \in Seq(N), Stacked(d, stack),
         token.kind \in {"text", "skipped", "empty"}
  PROVE  Stacked(e, stack)
<1>1. /\ Len(d) \in Nat /\ Len(e) = Len(d) + 1
      /\ \A i \in 0 .. Len(d) : Depth(d, i) \in Int
      /\ Depth(e, Len(d) + 1) = Depth(d, Len(d)) + Nesting(token)
  BY DEF OneMoreThan
<1>2. Depth(e, Len(e)) = Len(stack) /\ Len(stack) \in Nat
  BY <1>1 DEF Stacked, Nesting
<1>3. ASSUME NEW p \in 1 .. Len(d), Pending(d, p) PROVE Pending(e, p)
  <2>1. Depth(d, p) \in 1 .. Len(stack)
    BY <1>3, OnStack
  <2>2. Depth(e, Len(d) + 1) >= Depth(d, p)
    BY <1>1, <1>2, <2>1
  <2> QED BY <1>3, <2>2, OneMoreMatch, Zenon
<1>4. Paired(d) /\ \A i \in 0 .. Len(d) : Depth(d, i) >= 0
  BY Zenon DEF Stacked
<1>5. Paired(e) /\ \A i \in 0 .. Len(e) : Depth(e, i) >= 0
  <2>1. token.kind # "malformed" /\ token.kind # "open" /\ token.kind # "close"
    OBVIOUS
  <2>2. Depth(e, Len(e)) \in Nat
    BY <1>2, Zenon
  <2> QED BY <1>3, <1>4, <2>1, <2>2, PairedMore, Zenon
<1>6. \A k \in 1 .. Len(stack) :
        \E p \in DOMAIN e : Pending(e, p) /\ Depth(e, p) = k /\ e[p].name = stack[k]
  <2> TAKE k \in 1 .. Len(stack)
  <2>1. Depth(e, Len(e)) >= k
    BY <1>2
  <2> QED BY <2>1, StillOpen, SMTT(30)
<1> QED BY <1>2, <1>5, <1>6, Zenon DEF Stacked

(* An opening tag puts its element on top.                                 *)
LEMMA StackedOpen ==
  ASSUME NEW T, NEW d \in Seq(T), NEW e, NEW token, OneMoreThan(e, d, token),
         NEW N, NEW stack \in Seq(N), Stacked(d, stack),
         token.kind = "open", token.name \in N
  PROVE  Stacked(e, Append(stack, token.name))
<1> DEFINE more == Append(stack, token.name)
<1>1. /\ Len(d) \in Nat /\ Len(e) = Len(d) + 1 /\ DOMAIN e = 1 .. Len(d) + 1
      /\ e[Len(d) + 1] = token
      /\ \A i \in 0 .. Len(d) : Depth(d, i) \in Int
      /\ Depth(e, Len(d) + 1) = Depth(d, Len(d)) + Nesting(token)
  BY DEF OneMoreThan
<1>2. /\ Len(stack) \in Nat /\ Len(more) = Len(stack) + 1
      /\ more[Len(stack) + 1] = token.name
      /\ \A k \in 1 .. Len(stack) : more[k] = stack[k]
  OBVIOUS
<1> HIDE DEF more
<1>3. Depth(e, Len(e)) = Len(more)
  BY <1>1, <1>2 DEF Stacked, Nesting
<1>4. ASSUME NEW p \in 1 .. Len(d), Pending(d, p) PROVE Pending(e, p)
  <2>1. Depth(d, p) \in 1 .. Len(stack)
    BY <1>4, OnStack, SMTT(30)
  <2>2. Depth(e, Len(d) + 1) >= Depth(d, p)
    BY <1>1, <1>2, <1>3, <2>1
  <2> QED BY <1>4, <2>2, OneMoreMatch, Zenon
<1>5. Pending(e, Len(e)) /\ Len(e) \in DOMAIN e
  <2>1. \A q \in Len(e) .. Len(e) : q = Len(e)
    BY <1>1
  <2>2. Depth(e, Len(e)) >= Depth(e, Len(e))
    BY <1>2, <1>3
  <2>3. Len(e) \in DOMAIN e /\ e[Len(e)] = token
    BY <1>1
  <2> QED BY <2>1, <2>2, <2>3, Zenon DEF Pending
<1>6. Paired(d) /\ \A i \in 0 .. Len(d) : Depth(d, i) >= 0
  BY Zenon DEF Stacked
<1>7. Paired(e) /\ \A i \in 0 .. Len(e) : Depth(e, i) >= 0
  <2>1. token.kind # "malformed" /\ token.kind # "close"
    OBVIOUS
  <2>2. Depth(e, Len(e)) \in Nat
    BY <1>2, <1>3, SMTT(30)
  <2> QED BY <1>4, <1>5, <1>6, <2>1, <2>2, PairedMore, Zenon
<1>8. ASSUME NEW k \in 1 .. Len(more)
      PROVE  \E p \in DOMAIN e : Pending(e, p) /\ Depth(e, p) = k /\ e[p].name = more[k]
  <2>1. CASE k = Len(more)
    <3>1. e[Len(e)].name = more[Len(more)]
      BY <1>1, <1>2, Zenon
    <3> QED BY <1>3, <1>5, <2>1, <3>1, Zenon
  <2>2. CASE k # Len(more)
    <3>1. k \in 1 .. Len(stack) /\ Depth(e, Len(e)) >= k /\ more[k] = stack[k]
      BY <1>2, <1>3, <2>2
    <3> QED BY <3>1, StillOpen, SMTT(30)
  <2> QED BY <2>1, <2>2
<1>9. Stacked(e, more)
  BY <1>3, <1>7, <1>8, Zenon DEF Stacked
<1> QED BY <1>9 DEF more

(* A closing tag takes the innermost element, if it has its name; another  *)
(* has no counterpart.                                                     *)
LEMMA StackedClose ==
  ASSUME NEW T, NEW d \in Seq(T), NEW e, NEW token, OneMoreThan(e, d, token),
         NEW N, NEW stack \in Seq(N), Stacked(d, stack), token.kind = "close"
  PROVE  /\ stack # <<>> /\ back(stack) = token.name => Stacked(e, pop_back(stack))
         /\ stack = <<>> \/ back(stack) # token.name => ~WellNested(e)
<1>1. /\ Len(d) \in Nat /\ Len(e) = Len(d) + 1
      /\ DOMAIN d = 1 .. Len(d) /\ DOMAIN e = 1 .. Len(d) + 1
      /\ \A i \in 1 .. Len(d) : e[i] = d[i]
      /\ e[Len(d) + 1] = token
      /\ \A i \in 0 .. Len(d) : Depth(e, i) = Depth(d, i) /\ Depth(d, i) \in Int
      /\ Depth(e, Len(d) + 1) = Depth(d, Len(d)) + Nesting(token)
  BY Zenon DEF OneMoreThan
<1>2. Depth(e, Len(e)) = Len(stack) - 1 /\ Len(stack) \in Nat
  BY <1>1 DEF Stacked, Nesting
<1>3. ASSUME NEW p \in 1 .. Len(d)
      PROVE  Matches(e, p, Len(e)) <=>
               Pending(d, p) /\ Depth(d, p) = Len(stack) /\ d[p].name = token.name
  <2>1. p < Len(e) /\ e[p] = d[p] /\ e[Len(e)] = token /\ Depth(e, p) = Depth(d, p)
        /\ p \in DOMAIN d /\ Depth(d, p) \in Int
    BY <1>1, SMTT(30)
  <2>2. Len(e) - 1 = Len(d) /\ \A k \in p .. Len(d) : Depth(e, k) = Depth(d, k)
    BY <1>1
  <2>3. Depth(e, Len(e)) = Depth(e, p) - 1 <=> Depth(d, p) = Len(stack)
    BY <1>2, <2>1
  <2> QED BY <2>1, <2>2, <2>3, Zenon DEF Matches, Pending
<1>4. ASSUME stack # <<>>, back(stack) = token.name PROVE Stacked(e, pop_back(stack))
  <2> DEFINE less == pop_back(stack)
  <2>1. /\ Len(less) = Len(stack) - 1 /\ Len(stack) \in 1 .. Len(stack) /\ Len(less) \in Nat
        /\ \A k \in 1 .. Len(less) : less[k] = stack[k]
        /\ stack[Len(stack)] = token.name
    <3>1. Len(stack) \in 1 .. Len(stack) /\ Len(stack) - 1 \in Nat
      BY <1>2, <1>4
    <3>2. less = SubSeq(stack, 1, Len(stack) - 1)
      BY DEF pop_back
    <3>3. Len(less) = Len(stack) - 1 /\ \A k \in 1 .. Len(less) : less[k] = stack[k]
      <4> DEFINE m == Len(stack) - 1
      <4>1. less = SubSeq(stack, 1, m) /\ m \in 0 .. Len(stack)
        BY <1>2, <3>1, <3>2
      <4> HIDE DEF m, less
      <4>2. SubSeq(stack, 1, m) = [i \in 1 .. m |-> stack[i]]
        BY <4>1
      <4>3. Len([i \in 1 .. m |-> stack[i]]) = m
        BY <4>1
      <4>4. Len(less) = m /\ \A k \in 1 .. m : less[k] = stack[k]
        BY <4>1, <4>2, <4>3
      <4> QED BY <4>4 DEF m
    <3>4. stack[Len(stack)] = token.name
      BY <1>4, Zenon DEF back
    <3> QED BY <3>1, <3>3, <3>4
  <2> HIDE DEF less
  <2>2. PICK p \in DOMAIN d : Pending(d, p) /\ Depth(d, p) = Len(stack)
                              /\ d[p].name = stack[Len(stack)]
    BY <2>1, Zenon DEF Stacked
  <2>3. Matches(e, p, Len(e)) /\ p \in DOMAIN e
    BY <1>1, <1>3, <2>1, <2>2
  <2>4. ASSUME NEW q \in 1 .. Len(d), Pending(d, q)
        PROVE  Pending(e, q) \/ Matches(e, q, Len(e))
    <3>1. Depth(d, q) \in 1 .. Len(stack)
      BY <2>4, OnStack
    <3>2. CASE Depth(d, q) = Len(stack)
      <4>1. p = q
        BY <2>2, <2>4, <3>2, PendingUnique
      <4> QED BY <2>3, <4>1, Zenon
    <3>3. CASE Depth(d, q) # Len(stack)
      <4>1. Depth(e, Len(d) + 1) >= Depth(d, q)
        BY <1>1, <1>2, <3>1, <3>3
      <4> QED BY <2>4, <4>1, OneMoreMatch, Zenon
    <3> QED BY <3>2, <3>3, Zenon
  <2>5. Paired(d) /\ \A i \in 0 .. Len(d) : Depth(d, i) >= 0
    BY Zenon DEF Stacked
  <2>6. Paired(e) /\ \A i \in 0 .. Len(e) : Depth(e, i) >= 0
    <3>1. token.kind # "malformed" /\ token.kind # "open"
      OBVIOUS
    <3>2. Depth(e, Len(e)) \in Nat
      BY <1>2, <2>1, Zenon
    <3> QED BY <2>3, <2>4, <2>5, <3>1, <3>2, PairedMore, Zenon
  <2>7. ASSUME NEW k \in 1 .. Len(less)
        PROVE  \E q \in DOMAIN e : Pending(e, q) /\ Depth(e, q) = k /\ e[q].name = less[k]
    <3>1. k \in 1 .. Len(stack) /\ Depth(e, Len(e)) >= k /\ less[k] = stack[k]
      BY <1>2, <2>1
    <3> QED BY <3>1, StillOpen
  <2>8. Depth(e, Len(e)) = Len(less)
    BY <1>2, <2>1
  <2>9. Stacked(e, less)
    BY <2>6, <2>7, <2>8, Zenon DEF Stacked
  <2> QED BY <2>9 DEF less
<1>5. ASSUME stack = <<>> \/ back(stack) # token.name, WellNested(e) PROVE FALSE
  <2>1. PICK p \in DOMAIN e : Matches(e, p, Len(e))
    <3>1. Len(e) \in DOMAIN e /\ e[Len(e)].kind = "close"
      BY <1>1
    <3> QED BY <1>5, <3>1, Zenon DEF WellNested
  <2>2. p \in 1 .. Len(d)
    <3>1. p < Len(e)
      BY <2>1, Zenon DEF Matches
    <3> QED BY <1>1, <3>1
  <2>3. Pending(d, p) /\ Depth(d, p) = Len(stack) /\ d[p].name = token.name
    BY <1>3, <2>1, <2>2, Zenon
  <2>4. Depth(d, p) \in 1 .. Len(stack) /\ d[p].name = stack[Depth(d, p)]
    BY <2>3, OnStack, SMTT(30)
  <2>5. stack # <<>>
    BY <2>4
  <2> QED BY <1>5, <2>3, <2>4, <2>5 DEF back
<1> QED BY <1>4, <1>5

-----------------------------------------------------------------------------
(* XmlConfig: numbers                                                      *)

(* The digits of a count can be read one after the other, and added up by  *)
(* their weights.                                                          *)
LEMMA ReadExists ==
  ASSUME NEW C, NEW value \in Seq(C)
  PROVE  \E f : f = [i \in 0 .. Len(value) |->
                       IF i = 0 THEN 0 ELSE 10 * f[i - 1] + Digit(value[i])]
<1> DEFINE n == Len(value)
           summand == [i \in Nat |-> Digit(value[i])]
<1>0. n \in Nat
  OBVIOUS
<1>1. summand \in [Nat -> Nat] /\ \A i : Digit(value[i]) \in Nat
  BY DEF Digit
<1>2. PICK f \in [Nat -> Nat] : Linear(f, 10, 0, summand)
  <2>1. 10 \in Nat /\ 0 \in Nat /\ summand \in [Nat -> Nat]
    BY <1>1, Zenon
  <2> HIDE DEF summand
  <2> QED BY <2>1, LinearRecursion, Zenon
<1>2a. f[0] = 0 /\ \A i \in Nat : f[i + 1] = 10 * f[i] + summand[i + 1]
  <2> HIDE DEF summand
  <2> QED BY <1>2, Zenon DEF Linear
<1>3. \A i \in Nat : f[i + 1] = 10 * f[i] + Digit(value[i + 1])
  <2>1. \A i \in Nat : summand[i + 1] = Digit(value[i + 1])
    OBVIOUS
  <2> HIDE DEF summand
  <2> QED BY <1>2a, <2>1, Zenon
<1> HIDE DEF n
<1> DEFINE g == [i \in 0 .. n |-> f[i]]
<1>4. g = [i \in 0 .. n |-> IF i = 0 THEN 0 ELSE 10 * g[i - 1] + Digit(value[i])]
  <2>1. ASSUME NEW i \in 0 .. n
        PROVE  f[i] = IF i = 0 THEN 0 ELSE 10 * g[i - 1] + Digit(value[i])
    <3>1. CASE i # 0
      <4>1. i - 1 \in Nat /\ (i - 1) + 1 = i /\ i - 1 \in 0 .. n
        BY <1>0, <3>1
      <4>2. g[i - 1] = f[i - 1]
        BY <4>1
      <4>3. f[(i - 1) + 1] = 10 * f[i - 1] + Digit(value[(i - 1) + 1])
        BY <1>3, <4>1, Zenon
      <4> QED BY <3>1, <4>1, <4>2, <4>3, Zenon
    <3> QED BY <1>2a, <3>1
  <2> QED BY <2>1, Zenon
<1> HIDE DEF g
<1> QED BY <1>4, Zenon DEF n

(* What reading them gives from digit to digit.                            *)
LEMMA ReadDigits ==
  ASSUME NEW C, NEW value \in Seq(C), NEW r,
         r = [i \in 0 .. Len(value) |->
                IF i = 0 THEN 0 ELSE 10 * r[i - 1] + Digit(value[i])]
  PROVE  /\ r[0] = 0 /\ \A i \in 0 .. Len(value) : r[i] \in Nat
         /\ \A i \in 0 .. Len(value) - 1 : r[i + 1] = 10 * r[i] + Digit(value[i + 1])
<1> DEFINE n == Len(value)
<1>0. n \in Nat
  OBVIOUS
<1>1. \A i : Digit(value[i]) \in Nat
  BY DEF Digit
<1>6. \A i \in 0 .. n : r[i] = IF i = 0 THEN 0 ELSE 10 * r[i - 1] + Digit(value[i])
  BY Zenon
<1> HIDE DEF n
<1>7. r[0] = 0
  BY <1>0, <1>6
<1>8. \A i \in 0 .. n - 1 : r[i + 1] = 10 * r[i] + Digit(value[i + 1])
  <2> TAKE i \in 0 .. n - 1
  <2>1. i + 1 \in 0 .. n /\ i + 1 # 0 /\ (i + 1) - 1 = i
    BY <1>0
  <2>2. r[i + 1] = 10 * r[(i + 1) - 1] + Digit(value[i + 1])
    BY <1>6, <2>1, Zenon
  <2> QED BY <2>1, <2>2
<1> DEFINE S == {i \in Nat : i <= n => r[i] \in Nat}
<1>9. 0 \in S /\ \A i \in Nat : i \in S => i + 1 \in S
  <2>1. 0 \in S
    BY <1>7
  <2>2. ASSUME NEW i \in Nat, i \in S, i + 1 <= n PROVE r[i + 1] \in Nat
    <3>1. i \in 0 .. n - 1 /\ r[i] \in Nat
      BY <1>0, <2>2
    <3>2. Digit(value[i + 1]) \in Nat
      BY <1>1
    <3>3. \A x, y \in Nat : 10 * x + y \in Nat
      OBVIOUS
    <3>4. r[i + 1] = 10 * r[i] + Digit(value[i + 1])
      BY <1>8, <3>1, Zenon
    <3> QED BY <3>1, <3>2, <3>3, <3>4, Zenon
  <2> QED BY <2>1, <2>2
<1>10. Nat \subseteq S
  <2> HIDE DEF S
  <2> QED BY <1>9, NumberInduction, Zenon
<1>11. \A i \in 0 .. n : r[i] \in Nat
  <2> TAKE i \in 0 .. n
  <2>1. i \in Nat /\ i <= n
    BY <1>0
  <2> QED BY <1>10, <2>1, Zenon
<1> QED BY <1>7, <1>8, <1>11 DEF n

(* The running sum that reads a decimal numeral, most significant digit    *)
(* first, is defined for every numeral (the reference value of a count).   *)
LEMMA SumExists ==
  ASSUME NEW C, NEW value \in Seq(C)
  PROVE  \E f : f = [i \in 0 .. Len(value) |->
                       IF i = 0 THEN 0
                       ELSE f[i - 1] + Digit(value[i]) * PowerOfTen[Len(value) - i]]
<1> DEFINE n == Len(value)
           summand == [i \in Nat |-> IF i <= n THEN Digit(value[i]) * PowerOfTen[n - i] ELSE 0]
<1>0. n \in Nat
  OBVIOUS
<1> HIDE DEF n
<1>1. summand \in [Nat -> Nat]
  <2>1. ASSUME NEW i \in Nat, i <= n PROVE Digit(value[i]) * PowerOfTen[n - i] \in Nat
    <3>1. n - i \in Nat
      BY <1>0, <2>1
    <3>2. PowerOfTen[n - i] \in Nat
      BY <3>1, PowerOfTenGrows
    <3>3. Digit(value[i]) \in Nat
      BY DEF Digit
    <3>4. \A x, y \in Nat : x * y \in Nat
      OBVIOUS
    <3> QED BY <3>2, <3>3, <3>4, Zenon
  <2>2. \A i \in Nat : (IF i <= n THEN Digit(value[i]) * PowerOfTen[n - i] ELSE 0) \in Nat
    <3>1. 0 \in Nat
      OBVIOUS
    <3> QED BY <2>1, <3>1, Zenon
  <2> QED BY <2>2, Zenon
<1>2. PICK f \in [Nat -> Nat] : Linear(f, 1, 0, summand)
  <2>1. 1 \in Nat /\ 0 \in Nat /\ summand \in [Nat -> Nat]
    BY <1>1
  <2> HIDE DEF summand
  <2> QED BY <2>1, LinearRecursion, Zenon
<1>2a. f[0] = 0 /\ \A i \in Nat : f[i + 1] = 1 * f[i] + summand[i + 1]
  <2> HIDE DEF summand
  <2> QED BY <1>2, Zenon DEF Linear
<1>3. \A i \in Nat : f[i + 1] = f[i] + summand[i + 1]
  <2> HIDE DEF summand
  <2>1. \A x \in Nat : 1 * x = x
    OBVIOUS
  <2> QED BY <1>2a, <2>1, Zenon
<1> DEFINE g == [i \in 0 .. n |-> f[i]]
<1>4. g = [i \in 0 .. n |->
             IF i = 0 THEN 0 ELSE g[i - 1] + Digit(value[i]) * PowerOfTen[n - i]]
  <2>1. ASSUME NEW i \in 0 .. n
        PROVE  f[i] = IF i = 0 THEN 0 ELSE g[i - 1] + Digit(value[i]) * PowerOfTen[n - i]
    <3>1. CASE i # 0
      <4>1. i \in Nat /\ i <= n /\ i - 1 \in Nat /\ (i - 1) + 1 = i /\ i - 1 \in 0 .. n
        BY <1>0, <3>1
      <4>2. g[i - 1] = f[i - 1]
        BY <4>1, Zenon
      <4>3. f[(i - 1) + 1] = f[i - 1] + summand[(i - 1) + 1]
        <5> HIDE DEF summand
        <5> QED BY <1>3, <4>1, Zenon
      <4>4. summand[i] = Digit(value[i]) * PowerOfTen[n - i]
        BY <4>1, Zenon
      <4> HIDE DEF summand
      <4> QED BY <3>1, <4>1, <4>2, <4>3, <4>4, Zenon
    <3> QED BY <1>2a, <3>1, Zenon
  <2> QED BY <2>1, Zenon
<1> HIDE DEF g
<1> QED BY <1>4, Zenon DEF n

(* What adding them up gives from digit to digit.                          *)
LEMMA SumDigits ==
  ASSUME NEW C, NEW value \in Seq(C), NEW r,
         r = [i \in 0 .. Len(value) |->
                IF i = 0 THEN 0
                ELSE r[i - 1] + Digit(value[i]) * PowerOfTen[Len(value) - i]]
  PROVE  /\ r[0] = 0
         /\ \A i \in 0 .. Len(value) - 1 :
              r[i + 1] = r[i] + Digit(value[i + 1]) * PowerOfTen[Len(value) - (i + 1)]
<1> DEFINE n == Len(value)
<1>0. n \in Nat
  OBVIOUS
<1>6. \A i \in 0 .. n :
        r[i] = IF i = 0 THEN 0 ELSE r[i - 1] + Digit(value[i]) * PowerOfTen[n - i]
  BY Zenon
<1> HIDE DEF n
<1>7. r[0] = 0
  <2>1. 0 \in 0 .. n
    BY <1>0
  <2> QED BY <1>6, <2>1, Zenon
<1>8. ASSUME NEW i \in 0 .. n - 1
      PROVE  r[i + 1] = r[i] + Digit(value[i + 1]) * PowerOfTen[n - (i + 1)]
  <2>1. i + 1 \in 0 .. n /\ i + 1 # 0 /\ (i + 1) - 1 = i
    BY <1>0
  <2>2. r[i + 1] = r[(i + 1) - 1] + Digit(value[i + 1]) * PowerOfTen[n - (i + 1)]
    BY <1>6, <2>1, Zenon
  <2> QED BY <2>1, <2>2, Zenon
<1> QED BY <1>7, <1>8, Zenon DEF n

(* Both give the same number, which is positive if a digit is.             *)
LEMMA SameNumber ==
  ASSUME NEW C, NEW value \in Seq(C), NEW r, NEW s,
         r[0] = 0, \A i \in 0 .. Len(value) : r[i] \in Nat,
         \A i \in 0 .. Len(value) - 1 : r[i + 1] = 10 * r[i] + Digit(value[i + 1]),
         s[0] = 0,
         \A i \in 0 .. Len(value) - 1 :
           s[i + 1] = s[i] + Digit(value[i + 1]) * PowerOfTen[Len(value) - (i + 1)]
  PROVE  /\ r[Len(value)] = s[Len(value)]
         /\ r[Len(value)] > 0 <=> "1" \in Range(value)
<1> DEFINE n == Len(value)
<1>0. n \in Nat /\ DOMAIN value = 1 .. n /\ \A i : Digit(value[i]) \in Nat
  BY DEF Digit
<1> HIDE DEF n
<1>a. \A i \in Nat : i < n => i \in 0 .. n - 1 /\ i \in 0 .. n /\ i + 1 \in 0 .. n
  <2>1. n \in Nat
    BY <1>0
  <2> QED BY <2>1
<1> DEFINE S == {i \in Nat : i <= n => r[i] * PowerOfTen[n - i] = s[i]}
<1>1. 0 \in S
  <2>1. n - 0 \in Nat
    BY <1>0
  <2>2. PowerOfTen[n - 0] \in Nat
    BY <2>1, PowerOfTenGrows
  <2>3. \A x \in Nat : 0 * x = 0
    OBVIOUS
  <2>4. r[0] * PowerOfTen[n - 0] = s[0]
    BY <2>2, <2>3, Zenon
  <2>5. 0 \in Nat
    OBVIOUS
  <2> QED BY <2>4, <2>5, Zenon
<1>2. ASSUME NEW i \in Nat, i \in S PROVE i + 1 \in S
  <2> SUFFICES ASSUME i + 1 <= n
               PROVE  r[i + 1] * PowerOfTen[n - (i + 1)] = s[i + 1]
    OBVIOUS
  <2>1. /\ i < n /\ i <= n /\ n - (i + 1) \in Nat /\ (n - (i + 1)) + 1 = n - i
    BY <1>0
  <2>2. r[i] * PowerOfTen[n - i] = s[i]
    BY <1>2, <2>1
  <2>3. /\ r[i + 1] = 10 * r[i] + Digit(value[i + 1]) /\ r[i] \in Nat
        /\ s[i + 1] = s[i] + Digit(value[i + 1]) * PowerOfTen[n - (i + 1)]
    BY <1>a, <2>1, Zenon DEF n
  <2>4. PowerOfTen[n - (i + 1)] \in Nat /\ PowerOfTen[n - i] = 10 * PowerOfTen[n - (i + 1)]
    <3>1. PowerOfTen[(n - (i + 1)) + 1] = 10 * PowerOfTen[n - (i + 1)]
      BY <2>1, PowerOfTenGrows, Zenon
    <3> QED BY <2>1, <3>1, PowerOfTenGrows, Zenon
  <2>5. \A x, t, c \in Nat : (10 * x + c) * t = x * (10 * t) + c * t
    OBVIOUS
  <2>6. Digit(value[i + 1]) \in Nat
    BY <1>0, Zenon
  <2> DEFINE x == r[i]
             c == Digit(value[i + 1])
             t == PowerOfTen[n - (i + 1)]
  <2>7. x \in Nat /\ c \in Nat /\ t \in Nat
    BY <2>3, <2>4, <2>6, Zenon
  <2>8. r[i + 1] = 10 * x + c /\ s[i] = x * (10 * t) /\ s[i + 1] = s[i] + c * t
    BY <2>2, <2>3, <2>4, Zenon
  <2>9. (10 * x + c) * t = x * (10 * t) + c * t
    <3> HIDE DEF x, c, t
    <3> QED BY <2>5, <2>7, Zenon
  <2> QED BY <2>8, <2>9, Zenon
<1>3. Nat \subseteq S
  <2> HIDE DEF S
  <2> QED BY <1>1, <1>2, NumberInduction, Zenon
<1>4. r[n] = s[n]
  <2>1. n <= n /\ n - n = 0 /\ n \in 0 .. n
    BY <1>0
  <2>2. r[n] * PowerOfTen[n - n] = s[n]
    BY <1>0, <1>3, <2>1, Zenon
  <2>3. r[n] * 1 = s[n]
    BY <2>1, <2>2, PowerOfTenGrows, Zenon
  <2>4. r[n] \in Nat
    BY <2>1, Zenon DEF n
  <2> QED BY <2>3, <2>4
<1> DEFINE U == {i \in Nat : i <= n => (r[i] > 0 <=> \E k \in 1 .. i : value[k] = "1")}
<1>5. 0 \in U
  OBVIOUS
<1>6. ASSUME NEW i \in Nat, i \in U PROVE i + 1 \in U
  <2> SUFFICES ASSUME i + 1 <= n
               PROVE  r[i + 1] > 0 <=> \E k \in 1 .. i + 1 : value[k] = "1"
    OBVIOUS
  <2>1. i < n /\ i <= n
    BY <1>0
  <2>2. r[i] > 0 <=> \E k \in 1 .. i : value[k] = "1"
    BY <1>6, <2>1
  <2>3. r[i + 1] = 10 * r[i] + Digit(value[i + 1]) /\ r[i] \in Nat
    BY <1>a, <2>1, Zenon DEF n
  <2>4. \A k : k \in 1 .. i + 1 <=> k \in 1 .. i \/ k = i + 1
    OBVIOUS
  <2>5. r[i + 1] > 0 <=> r[i] > 0 \/ value[i + 1] = "1"
    BY <2>3 DEF Digit
  <2> QED BY <2>2, <2>4, <2>5, Zenon
<1>7. Nat \subseteq U
  <2> HIDE DEF U
  <2> QED BY <1>5, <1>6, NumberInduction, Zenon
<1>8. r[n] > 0 <=> \E k \in 1 .. n : value[k] = "1"
  BY <1>0, <1>7
<1>9. "1" \in Range(value) <=> \E k \in 1 .. n : value[k] = "1"
  BY <1>0, Zenon DEF Range
<1> QED BY <1>4, <1>8, <1>9 DEF n

(* A count is parsed to the number that its digits stand for.              *)
LEMMA CountMeaning ==
  ASSUME NEW C, NEW value \in Seq(C)
  PROVE  parse_positive_count(value) =
           IF Range(value) \subseteq {"0", "1"} /\ Number(value) > 0
           THEN <<Number(value)>> ELSE Invalid
<1> DEFINE r == CHOOSE f : f = [i \in 0 .. Len(value) |->
                              IF i = 0 THEN 0 ELSE 10 * f[i - 1] + Digit(value[i])]
           s == CHOOSE f : f = [i \in 0 .. Len(value) |->
                  IF i = 0 THEN 0
                  ELSE f[i - 1] + Digit(value[i]) * PowerOfTen[Len(value) - i]]
<1>1. parse_positive_count(value) =
        IF Range(value) \subseteq {"0", "1"} /\ "1" \in Range(value)
        THEN <<r[Len(value)]>> ELSE Invalid
  BY Zenon DEF parse_positive_count
<1>2. Number(value) = s[Len(value)]
  BY Zenon DEF Number
<1>3. r = [i \in 0 .. Len(value) |->
            IF i = 0 THEN 0 ELSE 10 * r[i - 1] + Digit(value[i])]
  BY ReadExists, Zenon
<1>4. s = [i \in 0 .. Len(value) |->
            IF i = 0 THEN 0 ELSE s[i - 1] + Digit(value[i]) * PowerOfTen[Len(value) - i]]
  BY SumExists, Zenon
<1> HIDE DEF r, s
<1>5. /\ r[0] = 0 /\ \A i \in 0 .. Len(value) : r[i] \in Nat
      /\ \A i \in 0 .. Len(value) - 1 : r[i + 1] = 10 * r[i] + Digit(value[i + 1])
  BY <1>3, ReadDigits, Zenon
<1>6. /\ s[0] = 0
      /\ \A i \in 0 .. Len(value) - 1 :
           s[i + 1] = s[i] + Digit(value[i + 1]) * PowerOfTen[Len(value) - (i + 1)]
  BY <1>4, SumDigits, Zenon
<1>7. r[Len(value)] = s[Len(value)] /\ (r[Len(value)] > 0 <=> "1" \in Range(value))
  BY <1>5, <1>6, SameNumber, Zenon
<1> QED BY <1>1, <1>2, <1>7, Zenon

-----------------------------------------------------------------------------
(* XmlConfig: values, and the text of a field                              *)

(* Trimming a text leaves a text.                                          *)
LEMMA TrimmedIsText ==
  ASSUME NEW C, NEW value \in Seq(C)
  PROVE  trim_ascii_whitespace(value) \in Seq(C)
<1> DEFINE solid == {i \in DOMAIN value : value[i] # Blank}
           first == CHOOSE i \in solid : \A j \in solid : i <= j
           final == CHOOSE i \in solid : \A j \in solid : i >= j
<1>1. trim_ascii_whitespace(value) = IF solid = {} THEN <<>> ELSE SubSeq(value, first, final)
  BY Zenon DEF trim_ascii_whitespace
<1>2. Len(value) \in Nat /\ DOMAIN value = 1 .. Len(value) /\ solid \subseteq 1 .. Len(value)
  OBVIOUS
<1>3. CASE solid = {}
  BY <1>1, <1>3
<1>4. CASE solid # {}
  <2> HIDE DEF solid
  <2>1. \E i \in solid : \A j \in solid : i <= j
    <3>1. solid \in SUBSET Nat
      BY <1>2
    <3> QED BY <1>4, <3>1, LeastNumber, Zenon
  <2>2. \E i \in solid : \A j \in solid : i >= j
    <3> DEFINE mirror == {Len(value) - i : i \in solid}
    <3>1. mirror \in SUBSET Nat /\ mirror # {}
      <4>1. \A i \in solid : Len(value) - i \in Nat
        <5>1. \A i \in 1 .. Len(value) : Len(value) - i \in Nat
          BY <1>2
        <5> QED BY <1>2, <5>1, Zenon
      <4> QED BY <1>4, <4>1, Zenon
    <3>2. \A j \in solid : Len(value) - j \in mirror
      BY Zenon
    <3>3. \A m \in mirror : \E i \in solid : m = Len(value) - i
      BY Zenon
    <3> HIDE DEF mirror
    <3>4. PICK m \in mirror : \A x \in mirror : m <= x
      BY <3>1, LeastNumber, Zenon
    <3>5. PICK i \in solid : m = Len(value) - i
      BY <3>3, <3>4
    <3>6. \A j \in solid : Len(value) - i <= Len(value) - j
      BY <3>2, <3>4, <3>5, Zenon
    <3>7. \A j \in solid : i >= j
      BY <1>2, <3>6
    <3> QED BY <3>7
  <2>3. first \in solid /\ final \in solid
    BY <2>1, <2>2, Zenon
  <2> HIDE DEF first, final
  <2>4. first \in 1 .. Len(value) /\ final \in 1 .. Len(value)
    BY <1>2, <2>3
  <2>5. SubSeq(value, first, final) \in Seq(C)
    BY <2>4
  <2> QED BY <1>1, <1>4, <2>5, Zenon
<1> QED BY <1>3, <1>4

(* Nothing is left of an empty text.                                       *)
LEMMA TrimmedEmpty == trim_ascii_whitespace(<<>>) = <<>>
<1>1. {i \in DOMAIN <<>> : <<>>[i] # Blank} = {}
  OBVIOUS
<1> QED BY <1>1, Zenon DEF trim_ascii_whitespace

(* The value a text has as the text of a field that occurs.                *)
Valued(tag, value) ==
  CASE tag \in Counts -> IF Range(value) \subseteq {"0", "1"} /\ Number(value) > 0
                         THEN <<Number(value)>> ELSE Invalid
    [] tag \in Units  -> IF (Unit(value) = <<"Newton">>) = (tag = "scfgfu")
                         THEN Unit(value) ELSE Invalid
    [] OTHER          -> value

(* A field is parsed to the value of its text.                             *)
LEMMA ParsedIsValued ==
  ASSUME NEW C, NEW value \in Seq(C), NEW tag \in {Optional} \cup Counts \cup Units
  PROVE  ParseField(tag, value) = Valued(tag, value)
<1>1. CASE tag \in Counts
  <2>1. tag \notin Units /\ tag # "scfgfu" /\ tag # "scfgtu"
    BY <1>1 DEF Counts, Units
  <2>2. ParseField(tag, value) = parse_positive_count(value)
    BY <1>1, <2>1, Zenon DEF ParseField
  <2>3. Valued(tag, value) = IF Range(value) \subseteq {"0", "1"} /\ Number(value) > 0
                             THEN <<Number(value)>> ELSE Invalid
    BY <1>1, <2>1, Zenon DEF Valued
  <2> QED BY <2>2, <2>3, CountMeaning, Zenon
<1>2. CASE tag = "scfgfu"
  <2>1. tag \notin Counts /\ tag \in Units /\ tag # "scfgtu"
    BY <1>2 DEF Counts, Units
  <2>2. ParseField(tag, value) = parse_force_unit(value)
    BY <1>2, <2>1, Zenon DEF ParseField
  <2>3. Valued(tag, value) = IF Unit(value) = <<"Newton">> THEN Unit(value) ELSE Invalid
    BY <1>2, <2>1 DEF Valued
  <2>4. parse_force_unit(value) = IF Unit(value) = <<"Newton">> THEN Unit(value) ELSE Invalid
    <3>1. CASE value = <<"N">>
      <4>1. Unit(value) = <<"Newton">>
        BY <3>1 DEF Unit
      <4> QED BY <3>1, <4>1, Zenon DEF parse_force_unit
    <3>2. CASE value # <<"N">>
      <4>1. Unit(value) # <<"Newton">>
        BY <3>2 DEF Unit, Invalid
      <4> QED BY <3>2, <4>1, Zenon DEF parse_force_unit
    <3> QED BY <3>1, <3>2
  <2> QED BY <2>2, <2>3, <2>4, Zenon
<1>3. CASE tag = "scfgtu"
  <2>1. tag \notin Counts /\ tag \in Units /\ tag # "scfgfu"
    BY <1>3 DEF Counts, Units
  <2>2. ParseField(tag, value) = parse_torque_unit(value)
    BY <1>3, <2>1, Zenon DEF ParseField
  <2>3. Valued(tag, value) = IF Unit(value) = <<"Newton">> THEN Invalid ELSE Unit(value)
    BY <1>3, <2>1 DEF Valued
  <2>4. parse_torque_unit(value) = IF Unit(value) = <<"Newton">> THEN Invalid ELSE Unit(value)
    <3>1. CASE value = <<"N", "m">> \/ value = <<"N", "-", "m">>
      BY <3>1 DEF parse_torque_unit, normalize_torque_spelling, Unit, Invalid
    <3>2. CASE value = <<"N", "m", "m">> \/ value = <<"N", "-", "m", "m">>
      BY <3>2 DEF parse_torque_unit, normalize_torque_spelling, Unit, Invalid
    <3>3. CASE /\ value # <<"N", "m">> /\ value # <<"N", "-", "m">>
               /\ value # <<"N", "m", "m">> /\ value # <<"N", "-", "m", "m">>
      BY <3>3 DEF parse_torque_unit, normalize_torque_spelling, Unit, Invalid
    <3> QED BY <3>1, <3>2, <3>3
  <2> QED BY <2>2, <2>3, <2>4, Zenon
<1>4. CASE tag = Optional
  <2>1. tag \notin Counts /\ tag \notin Units /\ tag # "scfgfu" /\ tag # "scfgtu"
    BY <1>4 DEF Counts, Units, Optional
  <2> QED BY <2>1, Zenon DEF ParseField, Valued
<1> QED BY <1>1, <1>2, <1>3, <1>4 DEF Units

-----------------------------------------------------------------------------
(* The positions in elements called tag, closed or not.                    *)
Sofar(d, tag) ==
  {k \in DOMAIN d : \E j \in DOMAIN d :
     /\ d[j].kind = "open" /\ d[j].name = tag /\ j < k
     /\ \A q \in j .. k : Depth(d, q) >= Depth(d, j)}

TextSofar(d, tag) == {k \in Sofar(d, tag) : d[k].kind = "text"}

(* A field holds text only, and this is the text.                          *)
Collected(d, tag, text) ==
  /\ \A k \in Sofar(d, tag) : d[k].kind \in {"text", "skipped"}
  /\ HasRanks(TextSofar(d, tag))
  /\ text = InOrder(d, TextSofar(d, tag))

(* A token is in an element when that was open before and stays open.      *)
LEMMA SofarMore ==
  ASSUME NEW T, NEW d \in Seq(T), NEW e, NEW token, OneMoreThan(e, d, token), NEW tag
  PROVE  /\ Sofar(d, tag) \subseteq 1 .. Len(d)
         /\ Sofar(e, tag) \subseteq 1 .. Len(d) + 1
         /\ \A k \in 1 .. Len(d) : k \in Sofar(e, tag) <=> k \in Sofar(d, tag)
         /\ Len(d) + 1 \in Sofar(e, tag) <=>
              \E p \in 1 .. Len(d) : Pending(e, p) /\ e[p].name = tag
<1>1. /\ Len(d) \in Nat /\ Len(e) = Len(d) + 1
      /\ DOMAIN d = 1 .. Len(d) /\ DOMAIN e = 1 .. Len(d) + 1
      /\ \A i \in 1 .. Len(d) : e[i] = d[i]
      /\ \A i \in 0 .. Len(d) : Depth(e, i) = Depth(d, i)
  BY DEF OneMoreThan
<1>2. Sofar(d, tag) \subseteq 1 .. Len(d) /\ Sofar(e, tag) \subseteq 1 .. Len(d) + 1
  BY <1>1, Zenon DEF Sofar
<1> DEFINE In(q, j, k) == /\ q[j].kind = "open" /\ q[j].name = tag /\ j < k
                          /\ \A m \in j .. k : Depth(q, m) >= Depth(q, j)
<1>3. \A q, k : k \in Sofar(q, tag) <=> k \in DOMAIN q /\ \E j \in DOMAIN q : In(q, j, k)
  BY Zenon DEF Sofar
<1>4. ASSUME NEW k \in 1 .. Len(d), NEW j \in 1 .. Len(d) PROVE In(e, j, k) <=> In(d, j, k)
  <2>1. \A m \in j .. k : Depth(e, m) = Depth(d, m)
    BY <1>1
  <2>2. Depth(e, j) = Depth(d, j) /\ e[j] = d[j]
    BY <1>1
  <2> QED BY <2>1, <2>2, Zenon
<1>5. \A k \in 1 .. Len(d) : k \in DOMAIN d /\ k \in DOMAIN e /\ ~(Len(d) + 1 < k)
  BY <1>1
<1>6. ASSUME NEW k \in 1 .. Len(d) PROVE k \in Sofar(e, tag) <=> k \in Sofar(d, tag)
  <2>1. \A j \in DOMAIN e : In(e, j, k) => j \in 1 .. Len(d)
    <3> TAKE j \in DOMAIN e
    <3>1. In(e, j, k) => j < k
      OBVIOUS
    <3>2. j < k => j \in 1 .. Len(d)
      BY <1>1
    <3> QED BY <3>1, <3>2
  <2> HIDE DEF In
  <2> QED BY <1>1, <1>3, <1>4, <1>5, <2>1, Zenon
<1>7. Len(d) + 1 \in Sofar(e, tag) <=>
        \E p \in 1 .. Len(d) : Pending(e, p) /\ e[p].name = tag
  <2>1. Len(d) + 1 \in DOMAIN e
    BY <1>1
  <2>2. \A j \in DOMAIN e : j < Len(d) + 1 <=> j \in 1 .. Len(d)
    BY <1>1
  <2>3. \A j \in 1 .. Len(d) : In(e, j, Len(d) + 1) <=> Pending(e, j) /\ e[j].name = tag
    BY <1>1, <1>5, <2>2, Zenon DEF Pending
  <2>4. \A j \in DOMAIN e : In(e, j, Len(d) + 1) => j \in 1 .. Len(d)
    BY <2>2, Zenon
  <2> HIDE DEF In
  <2> QED BY <1>3, <1>5, <2>1, <2>3, <2>4, Zenon
<1> QED BY <1>2, <1>6, <1>7, Zenon

-----------------------------------------------------------------------------
(* XmlConfig: fields                                                       *)

(* What a token does to the text of a field.                               *)
LEMMA CollectedMore ==
  ASSUME NEW T, NEW d \in Seq(T), NEW token \in T, NEW e, e = Append(d, token),
         OneMoreThan(e, d, token), NEW C, NEW text \in Seq(C), NEW tag,
         Collected(d, tag, text)
  PROVE  /\ Len(d) + 1 \notin Sofar(e, tag) => Collected(e, tag, text)
         /\ token.kind = "skipped" => Collected(e, tag, text)
         /\ Len(d) + 1 \in Sofar(e, tag) /\ token.kind = "text"
              => Collected(e, tag, Append(text, token.name))
<1> DEFINE x == Len(d) + 1
           S == TextSofar(d, tag)
           C2 == C \cup {token.name}
<1>1. /\ \A i \in 1 .. Len(d) : e[i] = d[i]
      /\ e[x] = token
      /\ \A k \in 1 .. Len(d) + 1 : k \in 1 .. Len(d) \/ k = x
  BY DEF OneMoreThan
<1>2. /\ Sofar(d, tag) \subseteq 1 .. Len(d)
      /\ Sofar(e, tag) \subseteq 1 .. Len(d) + 1
      /\ \A k \in 1 .. Len(d) : k \in Sofar(e, tag) <=> k \in Sofar(d, tag)
  BY SofarMore, Zenon
<1>3. \A k \in Sofar(e, tag) : (k \in Sofar(d, tag) /\ e[k] = d[k]) \/ (k = x /\ e[k] = token)
  BY <1>1, <1>2, Zenon
<1>3a. \A k \in Sofar(d, tag) : k \in Sofar(e, tag) /\ e[k] = d[k]
  BY <1>1, <1>2, Zenon
<1>4. S \in SUBSET (1 .. Len(d)) /\ HasRanks(S) /\ text = InOrder(d, S)
  BY <1>2, Zenon DEF Collected, TextSofar
<1>5. text \in Seq(C2) /\ token.name \in C2
  OBVIOUS
<1> HIDE DEF S, C2
<1>6. /\ InOrder(e, S) = text
      /\ InOrder(e, S \cup {x}) = Append(text, token.name)
      /\ HasRanks(S \cup {x})
  <2>1. InOrder(d, S) \in Seq(C2)
    BY <1>4, <1>5
  <2>2. /\ InOrder(Append(d, token), S) = InOrder(d, S)
        /\ InOrder(Append(d, token), S \cup {Len(d) + 1}) = Append(InOrder(d, S), token.name)
        /\ HasRanks(S \cup {Len(d) + 1})
    BY <1>4, <1>5, <2>1, InOrderAdded, Zenon
  <2> QED BY <1>4, <2>2, Zenon
<1> HIDE DEF x
<1>7. \A k \in Sofar(d, tag) : d[k].kind \in {"text", "skipped"}
  BY DEF Collected
<1>8. ASSUME x \notin Sofar(e, tag) \/ token.kind = "skipped" PROVE Collected(e, tag, text)
  <2>0. "skipped" # "text"
    OBVIOUS
  <2>1. \A k \in Sofar(e, tag) : e[k].kind \in {"text", "skipped"}
    BY <1>3, <1>7, <1>8, Zenon
  <2>2. TextSofar(e, tag) = S
    <3>1. \A k : k \in TextSofar(e, tag) <=> k \in TextSofar(d, tag)
      BY <1>3, <1>3a, <1>8, <2>0, Zenon DEF TextSofar
    <3>2. TextSofar(e, tag) = TextSofar(d, tag)
      BY <3>1, Zenon DEF TextSofar
    <3> QED BY <3>2, Zenon DEF S
  <2> QED BY <1>4, <1>6, <2>1, <2>2, Zenon DEF Collected
<1>9. ASSUME x \in Sofar(e, tag), token.kind = "text"
      PROVE  Collected(e, tag, Append(text, token.name))
  <2>1. \A k \in Sofar(e, tag) : e[k].kind \in {"text", "skipped"}
    BY <1>3, <1>7, <1>9, Zenon
  <2>2. TextSofar(e, tag) = S \cup {x}
    <3>1. \A k : k \in TextSofar(e, tag) <=> k \in TextSofar(d, tag) \/ k = x
      BY <1>1, <1>3, <1>3a, <1>9, Zenon DEF TextSofar
    <3> HIDE DEF TextSofar
    <3>2. TextSofar(e, tag) = TextSofar(d, tag) \cup {x}
      BY <3>1, Zenon
    <3> QED BY <3>2, Zenon DEF S
  <2> QED BY <1>6, <2>1, <2>2, Zenon DEF Collected
<1> QED BY <1>8, <1>9 DEF x

(* A field has occurred if it was seen, and occurs once.                   *)
Once(d, tag, met) ==
  /\ tag \in met <=> Occurrences(d, tag) # {}
  /\ \A i, j \in Occurrences(d, tag) : i = j

(* A tag that opens an element is an occurrence more of its name.          *)
LEMMA OccurrencesMore ==
  ASSUME NEW T, NEW d \in Seq(T), NEW e, NEW token, OneMoreThan(e, d, token), NEW tag
  PROVE  Occurrences(e, tag) =
           Occurrences(d, tag) \cup
           IF token.kind \in {"open", "empty"} /\ token.name = tag THEN {Len(d) + 1} ELSE {}
<1>1. /\ DOMAIN d = 1 .. Len(d) /\ DOMAIN e = 1 .. Len(d) + 1
      /\ \A i \in 1 .. Len(d) : e[i] = d[i]
      /\ e[Len(d) + 1] = token
      /\ \A k : k \in 1 .. Len(d) + 1 <=> k \in 1 .. Len(d) \/ k = Len(d) + 1
  BY DEF OneMoreThan
<1>2. \A k : k \in Occurrences(e, tag) <=>
               \/ k \in Occurrences(d, tag)
               \/ /\ token.kind \in {"open", "empty"} /\ token.name = tag
                  /\ k = Len(d) + 1
  BY <1>1, Zenon DEF Occurrences
<1> QED BY <1>2

(* A field is seen when it occurs.                                         *)
LEMMA OnceMore ==
  ASSUME NEW T, NEW d \in Seq(T), NEW e, NEW token, OneMoreThan(e, d, token),
         NEW required, NEW tag \in required, NEW met, Once(d, tag, met)
  PROVE  /\ token.kind \notin {"open", "empty"} => Once(e, tag, met)
         /\ token.kind \in {"open", "empty"} /\ token.name \notin met
              => Once(e, tag, met \cup ({token.name} \cap required))
         /\ token.kind \in {"open", "empty"} /\ token.name = tag /\ tag \in met
              => Cardinality(Occurrences(e, tag)) \notin {0, 1}
<1> DEFINE here == token.kind \in {"open", "empty"} /\ token.name = tag
           x == Len(d) + 1
<1>1. Occurrences(e, tag) = Occurrences(d, tag) \cup IF here THEN {x} ELSE {}
  BY OccurrencesMore
<1>2. x \notin Occurrences(d, tag)
  <2>1. x \notin 1 .. Len(d)
    BY DEF OneMoreThan
  <2>2. DOMAIN d = 1 .. Len(d)
    OBVIOUS
  <2> QED BY <2>1, <2>2, Zenon DEF Occurrences
<1>3. ASSUME token.kind \notin {"open", "empty"} PROVE Once(e, tag, met)
  <2>1. Occurrences(e, tag) = Occurrences(d, tag)
    BY <1>1, <1>3
  <2> QED BY <2>1, Zenon DEF Once
<1>4. ASSUME token.kind \in {"open", "empty"}, token.name \notin met
      PROVE  Once(e, tag, met \cup ({token.name} \cap required))
  <2>1. CASE token.name = tag
    <3>1. Occurrences(d, tag) = {}
      BY <1>4, <2>1, Zenon DEF Once
    <3>2. Occurrences(e, tag) = {x}
      BY <1>1, <1>4, <2>1, <3>1
    <3> QED BY <2>1, <3>2, Zenon DEF Once
  <2>2. CASE token.name # tag
    <3>1. Occurrences(e, tag) = Occurrences(d, tag)
      BY <1>1, <2>2
    <3>2. tag \in met \cup ({token.name} \cap required) <=> tag \in met
      BY <2>2
    <3> QED BY <3>1, <3>2, Zenon DEF Once
  <2> QED BY <2>1, <2>2
<1>5. ASSUME token.kind \in {"open", "empty"}, token.name = tag, tag \in met,
             Cardinality(Occurrences(e, tag)) \in {0, 1}
      PROVE  FALSE
  <2>1. PICK i : i \in Occurrences(d, tag)
    BY <1>5, Zenon DEF Once
  <2>2. i \in Occurrences(e, tag) /\ x \in Occurrences(e, tag) /\ i # x
    BY <1>1, <1>2, <1>5, <2>1
  <2>3. IsFiniteSet(Occurrences(e, tag))
    <3>1. IsFiniteSet(1 .. Len(d) + 1) /\ DOMAIN e = 1 .. Len(d) + 1
      BY FS_Interval DEF OneMoreThan
    <3>2. Occurrences(e, tag) \subseteq 1 .. Len(d) + 1
      BY <3>1, Zenon DEF Occurrences
    <3> QED BY <3>1, <3>2, FS_Subset, Zenon
  <2>4. CASE Cardinality(Occurrences(e, tag)) = 0
    BY <2>2, <2>3, <2>4, FS_EmptySet, Zenon
  <2>5. CASE Cardinality(Occurrences(e, tag)) = 1
    <3>1. \E y : Occurrences(e, tag) = {y}
      BY <2>3, <2>5, FS_Singleton, Zenon
    <3> QED BY <2>2, <3>1
  <2> QED BY <1>5, <2>4, <2>5
<1> QED BY <1>3, <1>4, <1>5

(* A stack that is not empty has a top.                                    *)
LEMMA StackTop ==
  ASSUME NEW N, NEW stack \in Seq(N), stack # <<>>
  PROVE  Len(stack) \in 1 .. Len(stack)
OBVIOUS

(* Where no field is open, a token is in no field.                         *)
LEMMA OutOfFields ==
  ASSUME NEW T, NEW d \in Seq(T), NEW e \in Seq(T), NEW token, OneMoreThan(e, d, token),
         NEW N, NEW stack \in Seq(N), Stacked(d, stack) \/ Stacked(e, stack),
         NEW required, NEW tag \in required,
         \A k \in 1 .. Len(stack) : stack[k] \notin required
  PROVE  Len(d) + 1 \notin Sofar(e, tag)
<1> SUFFICES ASSUME Len(d) + 1 \in Sofar(e, tag) PROVE FALSE
  BY SMTT(30)
<1>1. PICK p \in 1 .. Len(d) : Pending(e, p) /\ e[p].name = tag
  BY SofarMore
<1>2. Pending(d, p) /\ d[p] = e[p]
  <2>1. Pending(d, p)
    BY <1>1, OneMoreMatch, Zenon
  <2>2. d[p] = e[p]
    BY Zenon DEF OneMoreThan
  <2> QED BY <2>1, <2>2
<1>3. \E k \in 1 .. Len(stack) : stack[k] = tag
  <2>1. CASE Stacked(d, stack)
    <3>1. Depth(d, p) \in 1 .. Len(stack) /\ d[p].name = stack[Depth(d, p)]
      BY <1>2, <2>1, OnStack, Zenon
    <3> QED BY <1>1, <1>2, <3>1, Zenon
  <2>2. CASE Stacked(e, stack)
    <3>1. Depth(e, p) \in 1 .. Len(stack) /\ e[p].name = stack[Depth(e, p)]
      BY <1>1, <2>2, OnStack
    <3> QED BY <1>1, <3>1, Zenon
  <2> QED BY <2>1, <2>2
<1> QED BY <1>3, Zenon

Innermost(stack, tag) == stack # <<>> /\ back(stack) = tag

(* A token that is no tag is in the innermost element, if any.             *)
LEMMA InTheInnermost ==
  ASSUME NEW T, NEW d \in Seq(T), NEW e \in Seq(T), NEW token, OneMoreThan(e, d, token),
         NEW N, NEW stack \in Seq(N), Stacked(e, stack), token.kind # "open",
         NEW required, NEW tag \in required,
         \A k \in 1 .. Len(stack) - 1 : stack[k] \notin required
  PROVE  Len(d) + 1 \in Sofar(e, tag) <=> Innermost(stack, tag)
<1>0. Len(stack) \in Nat /\ (stack = <<>> <=> Len(stack) = 0) /\ back(stack) = stack[Len(stack)]
  BY DEF back
<1>1. ASSUME Len(d) + 1 \in Sofar(e, tag) PROVE stack # <<>> /\ back(stack) = tag
  <2>1. PICK p \in 1 .. Len(d) : Pending(e, p) /\ e[p].name = tag
    BY <1>1, SofarMore
  <2>2. Depth(e, p) \in 1 .. Len(stack) /\ stack[Depth(e, p)] = tag
    BY <2>1, OnStack, Zenon
  <2>3. Depth(e, p) = Len(stack)
    <3>1. Depth(e, p) \notin 1 .. Len(stack) - 1
      BY <2>2
    <3> QED BY <1>0, <2>2, <3>1
  <2> QED BY <1>0, <2>2, <2>3, SMTT(30)
<1>2. ASSUME stack # <<>>, back(stack) = tag PROVE Len(d) + 1 \in Sofar(e, tag)
  <2>1. Len(stack) \in 1 .. Len(stack)
    BY <1>0, <1>2
  <2>2. PICK p \in DOMAIN e : Pending(e, p) /\ e[p].name = tag
    BY <1>0, <1>2, <2>1, Zenon DEF Stacked
  <2>3. p \in 1 .. Len(d)
    <3>1. p # Len(d) + 1
      BY <2>2, Zenon DEF Pending, OneMoreThan
    <3>2. DOMAIN e = 1 .. Len(d) + 1 /\ Len(d) \in Nat
      BY DEF OneMoreThan
    <3> QED BY <3>1, <3>2
  <2> QED BY <2>2, <2>3, SofarMore, Zenon
<1> QED BY <1>1, <1>2, Zenon DEF Innermost

(* A document that ends in an element is not well nested.                  *)
LEMMA Incomplete ==
  ASSUME NEW T, NEW d \in Seq(T), NEW N, NEW stack \in Seq(N), Stacked(d, stack),
         stack # <<>>
  PROVE  ~WellNested(d)
<1>1. 1 \in 1 .. Len(stack)
  OBVIOUS
<1>2. PICK p \in DOMAIN d : Pending(d, p)
  BY <1>1, Zenon DEF Stacked
<1> QED BY <1>2, PendingUnmatched, Zenon

(* One that does not is, and the content of its elements is known.         *)
LEMMA Complete ==
  ASSUME NEW T, NEW d \in Seq(T), Stacked(d, <<>>)
  PROVE  WellNested(d) /\ \A tag : Inside(d, tag) = Sofar(d, tag)
<1>0. Len(d) \in Nat /\ DOMAIN d = 1 .. Len(d)
  OBVIOUS
<1>1. \A p : ~Pending(d, p)
  <2> SUFFICES ASSUME NEW p, Pending(d, p) PROVE FALSE
    OBVIOUS
  <2>1. <<>> \in Seq(T) /\ 1 .. Len(<<>>) = {}
    OBVIOUS
  <2>2. Depth(d, p) \in 1 .. Len(<<>>)
    BY <2>1, OnStack, Zenon
  <2> QED BY <2>1, <2>2
<1>2. Paired(d)
  BY Zenon DEF Stacked
<1>3. WellNested(d)
  BY <1>1, <1>2, Zenon DEF Paired, WellNested
<1>4. ASSUME NEW tag, NEW k PROVE k \in Inside(d, tag) <=> k \in Sofar(d, tag)
  <2>1. ASSUME k \in Inside(d, tag) PROVE k \in Sofar(d, tag)
    <3>1. PICK j \in DOMAIN d, i \in DOMAIN d :
            Matches(d, j, i) /\ d[j].name = tag /\ j < k /\ k < i
      BY <2>1, Zenon DEF Inside
    <3>2. k \in DOMAIN d
      BY <2>1, Zenon DEF Inside
    <3>3. \A q \in j .. k : q \in j .. i - 1
      BY <1>0, <3>1, <3>2
    <3>4. d[j].kind = "open" /\ \A q \in j .. k : Depth(d, q) >= Depth(d, j)
      BY <3>1, <3>3, Zenon DEF Matches
    <3> QED BY <3>1, <3>2, <3>4, Zenon DEF Sofar
  <2>2. ASSUME k \in Sofar(d, tag) PROVE k \in Inside(d, tag)
    <3>1. PICK j \in DOMAIN d :
            /\ d[j].kind = "open" /\ d[j].name = tag /\ j < k
            /\ \A q \in j .. k : Depth(d, q) >= Depth(d, j)
      BY <2>2, Zenon DEF Sofar
    <3>2. k \in DOMAIN d
      BY <2>2, Zenon DEF Sofar
    <3>3. PICK i \in DOMAIN d : Matches(d, j, i)
      BY <1>3, <3>1, Zenon DEF WellNested
    <3>4. k < i
      <4> SUFFICES ASSUME ~(k < i) PROVE FALSE
        OBVIOUS
      <4>1. j < i /\ Depth(d, i) = Depth(d, j) - 1
        BY <3>3, Zenon DEF Matches
      <4>2. i \in j .. k
        BY <1>0, <3>2, <4>1
      <4>3. Depth(d, i) >= Depth(d, j)
        BY <3>1, <4>2, Zenon
      <4>4. Depth(d, j) \in Int
        BY <1>0, DepthStep
      <4> QED BY <4>1, <4>3, <4>4
    <3> QED BY <3>1, <3>2, <3>3, <3>4, Zenon DEF Inside
  <2> QED BY <2>1, <2>2
<1>5. ASSUME NEW tag PROVE Inside(d, tag) = Sofar(d, tag)
  <2>1. \A k : k \in Inside(d, tag) <=> k \in Sofar(d, tag)
    BY <1>4
  <2> QED BY <2>1, Zenon DEF Inside, Sofar
<1> QED BY <1>3, <1>5

(* What the end of the document makes of a field: lines 210-228.           *)
Final(tag, met, text) ==
  IF tag \notin met THEN IF tag = Optional THEN <<"ATI Net F/T">> ELSE Invalid
  ELSE IF Len(trim_ascii_whitespace(text)) > kMaximumFieldLength THEN Invalid
  ELSE ParseField(tag, trim_ascii_whitespace(text))

(* A field as Acceptable wants it.                                         *)
Usable(d, tag) ==
  /\ Cardinality(Occurrences(d, tag)) \in (IF tag = Optional THEN {0, 1} ELSE {1})
  /\ \A k \in Inside(d, tag) : d[k].kind \in {"text", "skipped"}
  /\ Len(trim_ascii_whitespace(Text(d, tag))) <= kMaximumFieldLength
  /\ Meaning(d, tag) # Invalid

(* A complete document gives a field the value that it means.              *)
LEMMA FinalIsMeaning ==
  ASSUME NEW T, NEW d \in Seq(T), Stacked(d, <<>>),
         NEW tag \in {Optional} \cup Counts \cup Units,
         NEW met, Once(d, tag, met), NEW C, NEW text \in Seq(C), Collected(d, tag, text)
  PROVE  /\ Usable(d, tag) <=> Final(tag, met, text) # Invalid
         /\ Usable(d, tag) => Final(tag, met, text) = Meaning(d, tag)
<1>1. Inside(d, tag) = Sofar(d, tag)
  BY Complete, Zenon
<1>2. Text(d, tag) = text /\ \A k \in Inside(d, tag) : d[k].kind \in {"text", "skipped"}
  BY <1>1, Zenon DEF Collected, Text, TextSofar
<1> DEFINE value == trim_ascii_whitespace(text)
<1>3. value \in Seq(C)
  BY TrimmedIsText, Zenon
<1>4. CASE tag \notin met
  <2>1. Occurrences(d, tag) = {}
    BY <1>4, Zenon DEF Once
  <2>2. Cardinality(Occurrences(d, tag)) = 0
    BY <2>1, FS_EmptySet, Zenon
  <2>3. Meaning(d, tag) = Final(tag, met, text)
    BY <1>4, <2>1, Zenon DEF Meaning, Final
  <2>4. text = <<>>
    <3>1. TextSofar(d, tag) = {}
      <4>1. \A k : k \notin Sofar(d, tag)
        <5>1. \A j \in DOMAIN d : ~(d[j].kind = "open" /\ d[j].name = tag)
          BY <2>1 DEF Occurrences
        <5> QED BY <5>1, Zenon DEF Sofar
      <4> QED BY <4>1, Zenon DEF TextSofar
    <3>2. Cardinality({}) = 0
      BY FS_EmptySet, Zenon
    <3>3. text = InOrder(d, {})
      BY <3>1, Zenon DEF Collected
    <3>4. DOMAIN text = {}
      BY <3>2, <3>3 DEF InOrder
    <3> QED BY <3>4
  <2>5. Len(trim_ascii_whitespace(Text(d, tag))) <= kMaximumFieldLength
    <3>1. trim_ascii_whitespace(Text(d, tag)) = <<>>
      BY <1>2, <2>4, TrimmedEmpty, Zenon
    <3> QED BY <3>1, XmlConstants DEF XmlConstants
  <2>6. Final(tag, met, text) # Invalid <=> tag = Optional
    BY <1>4 DEF Final, Invalid
  <2>7. 0 \in (IF tag = Optional THEN {0, 1} ELSE {1}) <=> tag = Optional
    OBVIOUS
  <2> QED BY <1>2, <2>2, <2>3, <2>5, <2>6, <2>7, Zenon DEF Usable
<1>5. CASE tag \in met
  <2>1. PICK i : Occurrences(d, tag) = {i}
    BY <1>5, Zenon DEF Once
  <2>2. Cardinality(Occurrences(d, tag)) = 1 /\ Occurrences(d, tag) # {}
    BY <2>1, FS_Singleton, Zenon
  <2>3. Meaning(d, tag) = Valued(tag, value)
    BY <1>2, <2>2, Zenon DEF Meaning, Valued
  <2>4. ParseField(tag, value) = Valued(tag, value)
    BY <1>3, ParsedIsValued, Zenon
  <2>5. Final(tag, met, text) =
          IF Len(value) > kMaximumFieldLength THEN Invalid ELSE Meaning(d, tag)
    BY <1>5, <2>3, <2>4, Zenon DEF Final
  <2>6. Len(value) > kMaximumFieldLength <=> ~(Len(value) <= kMaximumFieldLength)
    <3> HIDE DEF value
    <3>1. Len(value) \in Nat
      BY <1>3
    <3> QED BY <3>1, XmlConstants DEF XmlConstants
  <2>7. 1 \in (IF tag = Optional THEN {0, 1} ELSE {1})
    OBVIOUS
  <2>8. Usable(d, tag) <=> Len(value) <= kMaximumFieldLength /\ Meaning(d, tag) # Invalid
    BY <1>2, <2>2, <2>7, Zenon DEF Usable
  <2> QED BY <2>5, <2>6, <2>8, Zenon
<1> QED BY <1>4, <1>5

-----------------------------------------------------------------------------
(* XmlConfig: the invariant of the parser                                  *)

ParserTypes ==
  /\ kRequiredTags \in Pages
  /\ document \in Seq(Tokens)
  /\ elements \in Seq(Names)
  /\ seen \subseteq kRequiredTags
  /\ fields \in [kRequiredTags -> Seq(Characters)]

(* Only the innermost element is a field; a field occurs at most once, and *)
(* what was collected for it is its text so far.                           *)
FieldsInv ==
  /\ \A k \in 1 .. Len(elements) - 1 : elements[k] \notin kRequiredTags
  /\ \A tag \in kRequiredTags :
       Once(document, tag, seen) /\ Collected(document, tag, fields[tag])

ParserInv ==
  /\ ParserTypes
  /\ outcome \in {"reading", "parsed", "DiscoveryError"}
  /\ outcome = "reading" => Stacked(document, elements) /\ FieldsInv
  /\ ParserCorrect

(* What the token grammar of the page yields.                              *)
LEMMA TokenKinds ==
  ASSUME NEW token \in Tokens
  PROVE  /\ token.kind \in {"open", "close", "empty", "text", "skipped", "malformed"}
         /\ token.kind \in {"open", "close", "empty"} => token.name \in Names
         /\ token.kind = "text" => token.name \in Characters
BY Zenon DEF Tokens, Tags

(* The sets that depend on the page only.                                  *)
LEMMA SamePage ==
  ASSUME UNCHANGED kRequiredTags
  PROVE  Tokens' = Tokens /\ Names' = Names /\ Characters' = Characters
BY DEF Tokens, Tags, Names, Characters

(* A step after which parsing goes on preserves the invariant when it keeps*)
(* the types, the stack and the fields.                                    *)
LEMMA StillReading ==
  ASSUME ParserTypes', (outcome = "reading")', Stacked(document, elements)', FieldsInv'
  PROVE  ParserInv'
BY DEF ParserInv, ParserCorrect

(* A step that throws DiscoveryError preserves the invariant when the page *)
(* read so far is one the reference definition refuses.                    *)
LEMMA Thrown ==
  ASSUME ParserTypes', (outcome = "DiscoveryError")', ~(Acceptable(document)')
  PROVE  ParserInv'
BY DEF ParserInv, ParserCorrect

(* Before the first token nothing is open, seen or collected.              *)
LEMMA ParserStart ==
  ASSUME ParserInit
  PROVE  ParserInv
<1>1. ParserTypes
  BY DEF ParserInit, ParserTypes
<1>2. DOMAIN document = {} /\ Len(document) = 0 /\ Len(elements) = 0
  BY DEF ParserInit
<1>3. Stacked(document, elements)
  <2>1. Depth(document, 0) = 0 /\ \A i \in 0 .. 0 : i = 0
    BY DepthStep
  <2>2. 1 .. 0 = {} /\ 0 >= 0
    OBVIOUS
  <2> QED BY <1>2, <2>1, <2>2, Zenon DEF Stacked, Paired
<1>4. ASSUME NEW tag \in kRequiredTags
      PROVE  Once(document, tag, seen) /\ Collected(document, tag, fields[tag])
  <2>1. Occurrences(document, tag) = {} /\ seen = {}
    BY <1>2, Zenon DEF Occurrences, ParserInit
  <2>2. Sofar(document, tag) = {}
    BY <1>2, Zenon DEF Sofar
  <2>3. TextSofar(document, tag) = {}
    BY <2>2, Zenon DEF TextSofar
  <2>4. Cardinality({}) = 0
    BY FS_EmptySet, Zenon
  <2>5. HasRanks({})
    BY <2>4 DEF HasRanks
  <2>6. InOrder(document, {}) = <<>>
    BY <2>4 DEF InOrder
  <2>7. fields[tag] = <<>>
    BY DEF ParserInit
  <2> QED BY <2>1, <2>2, <2>3, <2>5, <2>6, <2>7, Zenon DEF Once, Collected
<1>5. FieldsInv
  <2>1. 1 .. Len(elements) - 1 = {}
    BY <1>2
  <2> QED BY <1>4, <2>1, Zenon DEF FieldsInv
<1>6. outcome = "reading"
  BY DEF ParserInit
<1> QED BY <1>1, <1>3, <1>5, <1>6, SMTT(30) DEF ParserInv, ParserCorrect

(* A step that changes nothing keeps the invariant.                        *)
LEMMA ParserStutters ==
  ASSUME ParserInv, UNCHANGED parserVars
  PROVE  ParserInv'
<1>1. UNCHANGED <<kRequiredTags, document, elements, seen, fields, outcome, configuration>>
  BY DEF parserVars
<1>2. Tokens' = Tokens /\ Names' = Names /\ Characters' = Characters
  BY <1>1, SamePage
<1>3. ParserTypes'
  BY <1>1, <1>2, Zenon DEF ParserInv, ParserTypes
<1>4. Acceptable(document)' <=> Acceptable(document)
  BY <1>1, Zenon DEF Acceptable
<1>5. ParserCorrect'
  BY <1>1, <1>4, Zenon DEF ParserInv, ParserCorrect
<1>6. outcome' = "reading" => Stacked(document, elements)' /\ FieldsInv'
  BY <1>1, Zenon DEF ParserInv, FieldsInv
<1> QED BY <1>1, <1>3, <1>5, <1>6, Zenon DEF ParserInv

(* The end of a document: it is accepted if it is acceptable.              *)
LEMMA FinishStep ==
  ASSUME ParserInv, Finish, UNCHANGED kRequiredTags
  PROVE  ParserInv'
<1>1. /\ outcome = "reading" /\ ParserTypes /\ Stacked(document, elements) /\ FieldsInv
      /\ UNCHANGED <<kRequiredTags, document, elements, seen, fields>>
  BY DEF Finish, ParserInv
<1>2. ParserTypes'
  <2>1. Tokens' = Tokens /\ Names' = Names /\ Characters' = Characters
    BY SamePage
  <2> QED BY <1>1, <2>1, Zenon DEF ParserTypes
<1>3. Acceptable(document)' <=> Acceptable(document)
  BY <1>1, Zenon DEF Acceptable
<1>4. \A tag : FieldValue(tag) = Final(tag, seen, fields[tag])
  BY Zenon DEF FieldValue, Final
<1>5. Acceptable(document) <=>
        WellNested(document) /\ \A tag \in kRequiredTags : Usable(document, tag)
  BY Zenon DEF Acceptable, Usable
<1>6. ASSUME Balanced, NEW tag \in kRequiredTags
      PROVE  /\ Usable(document, tag) <=> FieldValue(tag) # Invalid
             /\ Usable(document, tag) => FieldValue(tag) = Meaning(document, tag)
  <2>1. tag \in {Optional} \cup Counts \cup Units
    BY <1>1, XmlConstants DEF XmlConstants, ParserTypes
  <2>2. /\ Stacked(document, <<>>) /\ Once(document, tag, seen)
        /\ Collected(document, tag, fields[tag])
    BY <1>1, <1>6, Zenon DEF Balanced, FieldsInv
  <2>3. document \in Seq(Tokens) /\ fields[tag] \in Seq(Characters)
    BY <1>1 DEF ParserTypes
  <2>4. /\ Usable(document, tag) <=> Final(tag, seen, fields[tag]) # Invalid
        /\ Usable(document, tag) => Final(tag, seen, fields[tag]) = Meaning(document, tag)
    BY <2>1, <2>2, <2>3, FinalIsMeaning, Zenon
  <2> QED BY <1>4, <2>4, Zenon
<1>7. Balanced <=> WellNested(document)
  <2>1. document \in Seq(Tokens) /\ elements \in Seq(Names)
    BY <1>1 DEF ParserTypes
  <2>2. CASE Balanced
    BY <1>1, <2>1, <2>2, Complete, Zenon DEF Balanced
  <2>3. CASE ~Balanced
    BY <1>1, <2>1, <2>3, Incomplete, Zenon DEF Balanced
  <2> QED BY <2>2, <2>3
<1>8. Acceptable(document) <=> Balanced /\ \A tag \in kRequiredTags : FieldValue(tag) # Invalid
  BY <1>5, <1>6, <1>7, Zenon
<1> DEFINE values == [tag \in kRequiredTags |-> FieldValue(tag)]
<1>9. \A tag \in kRequiredTags : values[tag] = FieldValue(tag)
  BY Zenon
<1>10. IF Balanced /\ \A tag \in kRequiredTags : values[tag] # Invalid
       THEN outcome' = "parsed" /\ configuration' = values
       ELSE outcome' = "DiscoveryError" /\ UNCHANGED configuration
  BY Zenon DEF Finish
<1> HIDE DEF values
<1>11. CASE Acceptable(document)
  <2>1. outcome' = "parsed" /\ configuration' = values
    BY <1>8, <1>9, <1>10, <1>11, Zenon
  <2>2. \A tag \in kRequiredTags : configuration'[tag] = Meaning(document, tag)
    BY <1>5, <1>6, <1>8, <1>9, <1>11, <2>1, Zenon
  <2>3. ParserCorrect'
    <3>1. outcome' # "DiscoveryError"
      BY <2>1
    <3> QED BY <1>1, <1>3, <1>11, <2>2, <3>1, Zenon DEF ParserCorrect
  <2> QED BY <1>2, <2>1, <2>3 DEF ParserInv
<1>12. CASE ~Acceptable(document)
  <2>1. outcome' = "DiscoveryError"
    BY <1>8, <1>9, <1>10, <1>12, Zenon
  <2> QED BY <1>2, <1>3, <1>12, <2>1, Thrown, Zenon
<1> QED BY <1>11, <1>12

(* What every turn of the loop starts from.                                *)
Turn(token) ==
  /\ ParserTypes /\ Stacked(document, elements) /\ FieldsInv
  /\ UNCHANGED kRequiredTags
  /\ document \in Seq(Tokens) /\ document' \in Seq(Tokens)
  /\ document' = Append(document, token)
  /\ OneMoreThan(document', document, token)
  /\ elements \in Seq(Names)
  /\ Tokens' = Tokens /\ Names' = Names /\ Characters' = Characters

(* What every branch of the parser loop starts from: the invariant, and a  *)
(* page that is longer by the token just read.                             *)
LEMMA ReadTurn ==
  ASSUME ParserInv, UNCHANGED kRequiredTags, NEW token \in Tokens, ReadToken(token)
  PROVE  Turn(token)
<1>1. outcome = "reading" /\ document' = Append(document, token)
  BY DEF ReadToken
<1>2. ParserTypes /\ Stacked(document, elements) /\ FieldsInv
  BY <1>1 DEF ParserInv
<1>3. document \in Seq(Tokens) /\ elements \in Seq(Names)
  BY <1>2 DEF ParserTypes
<1>4. document' \in Seq(Tokens)
  BY <1>1, <1>3
<1>5. OneMoreThan(document', document, token)
  BY <1>1, <1>3, OneMore, Zenon
<1> QED BY <1>1, <1>2, <1>3, <1>4, <1>5, SamePage, Zenon DEF Turn

(* A document that is not well nested, or has a field twice, is not        *)
(* acceptable.                                                             *)
LEMMA NotAcceptable ==
  ASSUME NEW token \in Tokens, Turn(token), Throw,
         \/ ~WellNested(document')
         \/ \E tag \in kRequiredTags : Cardinality(Occurrences(document', tag)) \notin {0, 1}
  PROVE  ParserInv'
<1>1. ~(Acceptable(document)')
  <2>1. CASE ~WellNested(document')
    BY <2>1 DEF Acceptable
  <2>2. CASE \E tag \in kRequiredTags : Cardinality(Occurrences(document', tag)) \notin {0, 1}
    <3>1. PICK tag \in kRequiredTags : Cardinality(Occurrences(document', tag)) \notin {0, 1}
      BY <2>2
    <3>2. tag \in kRequiredTags'
      BY DEF Turn
    <3>3. Cardinality(Occurrences(document', tag)) \notin (IF tag = Optional THEN {0, 1} ELSE {1})
      BY <3>1
    <3> QED BY <3>2, <3>3, Zenon DEF Acceptable
  <2> QED BY <2>1, <2>2, Zenon
<1>2. ParserTypes'
  BY Zenon DEF Turn, Throw, ParserTypes
<1>3. (outcome = "DiscoveryError")'
  BY DEF Throw
<1> QED BY <1>1, <1>2, <1>3, Thrown, Zenon

(* A token the scanner cannot read is refused, and rightly: the page is not*)
(* well nested.                                                            *)
LEMMA MalformedStep ==
  ASSUME NEW token \in Tokens, Turn(token), token.kind = "malformed", Throw
  PROVE  ParserInv'
<1>1. Len(document) + 1 \in DOMAIN document' /\ document'[Len(document) + 1] = token
  BY DEF Turn, OneMoreThan
<1>2. ~WellNested(document')
  BY <1>1, Zenon DEF WellNested
<1> QED BY <1>2, NotAcceptable, Zenon

(* Skipped markup changes nothing.                                         *)
LEMMA SkippedStep ==
  ASSUME NEW token \in Tokens, Turn(token), token.kind = "skipped", outcome = "reading",
         UNCHANGED <<elements, seen, fields, outcome>>
  PROVE  ParserInv'
<1>1. ParserTypes'
  BY Zenon DEF Turn, ParserTypes
<1>2. Stacked(document', elements)
  <2>1. token.kind \in {"text", "skipped", "empty"}
    OBVIOUS
  <2> QED BY <2>1, StackedText, Zenon DEF Turn
<1>3. ASSUME NEW tag \in kRequiredTags
      PROVE  Once(document', tag, seen) /\ Collected(document', tag, fields[tag])
  <2>1. Once(document, tag, seen) /\ Collected(document, tag, fields[tag])
    BY Zenon DEF Turn, FieldsInv
  <2>2. Once(document', tag, seen)
    <3>1. token.kind \notin {"open", "empty"}
      OBVIOUS
    <3> QED BY <2>1, <3>1, OnceMore, Zenon DEF Turn
  <2>3. fields[tag] \in Seq(Characters)
    BY DEF Turn, ParserTypes
  <2>4. Collected(document', tag, fields[tag])
    BY <2>1, <2>3, CollectedMore, Zenon DEF Turn
  <2> QED BY <2>2, <2>4
<1>4. FieldsInv'
  BY <1>3, Zenon DEF FieldsInv, Turn
<1> QED BY <1>1, <1>2, <1>4, StillReading, Zenon

(* Text is appended to the innermost element, if that is a field.          *)
LEMMA TextStep ==
  ASSUME NEW token \in Tokens, Turn(token), token.kind = "text", outcome = "reading",
         append_required_text(token.name), UNCHANGED <<elements, seen, outcome>>
  PROVE  ParserInv'
<1>0. token.name \in Characters
  BY TokenKinds, Zenon
<1>1. fields \in [kRequiredTags -> Seq(Characters)]
  BY Zenon DEF Turn, ParserTypes
<1>2. /\ fields' \in [kRequiredTags -> Seq(Characters)]
      /\ \A tag \in kRequiredTags :
           fields'[tag] = IF Innermost(elements, tag)
                          THEN Append(fields[tag], token.name) ELSE fields[tag]
  <2>1. CASE InRequired
    <3> DEFINE here == back(elements)
    <3>1. /\ here \in kRequiredTags /\ elements # <<>>
          /\ fields' = [fields EXCEPT ![here] = Append(fields[here], token.name)]
      BY <2>1, Zenon DEF InRequired, append_required_text
    <3> HIDE DEF here
    <3>2. fields[here] \in Seq(Characters) /\ Append(fields[here], token.name) \in Seq(Characters)
      BY <1>0, <1>1, <3>1, SMTT(30)
    <3>3. /\ fields' \in [kRequiredTags -> Seq(Characters)]
          /\ \A tag \in kRequiredTags :
               fields'[tag] = IF here = tag THEN Append(fields[tag], token.name) ELSE fields[tag]
      BY <1>1, <3>1, <3>2
    <3> QED BY <3>1, <3>3, Zenon DEF here, Innermost
  <2>2. CASE ~InRequired
    <3>1. fields' = fields
      BY <2>2, Zenon DEF append_required_text
    <3>2. \A tag \in kRequiredTags : ~Innermost(elements, tag)
      BY <2>2, Zenon DEF InRequired, Innermost
    <3> QED BY <1>1, <3>1, <3>2, Zenon
  <2> QED BY <2>1, <2>2
<1>3. ParserTypes'
  BY <1>2, Zenon DEF Turn, ParserTypes
<1>4. Stacked(document', elements)
  <2>1. token.kind \in {"text", "skipped", "empty"}
    OBVIOUS
  <2> QED BY <2>1, StackedText, Zenon DEF Turn
<1>5. ASSUME NEW tag \in kRequiredTags
      PROVE  Once(document', tag, seen) /\ Collected(document', tag, fields'[tag])
  <2>1. Once(document, tag, seen) /\ Collected(document, tag, fields[tag])
    BY Zenon DEF Turn, FieldsInv
  <2>2. Once(document', tag, seen)
    <3>1. token.kind \notin {"open", "empty"}
      OBVIOUS
    <3> QED BY <2>1, <3>1, OnceMore, Zenon DEF Turn
  <2>3. fields[tag] \in Seq(Characters)
    BY <1>1
  <2>4. Len(document) + 1 \in Sofar(document', tag) <=> Innermost(elements, tag)
    <3>1. token.kind # "open" /\ \A k \in 1 .. Len(elements) - 1 : elements[k] \notin kRequiredTags
      BY Zenon DEF Turn, FieldsInv
    <3>2. /\ document \in Seq(Tokens) /\ document' \in Seq(Tokens)
          /\ OneMoreThan(document', document, token) /\ elements \in Seq(Names)
      BY Zenon DEF Turn
    <3> QED BY <1>4, <3>1, <3>2, InTheInnermost, Zenon
  <2>5. /\ Len(document) + 1 \notin Sofar(document', tag) => Collected(document', tag, fields[tag])
        /\ Len(document) + 1 \in Sofar(document', tag)
             => Collected(document', tag, Append(fields[tag], token.name))
    BY <2>1, <2>3, CollectedMore, Zenon DEF Turn
  <2>6. Collected(document', tag, fields'[tag])
    BY <1>2, <2>4, <2>5, Zenon
  <2> QED BY <2>2, <2>6
<1>6. FieldsInv'
  BY <1>5, Zenon DEF FieldsInv, Turn
<1> QED BY <1>3, <1>4, <1>6, StillReading, Zenon

(* A closing tag closes the innermost element or is an error.              *)
LEMMA CloseStep ==
  ASSUME NEW token \in Tokens, Turn(token), token.kind = "close", outcome = "reading",
         CloseTag(token.name)
  PROVE  ParserInv'
<1>0. /\ document \in Seq(Tokens) /\ document' \in Seq(Tokens)
      /\ OneMoreThan(document', document, token) /\ elements \in Seq(Names)
      /\ Stacked(document, elements)
  BY Zenon DEF Turn
<1>1. /\ elements # <<>> /\ back(elements) = token.name => Stacked(document', pop_back(elements))
      /\ elements = <<>> \/ back(elements) # token.name => ~WellNested(document')
  BY <1>0, StackedClose, Zenon
<1>2. CASE elements = <<>> \/ back(elements) # token.name
  <2>1. Throw
    BY <1>2, Zenon DEF CloseTag
  <2> QED BY <1>1, <1>2, <2>1, NotAcceptable, Zenon
<1>3. CASE elements # <<>> /\ back(elements) = token.name
  <2>1. elements' = pop_back(elements) /\ UNCHANGED <<seen, fields, outcome>>
    BY <1>3, Zenon DEF CloseTag
  <2>2. /\ pop_back(elements) \in Seq(Names) /\ Len(pop_back(elements)) = Len(elements) - 1
        /\ \A k \in 1 .. Len(elements) - 1 : pop_back(elements)[k] = elements[k]
    <3>1. Len(elements) \in Nat /\ Len(elements) # 0
      BY <1>0, <1>3
    <3>2. pop_back(elements) = SubSeq(elements, 1, Len(elements) - 1)
      BY DEF pop_back
    <3> DEFINE m == Len(elements) - 1
    <3>3. m \in 0 .. Len(elements)
      BY <3>1
    <3> HIDE DEF m
    <3>4. SubSeq(elements, 1, m) = [i \in 1 .. m |-> elements[i]]
      BY <1>0, <3>1, <3>3, SMTT(30)
    <3>5. \A i \in 1 .. m : elements[i] \in Names
      BY <1>0, <3>1, <3>3
    <3>6. [i \in 1 .. m |-> elements[i]] \in Seq(Names) /\ Len([i \in 1 .. m |-> elements[i]]) = m
      BY <3>3, <3>5
    <3> QED BY <3>2, <3>4, <3>6, Zenon DEF m
  <2>3. \A k \in 1 .. Len(elements) - 1 : elements[k] \notin kRequiredTags
    BY Zenon DEF Turn, FieldsInv
  <2>4. ParserTypes'
    BY <2>1, <2>2, Zenon DEF Turn, ParserTypes
  <2>5. Stacked(document', pop_back(elements))
    BY <1>1, <1>3
  <2>6. ASSUME NEW tag \in kRequiredTags
        PROVE  Once(document', tag, seen) /\ Collected(document', tag, fields[tag])
    <3>1. Once(document, tag, seen) /\ Collected(document, tag, fields[tag])
      BY Zenon DEF Turn, FieldsInv
    <3>2. Once(document', tag, seen)
      <4>1. token.kind \notin {"open", "empty"}
        OBVIOUS
      <4> QED BY <3>1, <4>1, OnceMore, Zenon DEF Turn
    <3>3. fields[tag] \in Seq(Characters)
      BY DEF Turn, ParserTypes
    <3>4. Len(document) + 1 \notin Sofar(document', tag)
      <4>1. \A k \in 1 .. Len(pop_back(elements)) : pop_back(elements)[k] \notin kRequiredTags
        BY <2>2, <2>3, Zenon
      <4> QED BY <1>0, <2>2, <2>5, <4>1, OutOfFields, Zenon
    <3>5. Collected(document', tag, fields[tag])
      BY <3>1, <3>3, <3>4, CollectedMore, Zenon DEF Turn
    <3> QED BY <3>2, <3>5
  <2>7. FieldsInv'
    <3>1. \A k \in 1 .. Len(pop_back(elements)) - 1 : pop_back(elements)[k] \notin kRequiredTags
      <4>1. \A k \in 1 .. Len(pop_back(elements)) - 1 : k \in 1 .. Len(elements) - 1
        BY <1>0, <2>2
      <4> TAKE k \in 1 .. Len(pop_back(elements)) - 1
      <4>2. pop_back(elements)[k] = elements[k] /\ elements[k] \notin kRequiredTags
        BY <2>2, <2>3, <4>1, Zenon
      <4> QED BY <4>2, SMTT(30)
    <3> QED BY <2>1, <2>6, <3>1, Zenon DEF FieldsInv, Turn
  <2> QED BY <2>1, <2>4, <2>5, <2>7, StillReading, Zenon
<1> QED BY <1>2, <1>3

(* An opening tag in a field, or of a field that was seen, is an error.    *)
LEMMA OpenStep ==
  ASSUME NEW token \in Tokens, Turn(token), token.kind \in {"open", "empty"},
         outcome = "reading", OpenTag(token.kind, token.name)
  PROVE  ParserInv'
<1>0. /\ document \in Seq(Tokens) /\ document' \in Seq(Tokens)
      /\ OneMoreThan(document', document, token) /\ elements \in Seq(Names)
      /\ Stacked(document, elements) /\ token.name \in Names /\ Len(elements) \in Nat
  <2>1. token.name \in Names
    BY TokenKinds
  <2>2. elements \in Seq(Names)
    BY Zenon DEF Turn
  <2>3. Len(elements) \in Nat
    BY <2>2
  <2> QED BY <2>1, <2>3, Zenon DEF Turn
<1>1. CASE InRequired
  <2>1. Throw
    BY <1>1, Zenon DEF OpenTag
  <2>2. elements # <<>>
    BY <1>1, Zenon DEF InRequired
  <2>3. Len(elements) \in 1 .. Len(elements)
    <3>1. elements \in Seq(Names)
      BY <1>0, SMTT(30)
    <3> QED BY <2>2, <3>1, StackTop, Zenon
  <2>4. Depth(document', Len(document')) >= Len(elements)
    BY <1>0 DEF OneMoreThan, Nesting, Stacked
  <2>5. PICK p \in DOMAIN document' : Pending(document', p)
    BY <1>0, <2>3, <2>4, StillOpen, Zenon
  <2>6. ~WellNested(document')
    BY <1>0, <2>5, PendingUnmatched, Zenon
  <2> QED BY <2>1, <2>6, NotAcceptable, Zenon
<1>2. CASE token.name \in seen
  <2>1. Throw
    BY <1>2, Zenon DEF OpenTag
  <2>2. token.name \in kRequiredTags
    BY <1>2 DEF Turn, ParserTypes
  <2>3. Once(document, token.name, seen)
    BY <2>2, Zenon DEF Turn, FieldsInv
  <2>4. Cardinality(Occurrences(document', token.name)) \notin {0, 1}
    BY <1>0, <1>2, <2>2, <2>3, OnceMore, Zenon
  <2> QED BY <2>1, <2>2, <2>4, NotAcceptable, Zenon
<1>3. CASE ~InRequired /\ token.name \notin seen
  <2> DEFINE more == IF token.kind = "open" THEN Append(elements, token.name) ELSE elements
             met == seen \cup ({token.name} \cap kRequiredTags)
  <2>1. /\ elements' = more /\ seen' = met
        /\ UNCHANGED <<fields, outcome>>
    BY <1>3, Zenon DEF OpenTag
  <2>2. more \in Seq(Names)
    BY <1>0
  <2>3. \A k \in 1 .. Len(elements) : elements[k] \notin kRequiredTags
    <3> TAKE k \in 1 .. Len(elements)
    <3>1. CASE k = Len(elements)
      <4>1. elements # <<>>
        BY <3>1
      <4> QED BY <1>3, <3>1, <4>1, Zenon DEF InRequired, back
    <3>2. CASE k # Len(elements)
      <4>1. k \in 1 .. Len(elements) - 1
        BY <1>0, <3>2
      <4> QED BY <4>1, Zenon DEF Turn, FieldsInv
    <3> QED BY <3>1, <3>2
  <2>4. Stacked(document', more)
    <3>1. CASE token.kind = "open"
      <4>1. Stacked(document', Append(elements, token.name))
        BY <1>0, <3>1, StackedOpen, Zenon
      <4> QED BY <3>1, <4>1
    <3>2. CASE token.kind # "open"
      <4>1. token.kind \in {"text", "skipped", "empty"}
        BY <3>2
      <4>2. Stacked(document', elements)
        BY <1>0, <4>1, StackedText, Zenon
      <4> QED BY <3>2, <4>2
    <3> QED BY <3>1, <3>2
  <2>5. \A k \in 1 .. Len(more) - 1 : more[k] \notin kRequiredTags
    <3>1. \A k \in 1 .. Len(more) - 1 : k \in 1 .. Len(elements) /\ more[k] = elements[k]
      <4> TAKE k \in 1 .. Len(more) - 1
      <4>1. CASE token.kind = "open"
        <5>1. more = Append(elements, token.name)
          BY <4>1
        <5> HIDE DEF more
        <5>2. k \in 1 .. Len(Append(elements, token.name)) - 1
          BY <5>1
        <5>3. elements \in Seq(Names) /\ token.name \in Names
          BY <1>0, SMTT(30)
        <5>4. /\ k \in 1 .. Len(elements)
              /\ Append(elements, token.name)[k] = elements[k]
          BY <5>2, <5>3
        <5> QED BY <5>1, <5>4
      <4>2. CASE token.kind # "open"
        <5>1. more = elements /\ Len(elements) \in Nat
          BY <1>0, <4>2, SMTT(30)
        <5> HIDE DEF more
        <5> QED BY <5>1
      <4> QED BY <4>1, <4>2
    <3> QED BY <2>3, <3>1, Zenon
  <2>6. ASSUME NEW tag \in kRequiredTags
        PROVE  Once(document', tag, met) /\ Collected(document', tag, fields[tag])
    <3>1. Once(document, tag, seen) /\ Collected(document, tag, fields[tag])
      BY Zenon DEF Turn, FieldsInv
    <3>2. Once(document', tag, met)
      BY <1>0, <1>3, <3>1, OnceMore, Zenon
    <3>3. fields[tag] \in Seq(Characters)
      BY DEF Turn, ParserTypes
    <3>4. Len(document) + 1 \notin Sofar(document', tag)
      BY <1>0, <2>3, OutOfFields, Zenon
    <3>5. Collected(document', tag, fields[tag])
      BY <3>1, <3>3, <3>4, CollectedMore, Zenon DEF Turn
    <3> QED BY <3>2, <3>5
  <2>7. met \subseteq kRequiredTags
    BY DEF Turn, ParserTypes
  <2> HIDE DEF more, met
  <2>8. ParserTypes'
    BY <2>1, <2>2, <2>7, Zenon DEF Turn, ParserTypes
  <2>9. FieldsInv'
    BY <2>1, <2>5, <2>6, Zenon DEF FieldsInv, Turn
  <2> QED BY <2>1, <2>4, <2>8, <2>9, StillReading, Zenon
<1> QED BY <1>1, <1>2, <1>3

(* One turn of the loop.                                                   *)
LEMMA ReadStep ==
  ASSUME ParserInv, UNCHANGED kRequiredTags, NEW token \in Tokens, ReadToken(token)
  PROVE  ParserInv'
<1>1. Turn(token) /\ outcome = "reading"
  BY ReadTurn, Zenon DEF ReadToken
<1>2. token.kind \in {"open", "close", "empty", "text", "skipped", "malformed"}
  BY TokenKinds, Zenon
<1>3. CASE token.kind = "text"
  <2>1. append_required_text(token.name) /\ UNCHANGED <<elements, seen, outcome>>
    BY <1>3 DEF ReadToken
  <2> QED BY <1>1, <1>3, <2>1, TextStep, Zenon
<1>4. CASE token.kind = "skipped"
  <2>1. UNCHANGED <<elements, seen, fields, outcome>>
    BY <1>4 DEF ReadToken
  <2> QED BY <1>1, <1>4, <2>1, SkippedStep, Zenon
<1>5. CASE token.kind = "malformed"
  <2>1. Throw
    BY <1>5 DEF ReadToken
  <2> QED BY <1>1, <1>5, <2>1, MalformedStep, Zenon
<1>6. CASE token.kind = "close"
  <2>1. CloseTag(token.name)
    BY <1>6 DEF ReadToken
  <2> QED BY <1>1, <1>6, <2>1, CloseStep, Zenon
<1>7. CASE token.kind \in {"open", "empty"}
  <2>1. OpenTag(token.kind, token.name)
    BY <1>7 DEF ReadToken
  <2> QED BY <1>1, <1>7, <2>1, OpenStep, Zenon
<1> QED BY <1>2, <1>3, <1>4, <1>5, <1>6, <1>7, SMTT(30)

(* extract_required_fields() and parse_sensor_configuration() accept the   *)
(* documents that are acceptable and no others, and find in them what they *)
(* mean: for documents of any length.                                      *)
THEOREM ParserAcceptsMeaning == ParserSpec => []ParserCorrect
<1>1. ParserInit => ParserInv
  BY ParserStart
<1>2. ParserInv /\ [ParserNext]_parserVars => ParserInv'
  <2> SUFFICES ASSUME ParserInv, [ParserNext]_parserVars PROVE ParserInv'
    OBVIOUS
  <2>1. CASE UNCHANGED parserVars
    BY <2>1, ParserStutters
  <2>2. CASE Finish /\ UNCHANGED kRequiredTags
    BY <2>2, FinishStep
  <2>3. CASE \E token \in Tokens : ReadToken(token) /\ UNCHANGED kRequiredTags
    BY <2>3, ReadStep
  <2> QED BY <2>1, <2>2, <2>3, Zenon DEF ParserNext
<1>3. ParserInv => ParserCorrect
  BY DEF ParserInv
<1> QED BY <1>1, <1>2, <1>3, PTL DEF ParserSpec
=============================================================================
