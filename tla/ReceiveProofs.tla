---------------------------- MODULE ReceiveProofs ----------------------------
(***************************************************************************)
(* Proofs about UdpReceive, for every set of timeouts, tick, slice, int,   *)
(* number of sessions and length of the clock, on both platforms: what     *)
(* receive() does without the mutex is done to its own descriptor, in      *)
(* time, and ends promptly when shutdown() is called.                      *)
(***************************************************************************)
EXTENDS UdpReceive, TLAPS

(* The variables that the argument computes with.                          *)
ReceiveTypes ==
  /\ platform \in {"posix", "windows"}
  /\ pc \in {"idle", "poll", "waiting", "reported", "recv"}
  /\ socket_ \in Descriptors \cup {kInvalidSocket}
  /\ open \in [Descriptors -> Nat]
  /\ session \in Nat /\ now \in Nat /\ deadline \in Nat /\ wake \in Nat
  /\ shutdown_at \in Nat

(* The transport has at most one descriptor open, that of the last         *)
(* connect(), and a receive() in progress works on it.                     *)
DescriptorInv ==
  /\ socket_ # kInvalidSocket => open[socket_] = session
  /\ \A d \in Descriptors : d # socket_ => open[d] = Free
  /\ pc # "idle" => socket = socket_ /\ socket_ # kInvalidSocket

(* A poll begins before the deadline.  It is never told to wait past it by *)
(* a millisecond, nor on Windows for more than a slice.                    *)
WakeInv ==
  /\ pc # "idle" => now < deadline + Millisecond
  /\ pc = "poll" => now < deadline
  /\ pc = "waiting" => wake < deadline + Millisecond
  /\ pc = "waiting" /\ platform = "windows" => wake <= now + Slice * Millisecond

(* A shutdown marks the open socket, and what a poll still waits is        *)
(* counted from then.                                                      *)
ShutdownInv ==
  /\ shutdown_requested_ => shutdown_at <= now
  /\ shutdown_requested_ /\ socket_ # kInvalidSocket => socket_ \in shut
  /\ pc = "waiting" /\ shutdown_requested_ /\ platform = "windows"
       => wake <= shutdown_at + Slice * Millisecond
  /\ PromptShutdown

ReceiveInv == ReceiveTypes /\ DescriptorInv /\ WakeInv /\ ShutdownInv

(* The smaller of two numbers is one of them and exceeds neither.          *)
LEMMA MinOfTwo ==
  ASSUME NEW a \in Nat, NEW b \in Nat
  PROVE  /\ Min({a, b}) \in Nat
         /\ Min({a, b}) <= a /\ Min({a, b}) <= b
<1>1. \E x \in {a, b} : \A y \in {a, b} : x <= y
  <2>1. CASE a <= b
    BY <2>1
  <2>2. CASE b <= a
    BY <2>2
  <2> QED BY <2>1, <2>2
<1>2. Min({a, b}) \in {a, b} /\ \A y \in {a, b} : Min({a, b}) <= y
  BY <1>1, Zenon DEF Min
<1> QED BY <1>2

(* Longer counts of milliseconds are longer waits.                         *)
LEMMA ProductMonotone ==
  ASSUME NEW m \in Nat, NEW a \in Nat, NEW b \in Nat, a <= b
  PROVE  m * a \in Nat /\ m * b \in Nat /\ m * a <= m * b
OBVIOUS

(* timeout_milliseconds() rounds up by less than a millisecond.            *)
LEMMA RoundedUp ==
  ASSUME NEW timeout \in Nat
  PROVE  /\ timeout_milliseconds(timeout) \in Nat
         /\ Millisecond * timeout_milliseconds(timeout) \in Nat
         /\ Millisecond * timeout_milliseconds(timeout) < timeout + Millisecond
<1> DEFINE raised == timeout + Millisecond - 1
           count == raised \div Millisecond
<1>1. /\ Millisecond \in Nat /\ Millisecond > 0 /\ IntMax \in Nat
      /\ raised \in Nat /\ raised < timeout + Millisecond
  BY ReceiveConstants
<1>2. timeout_milliseconds(timeout) = IF count >= IntMax THEN IntMax ELSE count
  BY DEF timeout_milliseconds
<1> HIDE DEF raised
<1>3. count \in Nat /\ Millisecond * count <= raised
  BY <1>1
<1> HIDE DEF count
<1>4. timeout_milliseconds(timeout) \in Nat /\ timeout_milliseconds(timeout) <= count
  BY <1>1, <1>2, <1>3
<1>5. /\ Millisecond * timeout_milliseconds(timeout) \in Nat
      /\ Millisecond * timeout_milliseconds(timeout) <= Millisecond * count
      /\ Millisecond * count \in Nat
  BY <1>1, <1>3, <1>4, ProductMonotone
<1> QED BY <1>1, <1>3, <1>4, <1>5

(* connect() finds a free descriptor, since at most one is open.           *)
LEMMA NewDescriptor ==
  ASSUME ReceiveInv
  PROVE  LET d == Min({x \in Descriptors : open[x] = Free})
         IN  d \in Descriptors /\ open[d] = Free
<1> DEFINE S == {x \in Descriptors : open[x] = Free}
<1>1. 1 \in S \/ 2 \in S
  BY DEF ReceiveInv, DescriptorInv, Descriptors
<1>2. \E x \in S : \A y \in S : x <= y
  <2>1. \A y \in S : y \in {1, 2}
    BY DEF Descriptors
  <2>2. CASE 1 \in S
    BY <2>1, <2>2
  <2>3. CASE 1 \notin S
    BY <1>1, <2>1, <2>3
  <2> QED BY <2>2, <2>3
<1>3. Min(S) \in S
  BY <1>2, Zenon DEF Min
<1> QED BY <1>3

(* Every step of the transport, the socket layer and the clock keeps the   *)
(* invariant.                                                              *)
LEMMA ReceiveStepInv == ReceiveInv /\ [Next]_vars => ReceiveInv'
<1> SUFFICES ASSUME ReceiveInv, [Next]_vars PROVE ReceiveInv'
  OBVIOUS
<1> USE ReceiveConstants DEF ReceiveInv, ReceiveTypes, DescriptorInv, WakeInv, ShutdownInv,
        PromptShutdown, members, locals, kernel, history, kInvalidSocket
<1>1. CASE Connect /\ UNCHANGED platform
  <2>1. socket_' \in Descriptors /\ session' = session + 1 /\ pc' = "idle"
    BY <1>1, NewDescriptor DEF Connect
  <2>2. /\ open' \in [Descriptors -> Nat]
        /\ open'[socket_'] = session'
        /\ \A d \in Descriptors : d # socket_' => open'[d] = Free
    BY <1>1, <2>1 DEF Connect, Free
  <2>3. ~shutdown_requested_'
    BY <1>1 DEF Connect
  <2> QED BY <1>1, <2>1, <2>2, <2>3 DEF Connect
<1>2. CASE Close /\ UNCHANGED platform
  BY <1>2 DEF Close, RequestShutdown, Release, Descriptors, Free
<1>3. CASE Shutdown /\ UNCHANGED platform
  BY <1>3 DEF Shutdown, RequestShutdown
<1>4. ASSUME NEW timeout \in Timeouts, Receive(timeout), UNCHANGED platform
      PROVE  ReceiveInv'
  BY <1>4 DEF Receive, Return
<1>5. CASE PosixPoll /\ platform = "posix" /\ UNCHANGED platform
  <2> DEFINE rounded == Millisecond * timeout_milliseconds(deadline - now)
  <2>1. deadline - now \in Nat
    BY <1>5 DEF PosixPoll
  <2>2. rounded \in Nat /\ rounded < deadline - now + Millisecond
    BY <2>1, RoundedUp
  <2>3. wake' = now + rounded
    BY <1>5 DEF PosixPoll
  <2> HIDE DEF rounded
  <2> QED BY <1>5, <2>2, <2>3 DEF PosixPoll, Step
<1>6. CASE WindowsPoll /\ platform = "windows" /\ UNCHANGED platform
  <2>1. CASE shutdown_requested_
    BY <1>6, <2>1 DEF WindowsPoll, Return
  <2>2. CASE ~shutdown_requested_
    <3> DEFINE poll_timeout == Min({deadline - now, Slice * Millisecond})
               rounded == timeout_milliseconds(poll_timeout)
               waited == Millisecond * Min({Slice, rounded})
    <3>1. deadline - now \in Nat /\ Slice * Millisecond \in Nat
      BY <1>6 DEF WindowsPoll
    <3>2. poll_timeout \in Nat /\ poll_timeout <= deadline - now
      BY <3>1, MinOfTwo
    <3>3. /\ rounded \in Nat /\ Millisecond * rounded \in Nat
          /\ Millisecond * rounded < poll_timeout + Millisecond
      BY <3>2, RoundedUp
    <3>4. wake' = now + waited /\ Step("waiting")
      BY <1>6, <2>2 DEF WindowsPoll
    <3> HIDE DEF poll_timeout, rounded
    <3>5. Min({Slice, rounded}) \in Nat /\ Min({Slice, rounded}) <= Slice
          /\ Min({Slice, rounded}) <= rounded
      BY <3>3, MinOfTwo
    <3>6. /\ waited \in Nat /\ waited <= Millisecond * rounded
          /\ waited <= Millisecond * Slice
      BY <3>3, <3>5, ProductMonotone
    <3> HIDE DEF waited
    <3>7. Millisecond * Slice = Slice * Millisecond
      OBVIOUS
    <3>8. wake' \in Nat /\ wake' < deadline + Millisecond /\ wake' <= now + Slice * Millisecond
      BY <3>1, <3>2, <3>3, <3>4, <3>6, <3>7
    <3> QED BY <1>6, <2>2, <3>4, <3>8 DEF WindowsPoll, Step
  <2> QED BY <2>1, <2>2
<1>7. CASE PollReports /\ UNCHANGED platform
  BY <1>7 DEF PollReports, Step
<1>8. CASE (PollTimesOut \/ PollInterrupted \/ PollFails) /\ UNCHANGED platform
  BY <1>8 DEF PollTimesOut, PollInterrupted, PollFails, Step, Return
<1>9. CASE Recheck /\ UNCHANGED platform
  BY <1>9 DEF Recheck, Step, Return
<1>10. CASE Recv /\ UNCHANGED platform
  BY <1>10 DEF Recv, Return
<1>11. ASSUME NEW what \in {"datagram", "error"}, Arrive(what), UNCHANGED platform
       PROVE  ReceiveInv'
  BY <1>11 DEF Arrive
<1>12. CASE Tick /\ UNCHANGED platform
  BY <1>12 DEF Tick, MustReport
<1>13. CASE UNCHANGED vars
  BY <1>13 DEF vars
<1> QED
  BY <1>1, <1>2, <1>3, <1>4, <1>5, <1>6, <1>7, <1>8, <1>9, <1>10, <1>11, <1>12, <1>13, Zenon
     DEF Next, ReceiveStep

(* The invariant of receive() holds in every reachable state.              *)
THEOREM ReceiveInvariant == Spec => []ReceiveInv
<1>1. Init => ReceiveInv
  BY ReceiveConstants DEF Init, ReceiveInv, ReceiveTypes, DescriptorInv, WakeInv,
     ShutdownInv, PromptShutdown, kInvalidSocket, Free, Descriptors
<1> QED BY <1>1, ReceiveStepInv, PTL DEF Spec

(* poll() and recv(), called without the mutex, always act on the open     *)
(* socket of the current session, never on a descriptor number that was    *)
(* closed or reused (udp_transport_posix.cpp:109-144).                     *)
THEOREM ReceiveOwnsDescriptor == Spec => []OwnDescriptor
<1>1. ReceiveInv => OwnDescriptor
  BY DEF ReceiveInv, DescriptorInv, OwnDescriptor
<1> QED BY <1>1, ReceiveInvariant, PTL

(* No number of interrupts or slices makes receive() wait past the         *)
(* deadline it computed on entry by as much as a millisecond: only the     *)
(* rounding of its last poll does.                                         *)
THEOREM ReceiveKeepsDeadline == Spec => []DeadlineKept
<1>1. ReceiveInv => DeadlineKept
  BY DEF ReceiveInv, WakeInv, DeadlineKept
<1> QED BY <1>1, ReceiveInvariant, PTL

(* shutdown() ends a receive() at once on POSIX and within one slice on    *)
(* Windows, for every timeout.                                             *)
THEOREM ReceiveEndsPromptly == Spec => []PromptShutdown
<1>1. ReceiveInv => PromptShutdown
  BY DEF ReceiveInv, ShutdownInv
<1> QED BY <1>1, ReceiveInvariant, PTL
=============================================================================
