------------------------------ MODULE UdpReceive ------------------------------
(***************************************************************************)
(* UdpTransport::receive() step by step, on both platforms                 *)
(* (core/src/detail/udp_transport_posix.cpp, udp_transport_windows.cpp),   *)
(* against the shutdown() of another thread.  The worker connects,         *)
(* receives and closes; receive() works on a descriptor it copied under    *)
(* the mutex and polls it without.                                         *)
(*                                                                         *)
(* Time is in ticks.  The code between two waits takes none, so the clock  *)
(* moves only while the worker is outside receive() or while a poll has    *)
(* nothing to report.  A poll is told to wait for whole milliseconds.  The *)
(* socket layer is external: per descriptor, what poll() would report and  *)
(* whether it was shut down.                                               *)
(***************************************************************************)
EXTENDS Naturals, FiniteSets, FiniteSetsExt

CONSTANTS
  Platforms,    \* "posix", "windows"
  Timeouts,     \* what receive() may be given: the caller passes what remains
  Millisecond,  \* in ticks
  IntMax,       \* numeric_limits<int>::max(), in milliseconds
  Slice,        \* kShutdownCheckIntervalMilliseconds, Windows only
  MaxSessions,  \* bound: calls of connect()
  MaxTime       \* bound: the clock

ASSUME ReceiveConstants ==
  /\ Platforms \subseteq {"posix", "windows"}
  /\ Timeouts \subseteq Nat \ {0} /\ Millisecond \in Nat \ {0}
  /\ IntMax \in Nat \ {0} /\ Slice \in Nat \ {0}
  /\ MaxSessions \in Nat /\ MaxTime \in Nat

VARIABLES
  platform,                       \* that the transport was built for
  socket_, shutdown_requested_,   \* the members
  pc, socket, deadline, wake,     \* receive(): position and locals
  outcome,                        \* what the last receive() gave
  open, pending, shut,            \* the socket layer
  now,                            \* steady_clock
  session,                        \* history: connect() calls that succeeded
  shutdown_at                     \* history: when shutdown was requested

members == <<socket_, shutdown_requested_>>
locals  == <<socket, deadline, wake>>
kernel  == <<open, pending, shut>>
history == <<session, shutdown_at>>
vars    == <<platform, members, pc, locals, outcome, kernel, now, history>>

kInvalidSocket == 0
Descriptors == 1 .. 2    \* a connect() may hold the old and the new one
Free == 0
Waits == {"none", "datagram", "error"}

Init ==
  /\ platform \in Platforms
  /\ socket_ = kInvalidSocket /\ shutdown_requested_ = FALSE
  /\ pc = "idle" /\ socket = kInvalidSocket /\ deadline = 0 /\ wake = 0
  /\ outcome = "none"
  /\ open = [d \in Descriptors |-> Free]
  /\ pending = [d \in Descriptors |-> "none"] /\ shut = {}
  /\ now = 0 /\ session = 0 /\ shutdown_at = 0

Release(d) ==
  /\ open' = [open EXCEPT ![d] = Free]
  /\ pending' = [pending EXCEPT ![d] = "none"]
  /\ shut' = shut \ {d}

-----------------------------------------------------------------------------
(* connect(), close() and shutdown()                                       *)

(* The new socket exists before the old one is closed.  Failing to resolve *)
(* or connect throws before the mutex is taken and changes nothing.        *)
Connect ==
  /\ pc = "idle" /\ session < MaxSessions
  /\ session' = session + 1
  /\ socket_' = Min({d \in Descriptors : open[d] = Free})
  /\ open' = [d \in Descriptors |-> IF d = socket_' THEN session'
                                    ELSE IF d = socket_ THEN Free ELSE open[d]]
  /\ pending' = [pending EXCEPT ![socket_'] = "none"]
  /\ shut' = shut \ {socket_, socket_'}
  /\ shutdown_requested_' = FALSE /\ shutdown_at' = 0
  /\ UNCHANGED <<pc, locals, outcome, now>>

RequestShutdown ==
  /\ shutdown_requested_' = TRUE
  /\ shutdown_at' = IF shutdown_requested_ THEN shutdown_at ELSE now

Close ==
  /\ pc = "idle"
  /\ RequestShutdown
  /\ \/ socket_ = kInvalidSocket /\ UNCHANGED <<socket_, kernel>>
     \/ socket_ # kInvalidSocket /\ Release(socket_) /\ socket_' = kInvalidSocket
  /\ UNCHANGED <<pc, locals, outcome, now, session>>

(* Mutant: the descriptor is closed at once.                               *)
ShutdownCloses ==
  /\ RequestShutdown
  /\ \/ socket_ = kInvalidSocket /\ UNCHANGED <<socket_, kernel>>
     \/ socket_ # kInvalidSocket /\ Release(socket_) /\ socket_' = kInvalidSocket
  /\ UNCHANGED <<pc, locals, outcome, now, session>>

(* The one operation another thread may call during a receive().           *)
Shutdown ==
  /\ RequestShutdown
  /\ shut' = shut \cup ({socket_} \ {kInvalidSocket})
  /\ UNCHANGED <<socket_, open, pending, pc, locals, outcome, now, session>>

-----------------------------------------------------------------------------
(* receive()                                                               *)

Return(result) ==
  /\ pc' = "idle"
  /\ outcome' = result
  /\ socket' = kInvalidSocket /\ deadline' = 0 /\ wake' = 0
  /\ UNCHANGED <<members, open, shut, now, history>>

Step(label) ==
  /\ pc' = label
  /\ UNCHANGED <<members, socket, deadline, outcome, kernel, now, history>>

(* Rounded up to milliseconds, and to what fits an int.                    *)
timeout_milliseconds(timeout) ==
  LET milliseconds == (timeout + Millisecond - 1) \div Millisecond
  IN  IF milliseconds >= IntMax THEN IntMax ELSE milliseconds

(* The first critical section, and the deadline.                           *)
Receive(timeout) ==
  /\ pc = "idle" /\ now + timeout + Millisecond <= MaxTime
  /\ \/ /\ socket_ = kInvalidSocket
        /\ Return("throw") /\ UNCHANGED pending
     \/ /\ socket_ # kInvalidSocket /\ shutdown_requested_
        /\ Return("empty") /\ UNCHANGED pending
     \/ /\ socket_ # kInvalidSocket /\ ~shutdown_requested_
        /\ socket' = socket_ /\ deadline' = now + timeout
        /\ pc' = "poll"
        /\ UNCHANGED <<members, wake, outcome, kernel, now, history>>

(* Mutants: a poll that was interrupted starts over with a full timeout;   *)
(* there are no slices.                                                    *)
PosixPollRestarts ==
  /\ pc = "poll"
  /\ \E timeout \in Timeouts : wake' = now + Millisecond * timeout_milliseconds(timeout)
  /\ Step("waiting")

WindowsPollUnsliced ==
  /\ pc = "poll"
  /\ \/ shutdown_requested_ /\ Return("empty") /\ UNCHANGED pending
     \/ /\ ~shutdown_requested_
        /\ wake' = now + Millisecond * timeout_milliseconds(deadline - now)
        /\ Step("waiting")

(* POSIX: one poll for what remains.  One that is cut to IntMax ends       *)
(* receive() before its deadline.                                          *)
PosixPoll ==
  /\ pc = "poll"
  /\ wake' = now + Millisecond * timeout_milliseconds(deadline - now)
  /\ Step("waiting")

(* Windows: WSAPoll need not notice a shutdown, so it waits in slices and  *)
(* looks at the flag between them.                                         *)
WindowsPoll ==
  /\ pc = "poll"
  /\ \/ shutdown_requested_ /\ Return("empty") /\ UNCHANGED pending
     \/ /\ ~shutdown_requested_
        /\ LET poll_timeout == Min({deadline - now, Slice * Millisecond})
           IN  wake' = now + Millisecond * Min({Slice, timeout_milliseconds(poll_timeout)})
        /\ Step("waiting")

(* What the poll must report; a shut down socket wakes poll() for certain  *)
(* and WSAPoll perhaps.                                                    *)
MayReport  == pending[socket] # "none" \/ socket \in shut
MustReport == pending[socket] # "none" \/ (socket \in shut /\ platform = "posix")

PollReports == pc = "waiting" /\ MayReport /\ Step("reported") /\ UNCHANGED wake

(* Nothing came; on Windows only the slice may be over.                    *)
PollTimesOut ==
  /\ pc = "waiting" /\ now >= wake /\ ~MustReport
  /\ \/ (platform = "posix" \/ now >= deadline) /\ Return("empty") /\ UNCHANGED pending
     \/ platform = "windows" /\ now < deadline /\ Step("poll") /\ UNCHANGED wake

(* EINTR, before there was anything to report: POSIX polls on for what     *)
(* remains, Windows returns nothing.                                       *)
PollInterrupted ==
  /\ pc = "waiting" /\ ~MustReport
  /\ \/ (platform = "windows" \/ now >= deadline) /\ Return("empty") /\ UNCHANGED pending
     \/ platform = "posix" /\ now < deadline /\ Step("poll") /\ UNCHANGED wake

PollFails == pc = "waiting" /\ Return("throw") /\ UNCHANGED pending

(* The second critical section.  Windows reports an error or a hang-up     *)
(* itself; POSIX leaves it to recv().                                      *)
Recheck ==
  /\ pc = "reported"
  /\ \/ shutdown_requested_ /\ Return("empty") /\ UNCHANGED pending
     \/ /\ ~shutdown_requested_ /\ platform = "windows" /\ pending[socket] = "error"
        /\ Return("throw") /\ pending' = [pending EXCEPT ![socket] = "none"]
     \/ /\ ~shutdown_requested_
        /\ platform = "posix" \/ pending[socket] # "error"
        /\ Step("recv") /\ UNCHANGED wake

(* recv(), not under the mutex.  A zero-length datagram, EINTR and, once   *)
(* the socket is shut down, an empty queue all give size 0; an error is    *)
(* thrown unless Windows finds the shutdown flag set when it looks again.  *)
Recv ==
  /\ pc = "recv"
  /\ \/ /\ pending[socket] = "datagram"
        /\ Return("datagram") \/ Return("empty")
        /\ pending' = [pending EXCEPT ![socket] = "none"]
     \/ /\ pending[socket] = "error"
        /\ Return(IF platform = "windows" /\ shutdown_requested_ THEN "empty" ELSE "throw")
        /\ pending' = [pending EXCEPT ![socket] = "none"]
     \/ Return("empty") /\ UNCHANGED pending

-----------------------------------------------------------------------------
(* The socket layer and the clock                                          *)

Arrive(what) ==
  /\ socket_ # kInvalidSocket /\ socket_ \notin shut /\ pending[socket_] = "none"
  /\ pending' = [pending EXCEPT ![socket_] = what]
  /\ UNCHANGED <<members, pc, locals, outcome, open, shut, now, history>>

Tick ==
  /\ now < MaxTime
  /\ pc = "idle" \/ (pc = "waiting" /\ now < wake /\ ~MustReport)
  /\ now' = now + 1
  /\ UNCHANGED <<members, pc, locals, outcome, kernel, history>>

ReceiveStep ==
  \/ platform = "posix" /\ PosixPoll
  \/ platform = "windows" /\ WindowsPoll
  \/ PollReports \/ PollTimesOut \/ Recheck \/ Recv

Next ==
  /\ \/ Connect \/ Close \/ Shutdown
     \/ (\E timeout \in Timeouts : Receive(timeout))
     \/ ReceiveStep \/ PollInterrupted \/ PollFails
     \/ \E what \in {"datagram", "error"} : Arrive(what)
     \/ Tick
  /\ UNCHANGED platform

Spec == Init /\ [][Next]_vars

-----------------------------------------------------------------------------
(* Properties                                                              *)

(* The descriptor receive() copied and uses without the mutex (lines 109   *)
(* to 144) is, until it returns, the open socket of the current session:   *)
(* what another thread may do meanwhile, shutdown(), never frees it, so    *)
(* poll() and recv() cannot hit a number the process has reused.           *)
OwnDescriptor ==
  pc # "idle" => socket = socket_ /\ open[socket] = session

(* However often its polls are interrupted or sliced, receive() waits past *)
(* the deadline it computed on entry by the rounding of its last poll at   *)
(* most, which is less than a millisecond.                                 *)
DeadlineKept == pc # "idle" => now < deadline + Millisecond

(* receive() does not outlive a shutdown() from another thread: on POSIX   *)
(* the shut down socket ends the poll at once, on Windows it is noticed    *)
(* within one slice, whatever the timeout.                                 *)
PromptShutdown ==
  pc # "idle" /\ shutdown_requested_
    => now - shutdown_at <= IF platform = "posix" THEN 0 ELSE Slice * Millisecond

=============================================================================
