---------------------------- MODULE UdpTransport ----------------------------
(***************************************************************************)
(* The UDP endpoint that the client core owns (core/src/detail/            *)
(* udp_transport_posix.cpp and its Windows twin).  Every operation takes   *)
(* the transport's own mutex, so each is one step; receive() is the        *)
(* exception: it drops the mutex while it polls, and is split here into    *)
(* the region before the poll and the wake-up after it.                    *)
(*                                                                         *)
(* Payloads and addresses are left out: the client only distinguishes a    *)
(* datagram, an empty result and an exception.                             *)
(***************************************************************************)

VARIABLES
  socket_,              \* TRUE when socket_ holds a valid descriptor
  shutdown_requested_   \* receive() returns empty while this is set

transportVars == <<socket_, shutdown_requested_>>

TransportInit ==
  /\ socket_ = FALSE
  /\ shutdown_requested_ = FALSE

(* connect(): a fresh socket replaces the old one and clears a shutdown.   *)
TransportConnect ==
  /\ socket_' = TRUE
  /\ shutdown_requested_' = FALSE

(* send() throws without a socket; with one the system call may fail.      *)
CanSend(ok) == ok => socket_

(* receive(), first critical section: what the caller gets before polling. *)
ReceiveEntry ==
  CASE ~socket_                          -> "throw"
    [] socket_ /\ shutdown_requested_    -> "empty"
    [] socket_ /\ ~shutdown_requested_   -> "poll"

(* receive(), after poll(): a datagram is read only if no shutdown was     *)
(* requested meanwhile; timeout, shutdown, EINTR and a zero-length         *)
(* datagram all give size 0; poll() and recv() may fail.                   *)
ReceiveResults ==
  {"empty", "throw"} \cup IF shutdown_requested_ THEN {} ELSE {"datagram"}

(* Mutant: the flag is forgotten.                                          *)
TransportShutdownForgotten == UNCHANGED transportVars

TransportShutdown ==
  /\ shutdown_requested_' = TRUE
  /\ UNCHANGED socket_

TransportClose ==
  /\ shutdown_requested_' = TRUE
  /\ socket_' = FALSE
=============================================================================
