---------------------------- MODULE RecordHandling ----------------------------
(***************************************************************************)
(* What the core's worker does with the datagrams of a sensor              *)
(* (core/src/detail/client_impl.cpp): sessions, configuration revisions,   *)
(* classification and delivery of records, and the counters of health().   *)
(* Only the worker and bias() touch this state, in sections of             *)
(* record_mutex_: a datagram is classified in one, its sample is counted   *)
(* in another once the callback has returned, and bias() may come between. *)
(*                                                                         *)
(* The sensor and the network are the environment.  A record has its true  *)
(* position in the stream and the true count of its acquisition; the       *)
(* client only sees both modulo 2^w.  Of the last Window records sent, any *)
(* may arrive at any time, again, or never.                                *)
(***************************************************************************)
EXTENDS SequenceTrackers, Sequences, Functions

CONSTANTS
  Threshold,       \* kMalformedStormThreshold
  Window,          \* how late a record may arrive
  MaxAdvance,      \* acquisitions from one record to the next, at most
  Scenarios        \* each bounds what the environment may do

(* A ClientConfig, where the numbers of a stream may begin, the results of *)
(* classify_status and the calibrations that occur, how many acquisitions  *)
(* pass from one record to the next and between sessions, and how often    *)
(* things happen.                                                          *)
Scenario(s) ==
  /\ s.recovery_policy \in {"Reconnect", "FailStop"}
  /\ s.deliver_samples_with_error_status \in BOOLEAN
  /\ s.sample_rate_limit_hz \in BOOLEAN
  /\ s.first_numbers \subseteq Word
  /\ s.statuses \subseteq {"Ok", "Error"}
  /\ s.advances \subseteq 0 .. MaxAdvance /\ s.pauses \subseteq Nat
  /\ s.bounds \in [{"sent", "received", "malformed", "sessions", "biases", "reboots",
                    "pauses"} -> Nat]

ASSUME EnvironmentBounds ==
  /\ Threshold \in Nat \ {0}
  /\ Window \in Nat \ {0} /\ MaxAdvance \in Nat \ {0} /\ MaxAdvance * Window < Half
  /\ \A s \in Scenarios : Scenario(s)

VARIABLES
  scenario,
  phase,                   \* where the worker is: "stopped", "connecting", "started"
                           \* (no record yet), "streaming", "backoff", "faulted"
  pending,                 \* the sample in the callback, or NoSample
  rdt_sequence_, ft_sequence_,
  consecutive_malformed_,
  last_delivery_at_,       \* whether it is set
  health_,                 \* the counters that the properties are about
  sensor_configuration,
  sensor,                  \* environment: position, acquisition count, boot count
  net,                     \* environment: the last Window records sent
  requests,                \* environment: StartRealtime on the way by bias()
  seen,                    \* history: the last record in order
  skipped,                 \* history: records passed over so far
  mixed,                   \* history: a record from before bias() came after it
  last_acquisition,        \* history: of the last sample, 0 after an FT restart
  scaled,                  \* history: <<revision, calibration>> pairs used
  left                     \* what the bounds still allow

recovery_policy == scenario.recovery_policy
deliver_samples_with_error_status == scenario.deliver_samples_with_error_status
sample_rate_limit_hz == scenario.sample_rate_limit_hz    \* whether it is above zero

trackerVars == <<rdt_sequence_, ft_sequence_, seen, skipped, mixed>>
sampleVars  == <<pending, last_delivery_at_, last_acquisition, scaled>>
sensorVars  == <<sensor, net, requests>>
vars == <<scenario, phase, trackerVars, sampleVars, consecutive_malformed_, health_,
          sensor_configuration, sensorVars, left>>

InSession == phase \in {"started", "streaming"}

Counters == {"received", "delivered", "rate_limited", "device_error", "lost",
             "duplicate", "out_of_order", "callback_error", "ft_stall",
             "ft_backward", "calibration_change"}

NoSample == [outcome |-> "none"]
NoConfiguration == [calibration |-> "none", revision |-> 0]

Spend(what) == left[what] > 0 /\ left' = [left EXCEPT ![what] = @ - 1]

Init ==
  /\ scenario \in Scenarios
  /\ phase = "stopped" /\ pending = NoSample
  /\ rdt_sequence_ = RdtNew /\ ft_sequence_ = FtNew
  /\ consecutive_malformed_ = 0 /\ last_delivery_at_ = FALSE
  /\ health_ = [c \in Counters |-> 0]
  /\ sensor_configuration = NoConfiguration
  /\ \E n \in scenario.first_numbers :
       sensor = [position |-> n, stream |-> 0, acquisition |-> n + 1, booted_at |-> 1]
  /\ net = <<>> /\ requests = 0
  /\ seen = [stream |-> 0, position |-> 0] /\ skipped = 0 /\ mixed = FALSE
  /\ last_acquisition = 0 /\ scaled = {}
  /\ left = scenario.bounds

-----------------------------------------------------------------------------
(* The sensor                                                              *)

(* A record is sent, its acquisition that of the last one or up to         *)
(* MaxAdvance later: the sensor may acquire faster or slower than it       *)
(* sends.  The client is never half the number space behind: at the        *)
(* sensor's 7 kHz that would take days without a receive timeout.          *)
SensorSends ==
  /\ InSession
  /\ Spend("sent")
  /\ rdt_sequence_.has_last /\ seen.stream = sensor.stream =>
       sensor.position + 1 < seen.position + Half
  /\ \E advance \in scenario.advances, status \in scenario.statuses :
       /\ sensor' = [sensor EXCEPT !.position = @ + 1, !.acquisition = @ + advance]
       /\ net' = LET record == [stream |-> sensor.stream,
                                position |-> sensor'.position,
                                acquisition |-> sensor'.acquisition,
                                ft |-> sensor'.acquisition - sensor.booted_at,
                                status |-> status]
                     sent == Append(net, record)
                 IN IF Len(sent) > Window THEN Tail(sent) ELSE sent
  /\ UNCHANGED <<scenario, phase, trackerVars, sampleVars, consecutive_malformed_,
                 health_, sensor_configuration, requests>>

(* Nothing is sent between sessions, and the sensor goes on acquiring, for *)
(* any length of time.                                                     *)
SensorAcquires ==
  /\ ~InSession
  /\ Spend("pauses")
  /\ \E pause \in scenario.pauses : sensor' = [sensor EXCEPT !.acquisition = @ + pause]
  /\ UNCHANGED <<scenario, phase, trackerVars, sampleVars, consecutive_malformed_,
                 health_, sensor_configuration, net, requests>>

(* The sensor restarts and counts its acquisitions from zero again.        *)
SensorReboots ==
  /\ ~InSession
  /\ Spend("reboots")
  /\ sensor' = [sensor EXCEPT !.acquisition = @ + 1, !.booted_at = sensor.acquisition + 1]
  /\ UNCHANGED <<scenario, phase, trackerVars, sampleVars, consecutive_malformed_,
                 health_, sensor_configuration, net, requests>>

(* StartRealtime begins the numbers again, or they go on: src/ does not    *)
(* say, and its fake sensor goes on.                                       *)
StreamBegins ==
  \/ \E n \in scenario.first_numbers :
       sensor' = [sensor EXCEPT !.position = n, !.stream = @ + 1]
  \/ UNCHANGED sensor

(* The StartRealtime of bias() reaches the sensor, sooner, later or never. *)
SensorRestartsStream ==
  /\ InSession /\ requests > 0
  /\ requests' = requests - 1
  /\ StreamBegins
  /\ UNCHANGED <<scenario, phase, trackerVars, sampleVars, consecutive_malformed_,
                 health_, sensor_configuration, net, left>>

-----------------------------------------------------------------------------
(* Runs and sessions                                                       *)

(* start(), lines 142 and 176: the trackers, the counters and the          *)
(* configuration are those of the last run.                                *)
Start ==
  /\ phase \in {"stopped", "faulted"} /\ left.sessions > 0
  /\ phase' = "connecting"
  /\ last_delivery_at_' = FALSE
  /\ consecutive_malformed_' = 0
  /\ UNCHANGED <<scenario, trackerVars, pending, last_acquisition, scaled, health_,
                 sensor_configuration, sensorVars, left>>

(* close_session(): what is on its way goes to a socket that is gone.      *)
SocketCloses == net' = <<>> /\ requests' = 0

(* stop(), seen by the worker at its next check of stopping_.              *)
Stop ==
  /\ phase \notin {"stopped", "faulted"} /\ pending = NoSample
  /\ phase' = "stopped"
  /\ SocketCloses
  /\ UNCHANGED <<scenario, trackerVars, sampleVars, consecutive_malformed_, health_,
                 sensor_configuration, sensor, left>>

(* Lines 387-409, for a session that failed.                               *)
SessionFails ==
  /\ phase' = IF recovery_policy = "FailStop" THEN "faulted" ELSE "backoff"
  /\ SocketCloses

(* Mutant: a changed calibration keeps its revision.                       *)
KeepRevision(calibration) ==
  /\ sensor_configuration' =
       [calibration |-> calibration,
        revision |-> IF sensor_configuration = NoConfiguration THEN 1
                     ELSE sensor_configuration.revision]
  /\ UNCHANGED health_

ApplyConfiguration(calibration) ==
  \/ /\ sensor_configuration = NoConfiguration
     /\ sensor_configuration' = [calibration |-> calibration, revision |-> 1]
     /\ UNCHANGED health_
  \/ /\ sensor_configuration.calibration = calibration
     /\ UNCHANGED <<sensor_configuration, health_>>
  \/ /\ sensor_configuration # NoConfiguration
     /\ sensor_configuration.calibration # calibration
     /\ sensor_configuration' = [calibration |-> calibration,
                                 revision |-> sensor_configuration.revision + 1]
     /\ health_' = [health_ EXCEPT !.calibration_change = @ + 1]

(* Lines 440-466.  The new socket gets nothing of the last session.        *)
BeginSession ==
  /\ phase = "connecting"
  /\ Spend("sessions")
  /\ \E calibration \in scenario.calibrations : ApplyConfiguration(calibration)
  /\ StreamBegins
  /\ UNCHANGED <<net, requests>>
  /\ rdt_sequence_' = RdtReset(rdt_sequence_)
  /\ ft_sequence_' = FtBeginSession(ft_sequence_)
  /\ phase' = "started"
  /\ UNCHANGED <<scenario, seen, skipped, mixed, sampleVars, consecutive_malformed_>>

(* Lines 442-460: no configuration, or no connection.                      *)
ConnectFails ==
  /\ phase = "connecting"
  /\ Spend("sessions")
  /\ SessionFails
  /\ \/ UNCHANGED <<sensor_configuration, health_>>
     \/ \E calibration \in scenario.calibrations : ApplyConfiguration(calibration)
  /\ UNCHANGED <<scenario, trackerVars, sampleVars, consecutive_malformed_, sensor>>

(* Lines 411-416.                                                          *)
Backoff ==
  /\ phase = "backoff" /\ left.sessions > 0
  /\ phase' = "connecting"
  /\ UNCHANGED <<scenario, trackerVars, sampleVars, consecutive_malformed_, health_,
                 sensor_configuration, sensorVars, left>>

(* Lines 473-499: nothing arrived in time, or the socket failed.           *)
ReceiveFails ==
  /\ InSession /\ pending = NoSample
  /\ SessionFails
  /\ UNCHANGED <<scenario, trackerVars, sampleVars, consecutive_malformed_, health_,
                 sensor_configuration, sensor, left>>

(* Lines 501-511.  The count goes on from one session to the next.         *)
ReceiveMalformed ==
  /\ InSession /\ pending = NoSample
  /\ Spend("malformed")
  /\ consecutive_malformed_' = consecutive_malformed_ + 1
  /\ \/ consecutive_malformed_' >= Threshold /\ SessionFails
     \/ consecutive_malformed_' < Threshold /\ UNCHANGED <<phase, net, requests>>
  /\ UNCHANGED <<scenario, trackerVars, sampleVars, health_, sensor_configuration, sensor>>

(* Mutant: bias() does not reset the tracker.                              *)
BiasKeepsSequence ==
  /\ phase = "streaming"
  /\ Spend("biases")
  /\ requests' = requests + 1
  /\ UNCHANGED <<scenario, phase, trackerVars, sampleVars, consecutive_malformed_,
                 health_, sensor_configuration, sensor, net>>

(* bias().  A send that fails leaves everything as it was.                 *)
Bias ==
  /\ phase = "streaming"
  /\ Spend("biases")
  /\ requests' = requests + 1
  /\ rdt_sequence_' = RdtReset(rdt_sequence_)
  /\ UNCHANGED <<scenario, phase, ft_sequence_, seen, skipped, mixed, sampleVars,
                 consecutive_malformed_, health_, sensor_configuration, sensor, net>>

-----------------------------------------------------------------------------
(* Records                                                                 *)

RdtKindOf(record) == RdtKind(rdt_sequence_, record.position % Modulus)
FtKindOf(record)  == FtKind(ft_sequence_, record.ft % Modulus)

InOrder(record)         == RdtKindOf(record) \notin {"Duplicate", "OutOfOrder"}
FtDiscontinuity(record) == FtKindOf(record) \in {"Stall", "Backward"}

(* Mutant: a stalled or backward FT sequence does not stop delivery.       *)
DeliverIgnoresFt(record) ==
  InOrder(record) /\ (record.status = "Error" => deliver_samples_with_error_status)

(* deliver, before the rate limit.                                         *)
Deliver(record) ==
  /\ InOrder(record)
  /\ record.status = "Error" => deliver_samples_with_error_status
  /\ ~FtDiscontinuity(record)

(* outcome, before the callback.                                           *)
Outcome(record) ==
  CASE record.status = "Error" -> "SeriousStatus"
    [] record.status # "Error" /\ FtDiscontinuity(record)
         /\ recovery_policy = "FailStop" -> "FtDiscontinuity"
    [] OTHER -> "none"

(* Mutant: a record out of order is also counted as rate limited.          *)
CountedTwice(record, limited) ==
  {c \in Counters :
     CASE c = "received"     -> TRUE
       [] c = "duplicate"    -> RdtKindOf(record) = "Duplicate"
       [] c = "out_of_order" -> RdtKindOf(record) = "OutOfOrder"
       [] c = "ft_stall"     -> FtKindOf(record) = "Stall"
       [] c = "ft_backward"  -> FtKindOf(record) = "Backward"
       [] c = "device_error" -> record.status = "Error"
       [] c = "rate_limited" -> limited \/ RdtKindOf(record) = "OutOfOrder"
       [] OTHER -> FALSE}

(* The counters that a record adds one to.                                 *)
Counted(record, limited) ==
  {c \in Counters :
     CASE c = "received"     -> TRUE
       [] c = "duplicate"    -> RdtKindOf(record) = "Duplicate"
       [] c = "out_of_order" -> RdtKindOf(record) = "OutOfOrder"
       [] c = "ft_stall"     -> FtKindOf(record) = "Stall"
       [] c = "ft_backward"  -> FtKindOf(record) = "Backward"
       [] c = "device_error" -> record.status = "Error"
       [] c = "rate_limited" -> limited
       [] OTHER -> FALSE}

(* History: what the record is in truth, against the last one in order.    *)
Observe(record) ==
  LET compared == rdt_sequence_.has_last
      same == record.stream = seen.stream
  IN /\ mixed' = (mixed \/ requests > 0 \/ record.stream # sensor.stream)
     /\ seen' = IF InOrder(record)
                THEN [stream |-> record.stream, position |-> record.position] ELSE seen
     /\ skipped' = IF compared /\ same /\ record.position > seen.position
                   THEN skipped + record.position - seen.position - 1 ELSE skipped

(* handle_record(), lines 528-638.  Whether the rate limit holds a sample  *)
(* back depends on the clock; it cannot before the first.  Every           *)
(* calibration was validated (types.cpp:45), so a sample is finite and the *)
(* early return of lines 639-643 never happens.                            *)
HandleRecord(record, limited) ==
  LET rdt == record.position % Modulus
      gap == IF RdtKindOf(record) = "Gap" THEN Gap(rdt_sequence_, rdt) ELSE 0
      counted == Counted(record, limited)
      delivers == Deliver(record) /\ ~limited
  IN /\ limited => Deliver(record) /\ sample_rate_limit_hz /\ last_delivery_at_
     /\ rdt_sequence_' = RdtNext(rdt_sequence_, rdt)
     /\ ft_sequence_' = FtNext(ft_sequence_, record.ft % Modulus)
     /\ health_' = [c \in Counters |->
                      IF c = "lost" THEN health_[c] + gap
                      ELSE IF c \in counted THEN health_[c] + 1 ELSE health_[c]]
     /\ last_acquisition' = IF FtKindOf(record) = "Restart" THEN 0 ELSE last_acquisition
     /\ Observe(record)
     /\ pending' = IF delivers
                   THEN [outcome |-> Outcome(record),
                         acquisition |-> record.acquisition,
                         configuration |-> sensor_configuration]
                   ELSE NoSample
     /\ \/ ~delivers /\ Outcome(record) # "none" /\ SessionFails
        \/ /\ delivers \/ Outcome(record) = "none"
           /\ phase' = "streaming"
           /\ UNCHANGED <<net, requests>>
     /\ UNCHANGED <<scenario, last_delivery_at_, scaled, sensor_configuration, sensor>>

(* Lines 513-523, for a record of the network.                             *)
ReceiveRecord ==
  /\ InSession /\ pending = NoSample
  /\ Spend("received")
  /\ consecutive_malformed_' = 0
  /\ \E record \in Range(net), limited \in BOOLEAN : HandleRecord(record, limited)

(* The worker goes on after the callback, with the outcome of the record.  *)
SessionGoesOn(outcome) ==
  \/ outcome # "none" /\ SessionFails
  \/ outcome = "none" /\ UNCHANGED <<phase, net, requests>>

(* Lines 669-682.                                                          *)
CallbackReturns ==
  /\ pending # NoSample
  /\ last_delivery_at_' = TRUE
  /\ health_' = [health_ EXCEPT !.delivered = @ + 1]
  /\ last_acquisition' = pending.acquisition
  /\ scaled' = scaled \union {pending.configuration}
  /\ SessionGoesOn(pending.outcome)
  /\ pending' = NoSample
  /\ UNCHANGED <<scenario, trackerVars, consecutive_malformed_, sensor_configuration,
                 sensor, left>>

(* Lines 649-667.                                                          *)
CallbackThrows ==
  /\ pending # NoSample
  /\ health_' = [health_ EXCEPT !.callback_error = @ + 1]
  /\ SessionGoesOn(IF pending.outcome # "none" \/ recovery_policy = "Reconnect"
                   THEN pending.outcome ELSE "Callback")
  /\ pending' = NoSample
  /\ UNCHANGED <<scenario, trackerVars, last_delivery_at_, last_acquisition, scaled,
                 consecutive_malformed_, sensor_configuration, sensor, left>>

Next ==
  \/ SensorSends \/ SensorAcquires \/ SensorReboots \/ SensorRestartsStream
  \/ Start \/ Stop \/ BeginSession \/ ConnectFails \/ Backoff
  \/ ReceiveFails \/ ReceiveMalformed \/ Bias
  \/ ReceiveRecord \/ CallbackReturns \/ CallbackThrows

Spec == Init /\ [][Next]_vars

-----------------------------------------------------------------------------
(* Properties                                                              *)

(* lost_count is the number of records of the stream that were passed over *)
(* between records taken in order, across wrap-around, loss, reordering,   *)
(* duplication, reconnects and bias(); only a record of the stream before  *)
(* bias() that arrives after it can spoil the count.                       *)
LostExact == ~mixed => health_.lost = skipped

(* A sample that reaches the callback was acquired after the one delivered *)
(* before it, whatever the network repeats or reorders, across bias() and  *)
(* sessions, unless an FT restart was recognised in between.               *)
DeliveredFresh == pending # NoSample => pending.acquisition > last_acquisition

(* Every record received was delivered or has a counter that says why not, *)
(* and no record counts both as delivered, held back by the rate limit or  *)
(* failed in the callback, and as one that is not delivered.               *)
Explained ==
  LET h == health_
      offered == h.delivered + h.rate_limited + h.callback_error
                   + IF pending = NoSample THEN 0 ELSE 1
      unordered == h.duplicate + h.out_of_order
      discontinuous == h.ft_stall + h.ft_backward
  IN /\ offered + unordered <= h.received
     /\ offered + discontinuous <= h.received
     /\ ~deliver_samples_with_error_status => offered + h.device_error <= h.received
     /\ h.received <= offered + unordered + discontinuous
                        + IF deliver_samples_with_error_status THEN 0 ELSE h.device_error

(* A revision means one calibration for the life of the client: samples    *)
(* with the same configuration_revision were scaled alike, over reconnects *)
(* and restarts, and calibration_change_count counts the revisions.        *)
RevisionIdentifies ==
  /\ \A c, d \in scaled \union {sensor_configuration} :
       c.revision = d.revision => c.calibration = d.calibration
  /\ sensor_configuration # NoConfiguration =>
       sensor_configuration.revision = health_.calibration_change + 1
=============================================================================
