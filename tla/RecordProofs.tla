----------------------------- MODULE RecordProofs -----------------------------
(***************************************************************************)
(* Proofs about RecordHandling for every word size, any set of scenarios,  *)
(* and every Window and MaxAdvance with which a late record is less than   *)
(* half a word behind: what the counters of health() and the configuration *)
(* revisions mean, and that delivered samples are newer than those before  *)
(* them.                                                                   *)
(***************************************************************************)
EXTENDS RecordHandling, TLAPS

-----------------------------------------------------------------------------
(* Numbers that wrap.                                                      *)

(* The word is two halves, and Window is less than one.                    *)
LEMMA Halves ==
  /\ Modulus \in Nat /\ Half \in Nat /\ Window \in Nat
  /\ Modulus = 2 * Half /\ Half > 0 /\ Window > 0 /\ Window < Half
<1>1. Modulus \in Nat /\ Modulus > 2 /\ Modulus % 2 = 0
  BY WordSize
<1>2. Half \in Nat /\ Modulus = 2 * Half
  BY <1>1 DEF Half
<1>3. \A w, a \in Nat \ {0} : a * w \in Nat /\ w <= a * w
  OBVIOUS
<1>4. Window \in Nat /\ Window > 0 /\ Window < Half
  BY <1>2, <1>3, EnvironmentBounds
<1> QED BY <1>1, <1>2, <1>4

(* Two numbers that are less than a word apart keep their difference when  *)
(* both are cut to a word and subtracted as unsigned words.                *)
LEMMA WrappedDifference ==
  ASSUME NEW a \in Nat, NEW b \in Nat, b <= a, a < b + Modulus
  PROVE  /\ Minus(a % Modulus, b % Modulus) = a - b
         /\ Minus(b % Modulus, a % Modulus) = IF a = b THEN 0 ELSE Modulus + b - a
         /\ a % Modulus = b % Modulus <=> a = b
<1> DEFINE p == a \div Modulus
           q == b \div Modulus
           r == a % Modulus
           s == b % Modulus
<1>0. Modulus \in Nat /\ Modulus > 0
  BY WordSize
<1>1. /\ p \in Int /\ q \in Int /\ r \in Nat /\ s \in Nat
      /\ r < Modulus /\ s < Modulus
      /\ a = Modulus * p + r /\ b = Modulus * q + s
  BY <1>0
<1> HIDE DEF p, q, r, s
<1>2. q <= p
  <2> SUFFICES ASSUME p + 1 <= q PROVE FALSE
    BY <1>1
  <2>1. Modulus * (p + 1) <= Modulus * q
    BY <1>0, <1>1
  <2> QED BY <1>0, <1>1, <2>1
<1>3. p <= q + 1
  <2> SUFFICES ASSUME q + 2 <= p PROVE FALSE
    BY <1>1
  <2>1. Modulus * (q + 2) <= Modulus * p
    BY <1>0, <1>1
  <2> QED BY <1>0, <1>1, <2>1
<1>4. CASE p = q
  BY <1>0, <1>1, <1>4 DEF Minus, r, s
<1>5. CASE p = q + 1
  <2>1. Modulus * p = Modulus * q + Modulus
    BY <1>0, <1>1, <1>5
  <2>2. a - b = Modulus + r - s
    BY <1>0, <1>1, <2>1
  <2>3. r < s /\ a # b
    BY <1>0, <1>1, <2>2
  <2> QED BY <1>0, <1>1, <2>2, <2>3 DEF Minus, r, s
<1> QED BY <1>1, <1>2, <1>3, <1>4, <1>5

(* The tracker sees the truth: for numbers less than half a word apart, on *)
(* either side of a wrap, observe() tells a repeated, a late, the next and *)
(* a skipping record apart, and its gap is the number of records skipped.  *)
THEOREM TrackerClassifies ==
  ASSUME NEW a \in Nat, NEW b \in Nat, a < b + Half, b < a + Half,
         NEW t, t.has_last = TRUE, t.previous = b % Modulus
  PROVE  /\ a = b => RdtKind(t, a % Modulus) = "Duplicate"
         /\ a < b => RdtKind(t, a % Modulus) = "OutOfOrder"
         /\ a = b + 1 => RdtKind(t, a % Modulus) = "Contiguous"
         /\ a > b + 1 => /\ RdtKind(t, a % Modulus) = "Gap"
                         /\ Gap(t, a % Modulus) = a - b - 1
<1> USE Halves
<1>1. ASSUME b <= a
      PROVE  /\ Minus(a % Modulus, b % Modulus) = a - b
             /\ a % Modulus = b % Modulus <=> a = b
  BY <1>1, WrappedDifference, SMTT(30)
<1>2. ASSUME a < b
      PROVE  /\ Minus(a % Modulus, b % Modulus) = Modulus + a - b
             /\ a % Modulus # b % Modulus
  <2>1. a <= b /\ b < a + Modulus
    BY <1>2
  <2>2. /\ Minus(a % Modulus, b % Modulus) = IF b = a THEN 0 ELSE Modulus + a - b
        /\ b % Modulus = a % Modulus <=> b = a
    BY <2>1, WrappedDifference, Zenon
  <2> QED BY <1>2, <2>2
<1>3. CASE a = b
  <2>1. ~Ahead(a % Modulus, b % Modulus)
    BY <1>3 DEF Ahead
  <2> QED BY <1>3, <2>1 DEF RdtKind
<1>4. CASE a < b
  <2>1. ~Ahead(a % Modulus, b % Modulus)
    BY <1>2, <1>4 DEF Ahead
  <2> QED BY <1>2, <1>4, <2>1 DEF RdtKind
<1>5. CASE b < a
  <2>1. a % Modulus # b % Modulus /\ Ahead(a % Modulus, b % Modulus)
    BY <1>1, <1>5 DEF Ahead
  <2>2. Minus(a % Modulus, b % Modulus) = a - b
    BY <1>1, <1>5
  <2> HIDE DEF Ahead, Minus
  <2>3. RdtKind(t, a % Modulus) = IF a - b = 1 THEN "Contiguous" ELSE "Gap"
    BY <2>1, <2>2 DEF RdtKind
  <2> QED BY <1>5, <2>2, <2>3 DEF Gap
<1> QED BY <1>3, <1>4, <1>5

(* A gap is a natural number.                                              *)
LEMMA GapNat ==
  ASSUME NEW current \in Word, NEW t \in [has_last : BOOLEAN, previous : Word],
         RdtKind(t, current) = "Gap"
  PROVE  Gap(t, current) \in Nat
<1>1. t.has_last /\ current # t.previous
  <2>1. ASSUME ~t.has_last PROVE FALSE
    BY <2>1 DEF RdtKind
  <2>2. ASSUME t.has_last, current = t.previous PROVE FALSE
    <3>1. ~Ahead(current, t.previous)
      BY <2>2 DEF Ahead
    <3> QED BY <2>2, <3>1 DEF RdtKind
  <2> QED BY <2>1, <2>2
<1> QED BY <1>1, Halves DEF Gap, Minus, Word

-----------------------------------------------------------------------------
(* What every variable holds.                                              *)

Record == [stream : Nat, position : Nat, acquisition : Nat, ft : Int,
           status : {"Ok", "Error"}]

Sensor  == [position : Nat, stream : Nat, acquisition : Nat, booted_at : Nat]
Tracker == [has_last : BOOLEAN, previous : Word]
Place   == [stream : Nat, position : Nat]

RecordTypes ==
  /\ scenario \in Scenarios
  /\ rdt_sequence_ \in Tracker
  /\ health_ \in [Counters -> Nat]
  /\ sensor \in Sensor
  /\ net \in Seq(Record)
  /\ requests \in Nat
  /\ seen \in Place
  /\ skipped \in Nat

(* The counters that a record may add one to.                              *)
LEMMA CountedCounters ==
  ASSUME NEW record, NEW limited \in BOOLEAN
  PROVE  LET counted == Counted(record, limited) IN
         /\ "received" \in counted
         /\ "duplicate" \in counted <=> RdtKindOf(record) = "Duplicate"
         /\ "out_of_order" \in counted <=> RdtKindOf(record) = "OutOfOrder"
         /\ "ft_stall" \in counted <=> FtKindOf(record) = "Stall"
         /\ "ft_backward" \in counted <=> FtKindOf(record) = "Backward"
         /\ "device_error" \in counted <=> record.status = "Error"
         /\ "rate_limited" \in counted <=> limited
         /\ {"delivered", "callback_error", "calibration_change"} \cap counted = {}
  BY DEF Counted, Counters

(* ReceiveRecord takes a record of the network and hands it over.          *)
LEMMA ReceiveTakes ==
  ASSUME ReceiveRecord, net \in Seq(Record)
  PROVE  /\ InSession /\ pending = NoSample
         /\ \E i \in 1 .. Len(net), limited \in BOOLEAN : HandleRecord(net[i], limited)
<1>1. /\ InSession /\ pending = NoSample
      /\ \E record \in Range(net), limited \in BOOLEAN : HandleRecord(record, limited)
  BY DEF ReceiveRecord
<1>2. \A record \in Range(net) : \E i \in 1 .. Len(net) : record = net[i]
  BY DEF Range
<1> QED BY <1>1, <1>2

(* After a record the session goes on, or its socket is closed.            *)
LEMMA RecordEffect ==
  ASSUME NEW record, NEW limited \in BOOLEAN, HandleRecord(record, limited)
  PROVE  /\ \/ SocketCloses /\ phase' \in {"faulted", "backoff"}
            \/ UNCHANGED <<net, requests>> /\ phase' = "streaming"
         /\ limited => Deliver(record)
         /\ rdt_sequence_' = RdtNext(rdt_sequence_, record.position % Modulus)
         /\ health_' = [c \in Counters |->
              IF c = "lost"
              THEN health_[c] + (IF RdtKindOf(record) = "Gap"
                                 THEN Gap(rdt_sequence_, record.position % Modulus)
                                 ELSE 0)
              ELSE IF c \in Counted(record, limited) THEN health_[c] + 1 ELSE health_[c]]
         /\ Observe(record)
         /\ pending' = IF Deliver(record) /\ ~limited
                       THEN [outcome |-> Outcome(record),
                             acquisition |-> record.acquisition,
                             configuration |-> sensor_configuration]
                       ELSE NoSample
         /\ UNCHANGED <<scenario, scaled, sensor_configuration, sensor>>
<1>1. SessionFails => SocketCloses /\ phase' \in {"faulted", "backoff"}
  BY DEF SessionFails
<1> QED BY <1>1, Zenon DEF HandleRecord

(* What applying a configuration does to the counters.                     *)
LEMMA ConfigurationCounters ==
  ASSUME health_ \in [Counters -> Nat],
         \/ UNCHANGED health_
         \/ \E calibration \in scenario.calibrations : ApplyConfiguration(calibration)
  PROVE  /\ health_' \in [Counters -> Nat]
         /\ \A c \in Counters \ {"calibration_change"} : health_'[c] = health_[c]
  BY DEF ApplyConfiguration, Counters

(* A new stream begins later than the old one.                             *)
LEMMA StreamBeginsLater ==
  ASSUME scenario \in Scenarios, StreamBegins,
         sensor \in Sensor
  PROVE  /\ sensor' \in Sensor
         /\ sensor' = sensor \/ sensor'.stream = sensor.stream + 1
<1>1. scenario.first_numbers \subseteq Nat
  BY EnvironmentBounds, Halves DEF Scenario, Word
<1>2. ASSUME NEW n \in scenario.first_numbers,
             sensor' = [sensor EXCEPT !.position = n, !.stream = @ + 1]
      PROVE  /\ sensor' \in Sensor
             /\ sensor'.stream = sensor.stream + 1
  <2>1. n \in Nat /\ sensor.stream + 1 \in Nat
    BY <1>1 DEF Sensor
  <2> QED BY <1>2, <2>1, Zenon DEF Sensor
<1> QED BY <1>2, Zenon DEF StreamBegins

(* Between sessions only the count of acquisitions goes on.                *)
LEMMA PauseTakesTime ==
  ASSUME scenario \in Scenarios, sensor \in Sensor, SensorAcquires
  PROVE  /\ sensor' \in Sensor
         /\ sensor'.position = sensor.position /\ sensor'.stream = sensor.stream
         /\ sensor'.booted_at = sensor.booted_at
         /\ sensor'.acquisition >= sensor.acquisition
<1>1. scenario.pauses \subseteq Nat
  BY EnvironmentBounds DEF Scenario
<1>2. PICK pause \in scenario.pauses :
        sensor' = [sensor EXCEPT !.acquisition = @ + pause]
  BY Zenon DEF SensorAcquires
<1>3. /\ sensor.acquisition + pause \in Nat
      /\ sensor.acquisition + pause >= sensor.acquisition
  BY <1>1 DEF Sensor
<1>4. sensor' \in Sensor /\ sensor' = [sensor EXCEPT !.acquisition = sensor.acquisition + pause]
  BY <1>2, <1>3, Zenon DEF Sensor
<1> QED BY <1>3, <1>4 DEF Sensor

(* A session that ends leaves nothing on the network.                      *)
LEMMA SessionEnds ==
  /\ SocketCloses => net' = <<>> /\ requests' = 0 /\ net' \in Seq(Record) /\ requests' \in Nat
  /\ SessionFails => SocketCloses /\ phase' \in {"faulted", "backoff"}
<1>1. <<>> \in Seq(Record) /\ 0 \in Nat
  OBVIOUS
<1>2. SessionFails => SocketCloses /\ phase' \in {"faulted", "backoff"}
  BY DEF SessionFails
<1> QED BY <1>1, <1>2, Zenon DEF SocketCloses

(* Every step keeps the types.                                             *)
LEMMA TypesStep == RecordTypes /\ [Next]_vars => RecordTypes'
<1> SUFFICES ASSUME RecordTypes, [Next]_vars PROVE RecordTypes'
  OBVIOUS
<1> USE DEF RecordTypes, trackerVars, sensorVars, sampleVars
<1>1. CASE SensorSends
  <2>1. PICK advance \in scenario.advances, status \in scenario.statuses :
          /\ sensor' = [sensor EXCEPT !.position = @ + 1, !.acquisition = @ + advance]
          /\ net' = LET record == [stream |-> sensor.stream,
                                   position |-> sensor'.position,
                                   acquisition |-> sensor'.acquisition,
                                   ft |-> sensor'.acquisition - sensor.booted_at,
                                   status |-> status]
                        sent == Append(net, record)
                    IN IF Len(sent) > Window THEN Tail(sent) ELSE sent
    BY <1>1, Zenon DEF SensorSends
  <2>2. advance \in Nat /\ status \in {"Ok", "Error"}
    BY EnvironmentBounds DEF Scenario
  <2>a. sensor.position + 1 \in Nat /\ sensor.acquisition + advance \in Nat
    BY <2>2 DEF Sensor
  <2>3. sensor' \in Sensor
    BY <2>1, <2>a, Zenon DEF Sensor
  <2>4. [stream |-> sensor.stream, position |-> sensor'.position,
         acquisition |-> sensor'.acquisition,
         ft |-> sensor'.acquisition - sensor.booted_at, status |-> status] \in Record
    BY <2>2, <2>3 DEF Record, Sensor
  <2>5. net' \in Seq(Record)
    BY <2>1, <2>4
  <2> QED BY <1>1, <2>3, <2>5 DEF SensorSends
<1>2. CASE SensorAcquires \/ SensorReboots \/ SensorRestartsStream
  <2>0. CASE SensorAcquires
    BY <2>0, PauseTakesTime DEF SensorAcquires
  <2>1. CASE SensorReboots
    <3>1. sensor.acquisition + 1 \in Nat
      BY DEF Sensor
    <3>2. sensor' \in Sensor
      BY <2>1, <3>1, Zenon DEF SensorReboots, Sensor
    <3> QED BY <2>1, <3>2 DEF SensorReboots
  <2>2. CASE SensorRestartsStream
    BY <2>2, StreamBeginsLater DEF SensorRestartsStream
  <2> QED BY <1>2, <2>0, <2>1, <2>2
<1>3. CASE Start \/ Stop \/ Backoff \/ ReceiveFails
  BY <1>3, SessionEnds DEF Start, Stop, Backoff, ReceiveFails
<1>4. CASE BeginSession
  <2>1. health_' \in [Counters -> Nat]
    BY <1>4, ConfigurationCounters DEF BeginSession
  <2>2. rdt_sequence_' \in Tracker
    BY <1>4, Zenon DEF BeginSession, RdtReset, Tracker
  <2> QED BY <1>4, <2>1, <2>2, StreamBeginsLater DEF BeginSession
<1>5. CASE ConnectFails
  <2>1. health_' \in [Counters -> Nat]
    BY <1>5, ConfigurationCounters DEF ConnectFails
  <2> QED BY <1>5, <2>1 DEF ConnectFails, SessionFails, SocketCloses
<1>6. CASE ReceiveMalformed
  BY <1>6, SessionEnds DEF ReceiveMalformed
<1>7. CASE Bias
  <2>1. rdt_sequence_' \in Tracker
    BY <1>7, Zenon DEF Bias, RdtReset, Tracker
  <2> QED BY <1>7, <2>1 DEF Bias
<1>8. CASE ReceiveRecord
  <2>1. PICK i \in 1 .. Len(net), limited \in BOOLEAN : HandleRecord(net[i], limited)
    BY <1>8, ReceiveTakes
  <2> DEFINE record == net[i]
             rdt == record.position % Modulus
  <2>a. record \in Record
    OBVIOUS
  <2>b. record.position \in Nat /\ record.stream \in Nat
    BY <2>a, SMTT(30) DEF Record
  <2>2. rdt \in Word
    BY <2>b, Halves DEF Word
  <2> HIDE DEF record, rdt
  <2>3. rdt_sequence_' \in Tracker
    <3>1. rdt_sequence_' = RdtNext(rdt_sequence_, rdt)
      BY <2>1, RecordEffect, Zenon DEF record, rdt
    <3>2. [has_last |-> TRUE, previous |-> rdt] \in Tracker
      BY <2>2 DEF Tracker
    <3> QED BY <3>1, <3>2 DEF RdtNext
  <2>4. RdtKindOf(record) = "Gap" => Gap(rdt_sequence_, rdt) \in Nat
    BY <2>2, GapNat DEF RdtKindOf, rdt, Tracker
  <2>5. health_' \in [Counters -> Nat]
    BY <2>1, <2>4, RecordEffect DEF record, rdt
  <2>6. seen' \in Place /\ skipped' \in Nat
    <3>1. Observe(record)
      BY <2>1, RecordEffect, Zenon DEF record
    <3>2. [stream |-> record.stream, position |-> record.position] \in Place
      BY <2>b DEF Place
    <3>3. seen.position \in Nat
      BY DEF Place
    <3> QED BY <2>b, <3>1, <3>2, <3>3 DEF Observe
  <2>7. net' \in Seq(Record) /\ requests' \in Nat
    BY <2>1, RecordEffect, SessionEnds
  <2> QED BY <2>1, <2>3, <2>5, <2>6, <2>7, RecordEffect
<1>9. CASE CallbackReturns \/ CallbackThrows
  <2>1. net' \in Seq(Record) /\ requests' \in Nat
    BY <1>9, SessionEnds DEF CallbackReturns, CallbackThrows, SessionGoesOn
  <2>2. health_' \in [Counters -> Nat]
    <3>1. \E c \in Counters : health_' = [health_ EXCEPT ![c] = @ + 1]
      BY <1>9, SMTT(30) DEF CallbackReturns, CallbackThrows, Counters
    <3> QED BY <3>1
  <2> QED BY <1>9, <2>1, <2>2 DEF CallbackReturns, CallbackThrows
<1>10. CASE UNCHANGED vars
  BY <1>10 DEF vars
<1> QED BY <1>1, <1>2, <1>3, <1>4, <1>5, <1>6, <1>7, <1>8, <1>9, <1>10 DEF Next

(* The types hold in every reachable state.                                *)
LEMMA TypesInvariant == Spec => []RecordTypes
<1>1. Init => RecordTypes
  <2> SUFFICES ASSUME Init PROVE RecordTypes
    OBVIOUS
  <2>1. scenario \in Scenarios /\ scenario.first_numbers \subseteq Nat
    BY EnvironmentBounds, Halves DEF Init, Scenario, Word
  <2>2. rdt_sequence_ \in Tracker
    BY Halves DEF Init, RdtNew, Word, Tracker
  <2> QED BY <2>1, <2>2 DEF Init, RecordTypes, Sensor, Place
<1> QED BY <1>1, TypesStep, PTL DEF Spec

-----------------------------------------------------------------------------
(* Configuration revisions.                                                *)

(* The configurations that samples were or will be scaled with.            *)
Used == scaled \union {sensor_configuration}
          \union (IF pending = NoSample THEN {} ELSE {pending.configuration})

(* RevisionIdentifies is not inductive: the sample in the callback keeps   *)
(* the configuration that it was scaled with, and no configuration in use  *)
(* is later than the current one.                                          *)
RevisionInv ==
  /\ \A c \in Used : c.revision \in Nat /\ c.revision <= sensor_configuration.revision
  /\ \A c, d \in Used : c.revision = d.revision => c.calibration = d.calibration
  /\ sensor_configuration = NoConfiguration => health_.calibration_change = 0
  /\ sensor_configuration # NoConfiguration =>
       sensor_configuration.revision = health_.calibration_change + 1

(* A step that changes neither the configuration nor its counter, and uses *)
(* no configuration but those in use, keeps the invariant.                 *)
LEMMA RevisionFrame ==
  ASSUME RevisionInv, Used' \subseteq Used, UNCHANGED sensor_configuration,
         health_'.calibration_change = health_.calibration_change
  PROVE  RevisionInv'
<1> HIDE DEF Used
<1> QED BY DEF RevisionInv

(* apply_configuration() takes the next revision for a new calibration.    *)
LEMMA RevisionApplied ==
  ASSUME RevisionInv, health_ \in [Counters -> Nat], UNCHANGED <<scaled, pending>>,
         NEW calibration, ApplyConfiguration(calibration)
  PROVE  RevisionInv'
<1>0. /\ sensor_configuration \in Used
      /\ Used' \subseteq Used \union {sensor_configuration'}
      /\ health_.calibration_change \in Nat
  BY DEF Used, Counters
<1> HIDE DEF Used
<1>1. CASE UNCHANGED <<sensor_configuration, health_>>
  <2>1. Used' \subseteq Used
    BY <1>0, <1>1
  <2> QED BY <1>1, <2>1, RevisionFrame
<1>2. ASSUME NEW revision \in Nat,
             sensor_configuration' = [calibration |-> calibration, revision |-> revision],
             revision = health_'.calibration_change + 1,
             revision > sensor_configuration.revision
      PROVE  RevisionInv'
  <2>0. revision > 0
    BY <1>0, <1>2 DEF RevisionInv
  <2>1. /\ sensor_configuration'.revision = revision
        /\ sensor_configuration'.calibration = calibration
        /\ sensor_configuration' # NoConfiguration
    BY <1>2, <2>0 DEF NoConfiguration
  <2>2. \A c \in Used' : \/ c = sensor_configuration'
                         \/ c \in Used /\ c.revision \in Nat /\ c.revision < revision
    BY <1>0, <1>2 DEF RevisionInv
  <2> HIDE DEF NoConfiguration
  <2>3. \A c \in Used' : c.revision \in Nat /\ c.revision <= sensor_configuration'.revision
    BY <1>2, <2>1, <2>2
  <2>4. \A c, d \in Used' : c.revision = d.revision => c.calibration = d.calibration
    BY <2>1, <2>2 DEF RevisionInv
  <2> QED BY <1>2, <2>1, <2>3, <2>4 DEF RevisionInv
<1>3. CASE /\ sensor_configuration = NoConfiguration
           /\ sensor_configuration' = [calibration |-> calibration, revision |-> 1]
           /\ UNCHANGED health_
  BY <1>2, <1>3 DEF RevisionInv, NoConfiguration
<1>4. CASE /\ sensor_configuration # NoConfiguration
           /\ sensor_configuration' = [calibration |-> calibration,
                                       revision |-> sensor_configuration.revision + 1]
           /\ health_' = [health_ EXCEPT !.calibration_change = @ + 1]
  <2>1. health_'.calibration_change = health_.calibration_change + 1
    BY <1>4 DEF Counters
  <2>2. sensor_configuration.revision = health_.calibration_change + 1
    BY <1>4 DEF RevisionInv
  <2>3. sensor_configuration.revision \in Nat
    BY <1>0, <2>2
  <2> QED BY <1>0, <1>2, <1>4, <2>1, <2>2, <2>3
<1> QED BY <1>1, <1>3, <1>4 DEF ApplyConfiguration

(* Every step keeps the invariant.                                         *)
LEMMA RevisionStep == RecordTypes /\ RevisionInv /\ [Next]_vars => RevisionInv'
<1> SUFFICES ASSUME RecordTypes, RevisionInv, [Next]_vars PROVE RevisionInv'
  OBVIOUS
<1>h. health_ \in [Counters -> Nat]
  BY DEF RecordTypes
<1>f. ASSUME UNCHANGED <<scaled, pending, sensor_configuration, health_>>
      PROVE  RevisionInv'
  BY <1>f, RevisionFrame DEF Used
<1> USE DEF trackerVars, sensorVars, sampleVars
<1>1. CASE SensorSends \/ SensorAcquires \/ SensorReboots \/ SensorRestartsStream \/ Bias
  BY <1>1, <1>f, Zenon DEF SensorSends, SensorAcquires, SensorReboots, SensorRestartsStream, Bias
<1>2. CASE Start \/ Stop \/ Backoff \/ ReceiveFails \/ ReceiveMalformed
  BY <1>2, <1>f, Zenon DEF Start, Stop, Backoff, ReceiveFails, ReceiveMalformed
<1>3. CASE BeginSession
  BY <1>3, <1>h, RevisionApplied, Zenon DEF BeginSession
<1>4. CASE ConnectFails
  BY <1>4, <1>f, <1>h, RevisionApplied, Zenon DEF ConnectFails
<1>5. CASE ReceiveRecord
  <2>1. PICK i \in 1 .. Len(net), limited \in BOOLEAN : HandleRecord(net[i], limited)
    BY <1>5, ReceiveTakes DEF RecordTypes
  <2>2. health_'.calibration_change = health_.calibration_change
    BY <1>h, <2>1, RecordEffect, CountedCounters DEF Counters
  <2>3. /\ UNCHANGED <<scaled, sensor_configuration>>
        /\ pending' # NoSample => pending'.configuration = sensor_configuration
    BY <2>1, RecordEffect
  <2>4. Used' \subseteq Used
    BY <2>3 DEF Used
  <2> QED BY <2>2, <2>3, <2>4, RevisionFrame
<1>6. CASE CallbackReturns \/ CallbackThrows
  <2>1. /\ pending # NoSample /\ pending' = NoSample
        /\ scaled' \subseteq scaled \union {pending.configuration}
        /\ UNCHANGED sensor_configuration
    BY <1>6 DEF CallbackReturns, CallbackThrows
  <2>2. Used' \subseteq Used
    BY <2>1 DEF Used
  <2>3. health_'.calibration_change = health_.calibration_change
    BY <1>6, <1>h DEF CallbackReturns, CallbackThrows, Counters
  <2> QED BY <2>1, <2>2, <2>3, RevisionFrame
<1>7. CASE UNCHANGED vars
  BY <1>7, <1>f DEF vars
<1> QED BY <1>1, <1>2, <1>3, <1>4, <1>5, <1>6, <1>7 DEF Next

(* For any number of sessions, restarts and calibrations, two samples with *)
(* the same configuration_revision were scaled with the same calibration,  *)
(* and calibration_change_count tells the current revision.                *)
THEOREM RevisionsIdentify == Spec => []RevisionIdentifies
<1>1. Init => RevisionInv
  BY DEF Init, RevisionInv, Used, NoConfiguration, Counters
<1>2. RevisionInv => RevisionIdentifies
  BY DEF RevisionInv, RevisionIdentifies, Used
<1> QED BY <1>1, <1>2, RevisionStep, TypesInvariant, PTL DEF Spec

-----------------------------------------------------------------------------
(* The counters.                                                           *)

(* A sample is not the absence of one.                                     *)
LEMMA SampleIsSample ==
  ASSUME NEW outcome, NEW acquisition, NEW configuration
  PROVE  [outcome |-> outcome, acquisition |-> acquisition,
          configuration |-> configuration] # NoSample
<1>1. DOMAIN [outcome |-> outcome, acquisition |-> acquisition,
              configuration |-> configuration] # DOMAIN NoSample
  BY DEF NoSample
<1> QED BY <1>1

Offered(h) == h.delivered + h.rate_limited + h.callback_error
Unordered(h) == h.duplicate + h.out_of_order
Discontinuous(h) == h.ft_stall + h.ft_backward

(* The counters h are explained when so many samples are in the callback.  *)
Balanced(h, now) ==
  /\ Offered(h) + now + Unordered(h) <= h.received
  /\ Offered(h) + now + Discontinuous(h) <= h.received
  /\ ~deliver_samples_with_error_status => Offered(h) + now + h.device_error <= h.received
  /\ h.received <= Offered(h) + now + Unordered(h) + Discontinuous(h)
                     + IF deliver_samples_with_error_status THEN 0 ELSE h.device_error

(* Explained is the balance of the counters, a sample in the callback too. *)
LEMMA ExplainedIsBalanced ==
  Explained <=> Balanced(health_, IF pending = NoSample THEN 0 ELSE 1)
  BY DEF Explained, Balanced, Offered, Unordered, Discontinuous

(* The counters are numbers.                                               *)
LEMMA CountersNat ==
  ASSUME NEW h \in [Counters -> Nat]
  PROVE  /\ h.delivered \in Nat /\ h.rate_limited \in Nat /\ h.callback_error \in Nat
         /\ h.duplicate \in Nat /\ h.out_of_order \in Nat
         /\ h.ft_stall \in Nat /\ h.ft_backward \in Nat
         /\ h.device_error \in Nat /\ h.received \in Nat
  BY DEF Counters

(* One record more, and the sums it adds to.                               *)
LEMMA BalanceKept ==
  ASSUME NEW h, NEW k, NEW held \in Nat, NEW now \in Nat,
         NEW unordered \in Nat, NEW discontinuous \in Nat, NEW errors \in Nat,
         /\ Offered(h) \in Nat /\ Unordered(h) \in Nat /\ Discontinuous(h) \in Nat
         /\ h.received \in Nat /\ h.device_error \in Nat,
         /\ Offered(k) = Offered(h) + held
         /\ Unordered(k) = Unordered(h) + unordered
         /\ Discontinuous(k) = Discontinuous(h) + discontinuous
         /\ k.received = h.received + 1
         /\ k.device_error = h.device_error + errors,
         /\ held + now + unordered <= 1
         /\ held + now + discontinuous <= 1
         /\ ~deliver_samples_with_error_status => held + now + errors <= 1
         /\ 1 <= held + now + unordered + discontinuous
                  + IF deliver_samples_with_error_status THEN 0 ELSE errors,
         Balanced(h, 0)
  PROVE  Balanced(k, now)
<1>1. CASE deliver_samples_with_error_status
  BY <1>1 DEF Balanced
<1>2. CASE ~deliver_samples_with_error_status
  BY <1>2 DEF Balanced
<1> QED BY <1>1, <1>2

(* A record that is not delivered has a reason that is counted, and a      *)
(* record that is delivered has none.                                      *)
LEMMA WhyNotDelivered ==
  ASSUME NEW record
  PROVE  Deliver(record) <=>
           /\ RdtKindOf(record) # "Duplicate" /\ RdtKindOf(record) # "OutOfOrder"
           /\ FtKindOf(record) # "Stall" /\ FtKindOf(record) # "Backward"
           /\ record.status = "Error" => deliver_samples_with_error_status
  BY DEF Deliver, InOrder, FtDiscontinuity

(* Every step keeps the counters explained.                                *)
LEMMA ExplainedStep == RecordTypes /\ Explained /\ [Next]_vars => Explained'
<1> SUFFICES ASSUME RecordTypes, Explained, [Next]_vars PROVE Explained'
  OBVIOUS
<1>h. health_ \in [Counters -> Nat]
  BY DEF RecordTypes
<1>f. ASSUME UNCHANGED <<scenario, pending>>,
             \A c \in Counters \ {"calibration_change"} : health_'[c] = health_[c]
      PROVE  Explained'
  <2>1. /\ UNCHANGED deliver_samples_with_error_status
        /\ health_'.delivered = health_.delivered
        /\ health_'.rate_limited = health_.rate_limited
        /\ health_'.callback_error = health_.callback_error
        /\ health_'.duplicate = health_.duplicate
        /\ health_'.out_of_order = health_.out_of_order
        /\ health_'.ft_stall = health_.ft_stall
        /\ health_'.ft_backward = health_.ft_backward
        /\ health_'.device_error = health_.device_error
        /\ health_'.received = health_.received
    BY <1>f DEF Counters, deliver_samples_with_error_status
  <2> QED BY <1>f, <2>1 DEF Explained
<1> USE DEF trackerVars, sensorVars, sampleVars
<1>1. CASE SensorSends \/ SensorAcquires \/ SensorReboots \/ SensorRestartsStream \/ Bias
  BY <1>1, <1>f, Zenon DEF SensorSends, SensorAcquires, SensorReboots, SensorRestartsStream, Bias
<1>2. CASE Start \/ Stop \/ Backoff \/ ReceiveFails \/ ReceiveMalformed
  BY <1>2, <1>f, Zenon DEF Start, Stop, Backoff, ReceiveFails, ReceiveMalformed
<1>3. CASE BeginSession \/ ConnectFails
  <2>1. /\ UNCHANGED <<scenario, pending>>
        /\ \/ UNCHANGED health_
           \/ \E calibration \in scenario.calibrations : ApplyConfiguration(calibration)
    BY <1>3, Zenon DEF BeginSession, ConnectFails
  <2> QED BY <1>f, <1>h, <2>1, ConfigurationCounters
<1>4. CASE ReceiveRecord
  <2>1. PICK i \in 1 .. Len(net), limited \in BOOLEAN : HandleRecord(net[i], limited)
    BY <1>4, ReceiveTakes DEF RecordTypes
  <2> DEFINE record == net[i]
             delivers == Deliver(record) /\ ~limited
  <2>2. /\ limited => Deliver(record)
        /\ UNCHANGED scenario
        /\ pending = NoSample
        /\ pending' # NoSample <=> delivers
    BY <1>4, <2>1, ReceiveTakes, RecordEffect, SampleIsSample DEF RecordTypes
  <2>3. /\ health_'.received = health_.received + 1
        /\ health_'.delivered = health_.delivered
        /\ health_'.callback_error = health_.callback_error
        /\ health_'.rate_limited = health_.rate_limited + IF limited THEN 1 ELSE 0
        /\ health_'.duplicate =
             health_.duplicate + IF RdtKindOf(record) = "Duplicate" THEN 1 ELSE 0
        /\ health_'.out_of_order =
             health_.out_of_order + IF RdtKindOf(record) = "OutOfOrder" THEN 1 ELSE 0
        /\ health_'.ft_stall =
             health_.ft_stall + IF FtKindOf(record) = "Stall" THEN 1 ELSE 0
        /\ health_'.ft_backward =
             health_.ft_backward + IF FtKindOf(record) = "Backward" THEN 1 ELSE 0
        /\ health_'.device_error =
             health_.device_error + IF record.status = "Error" THEN 1 ELSE 0
    <3>1. \A c \in Counters \ {"lost"} :
            health_'[c] = IF c \in Counted(record, limited) THEN health_[c] + 1 ELSE health_[c]
      BY <2>1, RecordEffect
    <3>2. /\ {"received", "delivered", "callback_error", "rate_limited", "duplicate",
              "out_of_order", "ft_stall", "ft_backward", "device_error"}
                \subseteq Counters \ {"lost"}
          /\ \A c \in Counters : health_[c] \in Nat /\ health_[c] = health_[c] + 0
      BY <1>h, SMTT(30) DEF Counters
    <3> DEFINE counted == Counted(record, limited)
               Follows(c, p) == health_'[c] = health_[c] + IF p THEN 1 ELSE 0
    <3>3. \A c \in Counters \ {"lost"} : Follows(c, c \in counted)
      BY <3>1, <3>2
    <3> HIDE DEF counted
    <3>4. /\ "received" \in counted
          /\ "delivered" \notin counted /\ "callback_error" \notin counted
          /\ "rate_limited" \in counted <=> limited
          /\ "duplicate" \in counted <=> RdtKindOf(record) = "Duplicate"
          /\ "out_of_order" \in counted <=> RdtKindOf(record) = "OutOfOrder"
          /\ "ft_stall" \in counted <=> FtKindOf(record) = "Stall"
          /\ "ft_backward" \in counted <=> FtKindOf(record) = "Backward"
          /\ "device_error" \in counted <=> record.status = "Error"
      BY CountedCounters DEF counted
    <3> HIDE DEF record
    <3>5. /\ Follows("received", TRUE)
          /\ Follows("delivered", FALSE) /\ Follows("callback_error", FALSE)
          /\ Follows("rate_limited", limited)
          /\ Follows("duplicate", RdtKindOf(record) = "Duplicate")
          /\ Follows("out_of_order", RdtKindOf(record) = "OutOfOrder")
          /\ Follows("ft_stall", FtKindOf(record) = "Stall")
          /\ Follows("ft_backward", FtKindOf(record) = "Backward")
          /\ Follows("device_error", record.status = "Error")
      BY <3>2, <3>3, <3>4, SMTT(30)
    <3> QED BY <3>2, <3>5, SMTT(30)
  <2>4. UNCHANGED deliver_samples_with_error_status
    BY <2>2 DEF deliver_samples_with_error_status
  <2> HIDE DEF record
  <2>a. PICK held : held \in Nat /\ held = IF limited THEN 1 ELSE 0
    OBVIOUS
  <2>b. PICK offers : offers \in Nat /\ offers = IF pending' = NoSample THEN 0 ELSE 1
    OBVIOUS
  <2>c. PICK duplicates :
          duplicates \in Nat /\ duplicates = IF RdtKindOf(record) = "Duplicate" THEN 1 ELSE 0
    OBVIOUS
  <2>d. PICK reorders :
          reorders \in Nat /\ reorders = IF RdtKindOf(record) = "OutOfOrder" THEN 1 ELSE 0
    OBVIOUS
  <2>e. PICK stalls :
          stalls \in Nat /\ stalls = IF FtKindOf(record) = "Stall" THEN 1 ELSE 0
    OBVIOUS
  <2>f. PICK backwards :
          backwards \in Nat /\ backwards = IF FtKindOf(record) = "Backward" THEN 1 ELSE 0
    OBVIOUS
  <2>g. PICK errs : errs \in Nat /\ errs = IF record.status = "Error" THEN 1 ELSE 0
    OBVIOUS
  <2>5. /\ held + offers + (duplicates + reorders) <= 1
        /\ held + offers + (stalls + backwards) <= 1
        /\ ~deliver_samples_with_error_status => held + offers + errs <= 1
        /\ 1 <= held + offers + (duplicates + reorders) + (stalls + backwards)
                 + IF deliver_samples_with_error_status THEN 0 ELSE errs
    BY <2>2, <2>a, <2>b, <2>c, <2>d, <2>e, <2>f, <2>g, WhyNotDelivered
  <2>6. /\ health_'.received = health_.received + 1
        /\ health_'.delivered = health_.delivered
        /\ health_'.callback_error = health_.callback_error
        /\ health_'.rate_limited = health_.rate_limited + held
        /\ health_'.duplicate = health_.duplicate + duplicates
        /\ health_'.out_of_order = health_.out_of_order + reorders
        /\ health_'.ft_stall = health_.ft_stall + stalls
        /\ health_'.ft_backward = health_.ft_backward + backwards
        /\ health_'.device_error = health_.device_error + errs
    BY <2>3, <2>a, <2>c, <2>d, <2>e, <2>f, <2>g, Zenon
  <2>n. /\ held \in Nat /\ offers \in Nat /\ duplicates \in Nat /\ reorders \in Nat
        /\ stalls \in Nat /\ backwards \in Nat /\ errs \in Nat
        /\ duplicates + reorders \in Nat /\ stalls + backwards \in Nat
    BY <2>a, <2>b, <2>c, <2>d, <2>e, <2>f, <2>g
  <2>7. /\ health_.delivered \in Nat /\ health_.rate_limited \in Nat
        /\ health_.callback_error \in Nat /\ health_.duplicate \in Nat
        /\ health_.out_of_order \in Nat /\ health_.ft_stall \in Nat
        /\ health_.ft_backward \in Nat /\ health_.device_error \in Nat
        /\ health_.received \in Nat
    BY <1>h, CountersNat, SMTT(30)
  <2>8. /\ Offered(health_) \in Nat
        /\ Offered(health_') = Offered(health_) + held
    <3>1. /\ health_.delivered \in Nat /\ health_.rate_limited \in Nat
          /\ health_.callback_error \in Nat
      BY <2>7, Zenon
    <3>2. /\ health_'.delivered = health_.delivered
          /\ health_'.rate_limited = health_.rate_limited + held
          /\ health_'.callback_error = health_.callback_error
      BY <2>6, Zenon
    <3> QED BY <2>a, <3>1, <3>2, SMTT(30) DEF Offered
  <2>9. /\ Unordered(health_) \in Nat
        /\ Unordered(health_') = Unordered(health_) + (duplicates + reorders)
    <3>1. health_.duplicate \in Nat /\ health_.out_of_order \in Nat
      BY <2>7, Zenon
    <3>2. /\ health_'.duplicate = health_.duplicate + duplicates
          /\ health_'.out_of_order = health_.out_of_order + reorders
      BY <2>6, Zenon
    <3>3. duplicates \in Nat /\ reorders \in Nat
      BY <2>n, Zenon
    <3> QED BY <3>1, <3>2, <3>3, SMTT(30) DEF Unordered
  <2>10. /\ Discontinuous(health_) \in Nat
         /\ Discontinuous(health_') = Discontinuous(health_) + (stalls + backwards)
    <3>1. health_.ft_stall \in Nat /\ health_.ft_backward \in Nat
      BY <2>7, Zenon
    <3>2. /\ health_'.ft_stall = health_.ft_stall + stalls
          /\ health_'.ft_backward = health_.ft_backward + backwards
      BY <2>6, Zenon
    <3>3. stalls \in Nat /\ backwards \in Nat
      BY <2>n, Zenon
    <3> QED BY <3>1, <3>2, <3>3, SMTT(30) DEF Discontinuous
  <2>11. /\ health_'.received = health_.received + 1
         /\ health_'.device_error = health_.device_error + errs
    BY <2>6, Zenon
  <2>12. Balanced(health_, 0)
    BY <2>2, ExplainedIsBalanced DEF RecordTypes
  <2>13. Balanced(health_', offers)
    BY <2>5, <2>n, <2>7, <2>8, <2>9, <2>10, <2>11, <2>12, BalanceKept, Zenon
  <2> QED
    <3>1. UNCHANGED deliver_samples_with_error_status
      BY <2>2 DEF deliver_samples_with_error_status
    <3>2. Balanced(health_, IF pending = NoSample THEN 0 ELSE 1)'
      BY <2>4, <2>b, <2>13 DEF Balanced
    <3> QED BY <3>2, ExplainedIsBalanced, PTL
<1>5. CASE CallbackReturns \/ CallbackThrows
  <2>1. /\ pending # NoSample /\ pending' = NoSample
        /\ UNCHANGED deliver_samples_with_error_status
    BY <1>5 DEF CallbackReturns, CallbackThrows, deliver_samples_with_error_status
  <2>2. /\ \A c \in Counters \ {"delivered", "callback_error"} : health_'[c] = health_[c]
        /\ health_'.delivered + health_'.callback_error
             = health_.delivered + health_.callback_error + 1
        /\ health_'.delivered \in Nat /\ health_'.callback_error \in Nat
    BY <1>5, <1>h, CountersNat DEF CallbackReturns, CallbackThrows, Counters
  <2>3. /\ health_'.rate_limited = health_.rate_limited
        /\ health_'.duplicate = health_.duplicate
        /\ health_'.out_of_order = health_.out_of_order
        /\ health_'.ft_stall = health_.ft_stall
        /\ health_'.ft_backward = health_.ft_backward
        /\ health_'.device_error = health_.device_error
        /\ health_'.received = health_.received
    BY <2>2 DEF Counters
  <2> QED BY <1>h, <2>1, <2>2, <2>3, CountersNat DEF Explained
<1>6. CASE UNCHANGED vars
  BY <1>6, <1>f DEF vars
<1> QED BY <1>1, <1>2, <1>3, <1>4, <1>5, <1>6 DEF Next

(* Whatever arrives, every record received is delivered, held back, failed *)
(* in the callback or counted as one that is not delivered, and never two  *)
(* of these that exclude each other.                                       *)
THEOREM EveryRecordExplained == Spec => []Explained
<1>1. Init => Explained
  BY DEF Init, Explained, Counters
<1> QED BY <1>1, ExplainedStep, TypesInvariant, PTL DEF Spec
-----------------------------------------------------------------------------
(* The records lost.                                                       *)

(* Records on the network are the last ones sent, in order: one of the     *)
(* sensor's stream is as far behind the sensor as it is from the end.      *)
NetInv ==
  /\ ~InSession => net = <<>> /\ requests = 0
  /\ Len(net) <= Window
  /\ \A i \in 1 .. Len(net) :
       /\ net[i].stream <= sensor.stream
       /\ net[i].stream = sensor.stream =>
            net[i].position + (Len(net) - i) = sensor.position

(* A record on the network is a record.                                    *)
LEMMA NetRecord ==
  ASSUME RecordTypes, NEW i \in 1 .. Len(net)
  PROVE  net[i].position \in Nat /\ net[i].stream \in Nat
<1>1. net[i] \in Record
  BY DEF RecordTypes
<1> QED BY <1>1 DEF Record

(* Sending a record keeps that.                                            *)
LEMMA NetSends == RecordTypes /\ NetInv /\ SensorSends => NetInv'
<1> SUFFICES ASSUME RecordTypes, NetInv, SensorSends PROVE NetInv'
  OBVIOUS
<1>1. PICK advance \in scenario.advances, status \in scenario.statuses :
        /\ sensor' = [sensor EXCEPT !.position = @ + 1, !.acquisition = @ + advance]
        /\ net' = LET record == [stream |-> sensor.stream,
                                 position |-> sensor'.position,
                                 acquisition |-> sensor'.acquisition,
                                 ft |-> sensor'.acquisition - sensor.booted_at,
                                 status |-> status]
                      sent == Append(net, record)
                  IN IF Len(sent) > Window THEN Tail(sent) ELSE sent
  BY Zenon DEF SensorSends
<1>2. /\ sensor'.position = sensor.position + 1 /\ sensor'.stream = sensor.stream
      /\ sensor.position \in Nat /\ sensor.stream \in Nat
  BY <1>1 DEF RecordTypes, Sensor
<1>3. PICK record : /\ record.stream = sensor.stream
                    /\ record.position = sensor.position + 1
                    /\ net' = IF Len(Append(net, record)) > Window
                              THEN Tail(Append(net, record)) ELSE Append(net, record)
  BY <1>1, <1>2
<1> DEFINE sent == Append(net, record)
           InOrderTo(q) == \A i \in 1 .. Len(q) :
                             /\ q[i].stream <= sensor.stream
                             /\ q[i].stream = sensor.stream =>
                                  q[i].position + (Len(q) - i) = sensor.position + 1
<1>4. net \in Seq(Record) /\ Len(net) \in Nat /\ Len(net) <= Window
  BY DEF RecordTypes, NetInv
<1>5. /\ Len(sent) = Len(net) + 1
      /\ \A i \in 1 .. Len(net) : sent[i] = net[i]
      /\ sent[Len(net) + 1] = record
  BY <1>4
<1> HIDE DEF sent
<1>6. InOrderTo(sent)
  <2> SUFFICES ASSUME NEW i \in 1 .. Len(sent)
               PROVE  /\ sent[i].stream <= sensor.stream
                      /\ sent[i].stream = sensor.stream =>
                           sent[i].position + (Len(sent) - i) = sensor.position + 1
    OBVIOUS
  <2>1. CASE i = Len(net) + 1
    BY <1>2, <1>3, <1>4, <1>5, <2>1
  <2>2. CASE i \in 1 .. Len(net)
    <3>1. /\ net[i].position \in Nat
          /\ net[i].stream <= sensor.stream
          /\ net[i].stream = sensor.stream =>
               net[i].position + (Len(net) - i) = sensor.position
      BY <2>2, NetRecord DEF NetInv
    <3>2. sent[i] = net[i] /\ Len(sent) - i = (Len(net) - i) + 1
      BY <1>4, <1>5, <2>2
    <3>3. Len(net) - i \in Nat
      BY <1>4, <2>2
    <3> QED BY <1>2, <3>1, <3>2, <3>3, SMTT(30)
  <2> QED BY <1>4, <1>5, <2>1, <2>2
<1>7. ASSUME Len(sent) > Window PROVE InOrderTo(Tail(sent)) /\ Len(Tail(sent)) = Len(net)
  <2>1. /\ Len(Tail(sent)) = Len(net)
        /\ \A i \in 1 .. Len(net) : Tail(sent)[i] = sent[i + 1]
    BY <1>4 DEF sent
  <2> QED BY <1>2, <1>4, <1>5, <1>6, <2>1
<1>8. InOrderTo(net') /\ Len(net') <= Window
  <2>1. Window \in Nat
    BY Halves
  <2>2. CASE Len(sent) > Window
    <3>1. net' = Tail(sent)
      BY <1>3, <2>2 DEF sent
    <3> QED BY <1>4, <1>7, <2>2, <3>1
  <2>3. CASE ~(Len(sent) > Window)
    <3>1. net' = sent
      BY <1>3, <2>3 DEF sent
    <3>2. Len(sent) <= Window
      BY <1>4, <1>5, <2>1, <2>3
    <3> QED BY <1>6, <3>1, <3>2
  <2> QED BY <2>2, <2>3
<1>9. InSession'
  BY DEF SensorSends, InSession
<1> QED BY <1>2, <1>8, <1>9 DEF NetInv

(* Every step keeps the order of the network.                              *)
LEMMA NetStep == RecordTypes /\ NetInv /\ [Next]_vars => NetInv'
<1> SUFFICES ASSUME RecordTypes, NetInv, [Next]_vars PROVE NetInv'
  OBVIOUS
<1>e. ASSUME SocketCloses PROVE NetInv'
  BY <1>e, Halves DEF SocketCloses, NetInv
<1>u. ASSUME UNCHANGED <<net, requests>>, InSession => InSession',
             /\ sensor'.position = sensor.position
             /\ sensor'.stream = sensor.stream
      PROVE  NetInv'
  BY <1>u DEF NetInv
<1> USE DEF trackerVars, sensorVars, sampleVars
<1>1. CASE SensorSends
  BY <1>1, NetSends
<1>2. CASE SensorReboots
  <2>1. /\ sensor'.position = sensor.position
        /\ sensor'.stream = sensor.stream
    BY <1>2 DEF SensorReboots, RecordTypes, Sensor
  <2> QED BY <1>2, <1>u, <2>1 DEF SensorReboots
<1>a. CASE SensorAcquires
  <2>1. /\ sensor'.position = sensor.position
        /\ sensor'.stream = sensor.stream
    BY <1>a, PauseTakesTime DEF RecordTypes
  <2> QED BY <1>a, <1>u, <2>1 DEF SensorAcquires
<1>3. CASE SensorRestartsStream \/ BeginSession
  <2>1. /\ StreamBegins /\ UNCHANGED net /\ InSession'
        /\ sensor \in Sensor /\ scenario \in Scenarios
    BY <1>3 DEF SensorRestartsStream, BeginSession, InSession, RecordTypes
  <2>2. CASE sensor' = sensor
    BY <2>1, <2>2 DEF NetInv
  <2>3. CASE sensor'.stream = sensor.stream + 1
    <3>1. \A i \in 1 .. Len(net) : net[i].stream < sensor'.stream
      <4> SUFFICES ASSUME NEW i \in 1 .. Len(net) PROVE net[i].stream < sensor'.stream
        OBVIOUS
      <4>1. net[i].stream \in Nat /\ sensor.stream \in Nat
        BY NetRecord DEF RecordTypes, Sensor
      <4>2. net[i].stream <= sensor.stream
        BY DEF NetInv
      <4> QED BY <2>3, <4>1, <4>2
    <3>2. \A i \in 1 .. Len(net) : net[i].stream \in Nat
      BY NetRecord
    <3>3. sensor'.stream \in Nat
      BY <2>3 DEF RecordTypes, Sensor
    <3> QED BY <2>1, <3>1, <3>2, <3>3 DEF NetInv
  <2> QED BY <2>1, <2>2, <2>3, StreamBeginsLater
<1>4. CASE Start \/ Backoff \/ Bias
  BY <1>4, <1>u DEF Start, Backoff, Bias, InSession, NetInv
<1>5. CASE Stop \/ ConnectFails \/ ReceiveFails
  BY <1>5, <1>e, SessionEnds, Zenon DEF Stop, ConnectFails, ReceiveFails
<1>6. CASE ReceiveMalformed
  BY <1>6, <1>e, <1>u, SessionEnds DEF ReceiveMalformed, InSession
<1>7. CASE ReceiveRecord
  <2>1. PICK i \in 1 .. Len(net), limited \in BOOLEAN : HandleRecord(net[i], limited)
    BY <1>7, ReceiveTakes DEF RecordTypes
  <2>2. /\ UNCHANGED sensor
        /\ \/ SocketCloses
           \/ UNCHANGED <<net, requests>> /\ phase' = "streaming"
    BY <2>1, RecordEffect, Zenon
  <2> QED BY <1>e, <1>u, <2>2 DEF InSession
<1>8. CASE CallbackReturns \/ CallbackThrows
  <2>1. /\ UNCHANGED sensor
        /\ SocketCloses \/ UNCHANGED <<phase, net, requests>>
    BY <1>8, SessionEnds DEF CallbackReturns, CallbackThrows, SessionGoesOn
  <2> QED BY <1>e, <1>u, <2>1 DEF InSession
<1>9. CASE UNCHANGED vars
  BY <1>9, <1>u DEF vars, InSession
<1> QED BY <1>1, <1>a, <1>2, <1>3, <1>4, <1>5, <1>6, <1>7, <1>8, <1>9 DEF Next
(* While no record of an earlier stream was taken, the tracker's baseline  *)
(* is a record of the sensor's stream, less than half a word behind.       *)
LossInv ==
  ~mixed /\ rdt_sequence_.has_last =>
    /\ requests = 0
    /\ seen.stream = sensor.stream
    /\ rdt_sequence_.previous = seen.position % Modulus
    /\ seen.position <= sensor.position
    /\ sensor.position < seen.position + Half

(* A record taken keeps the baseline and counts what it passes over.       *)
LEMMA LossRecord ==
  ASSUME RecordTypes, NetInv, LossInv, LostExact, ReceiveRecord
  PROVE  LossInv' /\ LostExact'
<1>1. PICK i \in 1 .. Len(net), limited \in BOOLEAN : HandleRecord(net[i], limited)
  BY ReceiveTakes DEF RecordTypes
<1> DEFINE record == net[i]
           rdt == record.position % Modulus
           kind == RdtKind(rdt_sequence_, rdt)
           gap == IF kind = "Gap" THEN Gap(rdt_sequence_, rdt) ELSE 0
<1>2. /\ record.position \in Nat /\ record.stream \in Nat
      /\ seen.position \in Nat /\ sensor.position \in Nat
      /\ skipped \in Nat /\ health_ \in [Counters -> Nat]
      /\ Half \in Nat /\ Window \in Nat /\ Window < Half
  BY NetRecord, Halves DEF RecordTypes, Place, Sensor
<1>3. record.stream = sensor.stream =>
        /\ record.position <= sensor.position
        /\ sensor.position < record.position + Window
  <2>1. /\ Len(net) \in Nat /\ Len(net) <= Window
        /\ net[i].stream = sensor.stream =>
             net[i].position + (Len(net) - i) = sensor.position
    BY DEF NetInv, RecordTypes
  <2>2. PICK behind \in Nat : behind = Len(net) - i /\ behind < Window
    BY <1>2, <2>1
  <2> QED BY <1>2, <2>1, <2>2, SMTT(30)
<1>4. /\ rdt_sequence_' = RdtNext(rdt_sequence_, rdt)
      /\ health_'["lost"] = health_["lost"] + gap
      /\ Observe(record)
      /\ UNCHANGED sensor
      /\ requests' = 0 \/ UNCHANGED requests
  BY <1>1, <1>2, RecordEffect, ZenonT(40) DEF RdtKindOf, SocketCloses, Counters
<1> HIDE DEF record
<1> SUFFICES ASSUME ~mixed' PROVE LossInv' /\ LostExact'
  BY DEF LossInv, LostExact
<1>5. ~mixed /\ requests = 0 /\ record.stream = sensor.stream
  <2>1. ~mixed /\ ~(requests > 0) /\ record.stream = sensor.stream
    BY <1>4, Zenon DEF Observe
  <2> QED BY <2>1 DEF RecordTypes
<1>6. requests' = 0
  BY <1>4, <1>5
<1>7. /\ record.position <= sensor.position
      /\ sensor.position < record.position + Window
      /\ sensor.position < record.position + Half
  BY <1>2, <1>3, <1>5
<1>8. health_["lost"] = skipped
  BY <1>5 DEF LostExact
<1>t. ASSUME kind \notin {"Duplicate", "OutOfOrder"} PROVE LossInv'
  <2>1. rdt_sequence_' = [has_last |-> TRUE, previous |-> rdt]
    BY <1>4, <1>t DEF RdtNext
  <2>2. seen' = [stream |-> record.stream, position |-> record.position]
    BY <1>4, <1>t, SMTT(30) DEF Observe, InOrder, RdtKindOf
  <2> QED BY <1>4, <1>5, <1>6, <1>7, <2>1, <2>2 DEF LossInv
<1>9. CASE ~rdt_sequence_.has_last
  <2>1. kind = "First"
    BY <1>9 DEF RdtKind
  <2>2. skipped' = skipped
    BY <1>4, <1>9 DEF Observe
  <2> QED BY <1>2, <1>4, <1>8, <1>t, <2>1, <2>2, SMTT(30) DEF LostExact, Counters
<1>10. CASE rdt_sequence_.has_last
  <2>1. /\ rdt_sequence_.has_last = TRUE
        /\ seen.stream = sensor.stream
        /\ rdt_sequence_.previous = seen.position % Modulus
        /\ seen.position <= sensor.position
        /\ sensor.position < seen.position + Half
    BY <1>5, <1>10 DEF LossInv, RecordTypes, Tracker
  <2>2. record.position < seen.position + Half /\ seen.position < record.position + Half
    BY <1>2, <1>7, <2>1
  <2>3. /\ record.position = seen.position => kind = "Duplicate"
        /\ record.position < seen.position => kind = "OutOfOrder"
        /\ record.position = seen.position + 1 => kind = "Contiguous"
        /\ record.position > seen.position + 1 =>
             /\ kind = "Gap"
             /\ Gap(rdt_sequence_, rdt) = record.position - seen.position - 1
    BY <1>2, <2>1, <2>2, TrackerClassifies, Zenon
  <2>4. skipped' = IF record.position > seen.position
                   THEN skipped + record.position - seen.position - 1 ELSE skipped
    BY <1>4, <1>5, <1>10, <2>1 DEF Observe
  <2> HIDE DEF kind, rdt
  <2>5. CASE record.position <= seen.position
    <3>1. kind \in {"Duplicate", "OutOfOrder"}
      BY <1>2, <2>3, <2>5
    <3>2. UNCHANGED <<rdt_sequence_, seen>>
      BY <1>4, <3>1 DEF RdtNext, kind, Observe, InOrder, RdtKindOf, rdt
    <3>3. gap = 0 /\ skipped' = skipped
      BY <1>2, <2>4, <2>5, <3>1
    <3> QED BY <1>2, <1>4, <1>6, <1>8, <2>1, <3>2, <3>3, SMTT(30) DEF LossInv, LostExact, Counters
  <2>6. CASE record.position > seen.position
    <3>1. /\ kind \notin {"Duplicate", "OutOfOrder"}
          /\ gap = record.position - seen.position - 1
      BY <1>2, <2>3, <2>6
    <3> QED BY <1>2, <1>4, <1>8, <1>t, <2>4, <2>6, <3>1 DEF LostExact
  <2> QED BY <1>2, <2>5, <2>6
<1> QED BY <1>9, <1>10

(* Every step keeps both.                                                  *)
LEMMA LossStep ==
  RecordTypes /\ NetInv /\ LossInv /\ LostExact /\ [Next]_vars => LossInv' /\ LostExact'
<1> SUFFICES ASSUME RecordTypes, NetInv, LossInv, LostExact, [Next]_vars
             PROVE  LossInv' /\ LostExact'
  OBVIOUS
<1>f. ASSUME UNCHANGED <<mixed, skipped>>, health_'.lost = health_.lost
      PROVE  LostExact'
  BY <1>f DEF LostExact
<1>g. ASSUME UNCHANGED <<rdt_sequence_, seen, mixed>>,
             requests' = 0 \/ UNCHANGED requests,
             /\ sensor'.position = sensor.position
             /\ sensor'.stream = sensor.stream
      PROVE  LossInv'
  BY <1>g DEF LossInv
<1>r. ASSUME rdt_sequence_' = RdtReset(rdt_sequence_) PROVE LossInv'
  <2>1. rdt_sequence_'.has_last = FALSE
    BY <1>r DEF RdtReset, RecordTypes, Tracker
  <2> QED BY <2>1 DEF LossInv
<1>h. health_ \in [Counters -> Nat]
  BY DEF RecordTypes
<1> USE DEF trackerVars, sensorVars, sampleVars
<1>1. CASE SensorSends
  <2>1. /\ sensor'.position = sensor.position + 1 /\ sensor'.stream = sensor.stream
        /\ sensor.position \in Nat /\ seen.position \in Nat
    BY <1>1 DEF SensorSends, RecordTypes, Sensor, Place
  <2>2. /\ UNCHANGED <<rdt_sequence_, seen, mixed, skipped, health_, requests>>
        /\ rdt_sequence_.has_last /\ seen.stream = sensor.stream =>
             sensor.position + 1 < seen.position + Half
    BY <1>1, Zenon DEF SensorSends
  <2>3. LossInv'
    BY <2>1, <2>2, Halves DEF LossInv
  <2> QED BY <1>f, <2>2, <2>3
<1>2. CASE SensorReboots
  <2>1. /\ sensor'.position = sensor.position
        /\ sensor'.stream = sensor.stream
    BY <1>2 DEF SensorReboots, RecordTypes, Sensor
  <2> QED BY <1>2, <1>f, <1>g, <2>1 DEF SensorReboots
<1>a. CASE SensorAcquires
  <2>1. /\ sensor'.position = sensor.position
        /\ sensor'.stream = sensor.stream
    BY <1>a, PauseTakesTime DEF RecordTypes
  <2> QED BY <1>a, <1>f, <1>g, <2>1 DEF SensorAcquires
<1>3. CASE SensorRestartsStream
  <2>1. requests # 0
    BY <1>3 DEF SensorRestartsStream, RecordTypes
  <2>2. UNCHANGED <<rdt_sequence_, mixed, skipped, health_>>
    BY <1>3, Zenon DEF SensorRestartsStream
  <2> QED BY <1>f, <2>1, <2>2 DEF LossInv
<1>4. CASE Start \/ Backoff
  BY <1>4, <1>f, <1>g DEF Start, Backoff
<1>5. CASE Stop \/ ReceiveFails
  BY <1>5, <1>f, <1>g, SessionEnds DEF Stop, ReceiveFails
<1>6. CASE ReceiveMalformed
  BY <1>6, <1>f, <1>g, SessionEnds DEF ReceiveMalformed
<1>7. CASE Bias
  BY <1>7, <1>f, <1>r DEF Bias
<1>8. CASE BeginSession \/ ConnectFails
  <2>1. /\ UNCHANGED <<mixed, skipped>>
        /\ \/ UNCHANGED health_
           \/ \E calibration \in scenario.calibrations : ApplyConfiguration(calibration)
    BY <1>8, Zenon DEF BeginSession, ConnectFails
  <2>2. health_'.lost = health_.lost
    BY <1>h, <2>1, ConfigurationCounters DEF Counters
  <2>3. LossInv'
    BY <1>8, <1>g, <1>r, SessionEnds DEF BeginSession, ConnectFails
  <2> QED BY <1>f, <2>1, <2>2, <2>3
<1>9. CASE ReceiveRecord
  BY <1>9, LossRecord
<1>10. CASE CallbackReturns \/ CallbackThrows
  <2>1. /\ UNCHANGED <<sensor, mixed, skipped, rdt_sequence_, seen>>
        /\ requests' = 0 \/ UNCHANGED requests
    BY <1>10, SessionEnds DEF CallbackReturns, CallbackThrows, SessionGoesOn
  <2>2. health_'.lost = health_.lost
    BY <1>10, <1>h DEF CallbackReturns, CallbackThrows, Counters
  <2> QED BY <1>f, <1>g, <2>1, <2>2
<1>11. CASE UNCHANGED vars
  BY <1>11, <1>f, <1>g DEF vars
<1> QED BY <1>1, <1>a, <1>2, <1>3, <1>4, <1>5, <1>6, <1>7, <1>8, <1>9, <1>10, <1>11 DEF Next

(* lost_count is exact: for every word size and Window, over wrap-around,  *)
(* loss, repetition, reordering, reconnects and bias(), it is the number   *)
(* of records passed over, as long as no record sent before bias() comes   *)
(* after it.                                                               *)
THEOREM LostCountExact == Spec => []LostExact
<1>1. Init => NetInv /\ LossInv /\ LostExact
  BY Halves DEF Init, NetInv, LossInv, LostExact, RdtNew, Counters
<1>2. RecordTypes /\ NetInv /\ LossInv /\ LostExact /\ [Next]_vars
        => NetInv' /\ LossInv' /\ LostExact'
  BY NetStep, LossStep, SMTT(30)
<1> QED BY <1>1, <1>2, TypesInvariant, PTL DEF Spec

-----------------------------------------------------------------------------
(* The samples delivered.                                                  *)

FtTracker == [has_last : BOOLEAN, previous : Word,
              has_restart_candidate : BOOLEAN, restart_candidate : Word]

(* The FT tracker takes a number as its baseline, or drops the record.     *)
LEMMA FtTakesOrDrops ==
  ASSUME NEW t \in FtTracker, NEW current \in Word
  PROVE  /\ FtNext(t, current) \in FtTracker
         /\ \/ /\ FtKind(t, current) \in {"First", "Forward", "Restart"}
               /\ FtNext(t, current).has_last /\ FtNext(t, current).previous = current
            \/ /\ FtKind(t, current) \in {"Stall", "Backward"}
               /\ FtNext(t, current).has_last /\ FtNext(t, current).previous = t.previous
         /\ FtKind(t, current) = "First" <=> ~t.has_last
         /\ FtKind(t, current) = "Forward" => Ahead(current, t.previous)
<1>0. /\ t.has_last \in BOOLEAN /\ t.previous \in Word
      /\ t.has_restart_candidate \in BOOLEAN /\ t.restart_candidate \in Word
  BY DEF FtTracker
<1>1. CASE ~t.has_last
  <2>1. FtKind(t, current) = "First"
    BY <1>1 DEF FtKind
  <2>2. FtNext(t, current) = [t EXCEPT !.has_last = TRUE, !.previous = current]
    BY <2>1 DEF FtNext
  <2> QED BY <1>1, <2>1, <2>2, Zenon DEF FtTracker
<1>2. CASE t.has_last /\ current = t.previous
  <2>1. FtKind(t, current) = "Stall"
    <3>1. ~Ahead(current, t.previous)
      BY <1>2 DEF Ahead
    <3> QED BY <1>2, <3>1 DEF FtKind
  <2>2. FtNext(t, current) = [t EXCEPT !.has_restart_candidate = FALSE]
    BY <2>1 DEF FtNext
  <2> QED BY <1>2, <2>1, <2>2, Zenon DEF FtTracker
<1>3. CASE t.has_last /\ Ahead(current, t.previous)
  <2>0. current # t.previous
    BY <1>3 DEF Ahead
  <2>1. FtKind(t, current) = "Forward"
    BY <1>3, <2>0 DEF FtKind
  <2>2. FtNext(t, current) =
          [t EXCEPT !.previous = current, !.has_restart_candidate = FALSE]
    BY <2>1 DEF FtNext
  <2> QED BY <1>3, <2>1, <2>2, Zenon DEF FtTracker
<1>4. CASE t.has_last /\ current # t.previous /\ ~Ahead(current, t.previous)
  <2>1. FtKind(t, current) = IF ConfirmsRestart(t, current) THEN "Restart" ELSE "Backward"
    BY <1>4 DEF FtKind
  <2>2. CASE FtKind(t, current) = "Restart"
    <3>1. FtNext(t, current) =
            [t EXCEPT !.previous = current, !.has_restart_candidate = FALSE]
      BY <2>2 DEF FtNext
    <3> QED BY <1>4, <2>2, <3>1, Zenon DEF FtTracker
  <2>3. CASE FtKind(t, current) = "Backward"
    <3>1. FtNext(t, current) =
            [t EXCEPT !.has_restart_candidate = TRUE, !.restart_candidate = current]
      BY <2>3 DEF FtNext
    <3> QED BY <1>4, <2>3, <3>1, Zenon DEF FtTracker
  <2> QED BY <2>1, <2>2, <2>3
<1> QED BY <1>1, <1>2, <1>3, <1>4

(* Records on the network were acquired since the sensor booted, and none  *)
(* is more than MaxAdvance acquisitions per later record behind it.        *)
AgeInv ==
  /\ sensor.booted_at > 0 /\ sensor.booted_at <= sensor.acquisition
  /\ \A i \in 1 .. Len(net) :
       /\ net[i].acquisition <= sensor.acquisition
       /\ sensor.acquisition <= net[i].acquisition + MaxAdvance * (Len(net) - i)
       /\ sensor.booted_at <= net[i].acquisition
       /\ net[i].ft = net[i].acquisition - sensor.booted_at

(* The acquisition of the last sample offered to the callback.             *)
Latest == IF pending = NoSample THEN last_acquisition ELSE pending.acquisition

(* The FT baseline is, unless the sensor has rebooted since, the number of *)
(* an acquisition that is no earlier than the last sample.                 *)
FreshInv ==
  /\ ft_sequence_ \in FtTracker
  /\ last_acquisition \in Nat /\ Latest \in Nat /\ Latest <= sensor.acquisition
  /\ DeliveredFresh
  /\ ~ft_sequence_.has_last => Latest = 0
  /\ Latest >= sensor.booted_at =>
       \E a \in sensor.booted_at .. sensor.acquisition :
         Latest <= a /\ ft_sequence_.previous = (a - sensor.booted_at) % Modulus

(* The fields of a record on the network and of the sensor that count      *)
(* acquisitions.                                                           *)
LEMMA AgeTypes ==
  ASSUME RecordTypes
  PROVE  /\ sensor.acquisition \in Nat /\ sensor.booted_at \in Nat
         /\ net \in Seq(Record) /\ Len(net) \in Nat
         /\ \A i \in 1 .. Len(net) : net[i].acquisition \in Nat
<1>1. \A i \in 1 .. Len(net) : net[i] \in Record
  BY DEF RecordTypes
<1>2. \A r \in Record : r.acquisition \in Nat
  BY DEF Record
<1>3. sensor.acquisition \in Nat /\ sensor.booted_at \in Nat
  BY DEF RecordTypes, Sensor
<1> QED BY <1>1, <1>2, <1>3 DEF RecordTypes

(* Sending a record keeps the ages.                                        *)
LEMMA AgeSends == RecordTypes /\ NetInv /\ AgeInv /\ SensorSends => AgeInv'
<1> SUFFICES ASSUME RecordTypes, NetInv, AgeInv, SensorSends PROVE AgeInv'
  OBVIOUS
<1>1. PICK advance \in scenario.advances, status \in scenario.statuses :
        /\ sensor' = [sensor EXCEPT !.position = @ + 1, !.acquisition = @ + advance]
        /\ net' = LET record == [stream |-> sensor.stream,
                                 position |-> sensor'.position,
                                 acquisition |-> sensor'.acquisition,
                                 ft |-> sensor'.acquisition - sensor.booted_at,
                                 status |-> status]
                      sent == Append(net, record)
                  IN IF Len(sent) > Window THEN Tail(sent) ELSE sent
  BY Zenon DEF SensorSends
<1>2. /\ sensor'.acquisition = sensor.acquisition + advance
      /\ sensor'.booted_at = sensor.booted_at
      /\ advance \in 0 .. MaxAdvance /\ MaxAdvance \in Nat
  BY <1>1, EnvironmentBounds, SMTT(30) DEF RecordTypes, Sensor, Scenario
<1>3. PICK record : /\ record.acquisition = sensor.acquisition + advance
                    /\ record.ft = record.acquisition - sensor.booted_at
                    /\ net' = IF Len(Append(net, record)) > Window
                              THEN Tail(Append(net, record)) ELSE Append(net, record)
  BY <1>1, <1>2
<1> DEFINE sent == Append(net, record)
           latest == sensor.acquisition + advance
           AgedIn(q) == \A i \in 1 .. Len(q) :
                          /\ q[i].acquisition \in Nat
                          /\ q[i].acquisition <= latest
                          /\ latest <= q[i].acquisition + MaxAdvance * (Len(q) - i)
                          /\ sensor.booted_at <= q[i].acquisition
                          /\ q[i].ft = q[i].acquisition - sensor.booted_at
<1>4. /\ sensor.acquisition \in Nat /\ sensor.booted_at \in Nat
      /\ net \in Seq(Record) /\ Len(net) \in Nat
      /\ \A i \in 1 .. Len(net) : net[i].acquisition \in Nat
  BY AgeTypes
<1>5. /\ Len(sent) = Len(net) + 1
      /\ \A i \in 1 .. Len(net) : sent[i] = net[i]
      /\ sent[Len(net) + 1] = record
  BY <1>4, SMTT(30)
<1> HIDE DEF sent
<1>6. AgedIn(sent)
  <2> SUFFICES ASSUME NEW i \in 1 .. Len(sent)
               PROVE  /\ sent[i].acquisition \in Nat
                      /\ sent[i].acquisition <= latest
                      /\ latest <= sent[i].acquisition + MaxAdvance * (Len(sent) - i)
                      /\ sensor.booted_at <= sent[i].acquisition
                      /\ sent[i].ft = sent[i].acquisition - sensor.booted_at
    OBVIOUS
  <2>1. CASE i = Len(net) + 1
    <3>1. sent[i] = record /\ Len(sent) - i = 0
      BY <1>4, <1>5, <2>1
    <3> QED BY <1>2, <1>3, <1>4, <3>1, SMTT(30) DEF AgeInv
  <2>2. CASE i \in 1 .. Len(net)
    <3>1. sent[i] = net[i] /\ Len(sent) - i = (Len(net) - i) + 1 /\ Len(net) - i \in Nat
      BY <1>4, <1>5, <2>2
    <3>2. /\ net[i].acquisition \in Nat
          /\ net[i].acquisition <= sensor.acquisition
          /\ sensor.acquisition <= net[i].acquisition + MaxAdvance * (Len(net) - i)
          /\ sensor.booted_at <= net[i].acquisition
          /\ net[i].ft = net[i].acquisition - sensor.booted_at
      BY <1>4, <2>2 DEF AgeInv
    <3>3. ASSUME NEW age \in Nat, NEW acquired \in Nat,
                 sensor.acquisition <= acquired + MaxAdvance * age
          PROVE  latest <= acquired + MaxAdvance * (age + 1)
      <4>1. MaxAdvance * (age + 1) = MaxAdvance * age + MaxAdvance /\ MaxAdvance * age \in Nat
        BY <1>2, <3>3
      <4>2. \A step, product, sum, bound \in Nat :
               /\ step <= MaxAdvance /\ sum <= acquired + product
               /\ bound = product + MaxAdvance
               => sum + step <= acquired + bound
        BY <1>2, <3>3
      <4>3. advance \in Nat /\ advance <= MaxAdvance /\ MaxAdvance * (age + 1) \in Nat
        BY <1>2, <4>1
      <4> QED BY <1>4, <3>3, <4>1, <4>2, <4>3, Zenon
    <3>4. latest <= net[i].acquisition + MaxAdvance * (Len(sent) - i)
      BY <3>1, <3>2, <3>3, Zenon
    <3>5. net[i].acquisition <= latest
      BY <1>2, <1>4, <3>2, SMTT(30)
    <3> QED BY <3>1, <3>2, <3>4, <3>5, SMTT(30)
  <2> QED BY <1>4, <1>5, <2>1, <2>2
<1>7. AgedIn(Tail(sent))
  <2>1. /\ Len(Tail(sent)) = Len(net)
        /\ \A i \in 1 .. Len(net) : Tail(sent)[i] = sent[i + 1]
    BY <1>4 DEF sent
  <2> SUFFICES ASSUME NEW i \in 1 .. Len(net)
               PROVE  /\ sent[i + 1].acquisition \in Nat
                      /\ sent[i + 1].acquisition <= latest
                      /\ latest <= sent[i + 1].acquisition + MaxAdvance * (Len(net) - i)
                      /\ sensor.booted_at <= sent[i + 1].acquisition
                      /\ sent[i + 1].ft = sent[i + 1].acquisition - sensor.booted_at
    BY <2>1, Zenon
  <2>2. i + 1 \in 1 .. Len(sent) /\ Len(sent) - (i + 1) = Len(net) - i
    BY <1>4, <1>5
  <2> QED BY <1>6, <2>2, Zenon
<1>8. AgedIn(net')
  <2>1. net' = sent \/ net' = Tail(sent)
    BY <1>3 DEF sent
  <2> QED BY <1>6, <1>7, <2>1, Zenon
<1> QED BY <1>2, <1>4, <1>8 DEF AgeInv

(* Every step keeps the ages.                                              *)
LEMMA AgeStep == RecordTypes /\ NetInv /\ AgeInv /\ [Next]_vars => AgeInv'
<1> SUFFICES ASSUME RecordTypes, NetInv, AgeInv, [Next]_vars PROVE AgeInv'
  OBVIOUS
<1>e. ASSUME net' = <<>>, sensor'.booted_at > 0, sensor'.booted_at <= sensor'.acquisition
      PROVE  AgeInv'
  BY <1>e DEF AgeInv
<1>u. ASSUME net' = net \/ net' = <<>>,
             /\ sensor'.acquisition = sensor.acquisition
             /\ sensor'.booted_at = sensor.booted_at
      PROVE  AgeInv'
  <2>1. CASE net' = net
    BY <1>u, <2>1 DEF AgeInv
  <2>2. CASE net' = <<>>
    BY <1>u, <2>2 DEF AgeInv
  <2> QED BY <1>u, <2>1, <2>2
<1> USE DEF trackerVars, sensorVars, sampleVars
<1>1. CASE SensorSends
  BY <1>1, AgeSends
<1>2. CASE SensorReboots
  <2>1. /\ sensor'.acquisition = sensor.acquisition + 1
        /\ sensor'.booted_at = sensor.acquisition + 1
        /\ sensor.acquisition \in Nat
    BY <1>2 DEF SensorReboots, RecordTypes, Sensor
  <2>2. net' = <<>>
    BY <1>2 DEF SensorReboots, NetInv
  <2> QED BY <1>e, <2>1, <2>2
<1>a. CASE SensorAcquires
  <2>1. /\ sensor'.acquisition >= sensor.acquisition /\ sensor'.booted_at = sensor.booted_at
        /\ sensor'.acquisition \in Nat /\ sensor.acquisition \in Nat /\ sensor.booted_at \in Nat
    BY <1>a, PauseTakesTime DEF RecordTypes, Sensor
  <2>2. net' = <<>>
    BY <1>a DEF SensorAcquires, NetInv
  <2>3. sensor.booted_at > 0 /\ sensor.booted_at <= sensor.acquisition
    BY DEF AgeInv
  <2> QED BY <1>e, <2>1, <2>2, <2>3
<1>3. CASE SensorRestartsStream \/ BeginSession
  <2>1. StreamBegins /\ UNCHANGED net /\ sensor \in Sensor
    BY <1>3, SMTT(30) DEF SensorRestartsStream, BeginSession, RecordTypes
  <2>2. /\ sensor'.acquisition = sensor.acquisition
        /\ sensor'.booted_at = sensor.booted_at
    BY <2>1, Zenon DEF StreamBegins, Sensor
  <2> QED BY <1>u, <2>1, <2>2
<1>4. CASE Start \/ Backoff \/ Bias
  BY <1>4, <1>u DEF Start, Backoff, Bias
<1>5. CASE Stop \/ ConnectFails \/ ReceiveFails
  BY <1>5, <1>u, SessionEnds, Zenon DEF Stop, ConnectFails, ReceiveFails
<1>6. CASE ReceiveMalformed
  BY <1>6, <1>u, SessionEnds DEF ReceiveMalformed
<1>7. CASE ReceiveRecord
  <2>1. PICK i \in 1 .. Len(net), limited \in BOOLEAN : HandleRecord(net[i], limited)
    BY <1>7, ReceiveTakes DEF RecordTypes
  <2>2. UNCHANGED sensor /\ (SocketCloses \/ UNCHANGED net)
    BY <2>1, RecordEffect, Zenon
  <2> QED BY <1>u, <2>2, SessionEnds
<1>8. CASE CallbackReturns \/ CallbackThrows
  <2>1. UNCHANGED sensor /\ (SocketCloses \/ UNCHANGED net)
    BY <1>8, SessionEnds DEF CallbackReturns, CallbackThrows, SessionGoesOn
  <2> QED BY <1>u, <2>1, SessionEnds
<1>9. CASE UNCHANGED vars
  BY <1>9, <1>u DEF vars
<1> QED BY <1>1, <1>a, <1>2, <1>3, <1>4, <1>5, <1>6, <1>7, <1>8, <1>9 DEF Next

(* A late record is never taken for a new one: of two numbers of the same  *)
(* boot, one that is less than half a word behind the other is not ahead.  *)
LEMMA LateIsNotAhead ==
  ASSUME NEW a \in Nat, NEW b \in Nat, a <= b, b < a + Half
  PROVE  ~Ahead(a % Modulus, b % Modulus)
<1> USE Halves
<1>1. Minus(a % Modulus, b % Modulus) = IF b = a THEN 0 ELSE Modulus + a - b
  <2>1. b < a + Modulus
    OBVIOUS
  <2> QED BY <2>1, WrappedDifference, Zenon
<1>2. CASE a = b
  BY <1>2 DEF Ahead
<1>3. CASE a # b
  BY <1>1, <1>3 DEF Ahead
<1> QED BY <1>2, <1>3

(* What handling a record does to the FT tracker and the samples.          *)
LEMMA FtRecordEffect ==
  ASSUME NEW record, NEW limited \in BOOLEAN, HandleRecord(record, limited)
  PROVE  /\ ft_sequence_' = FtNext(ft_sequence_, record.ft % Modulus)
         /\ last_acquisition' = IF FtKindOf(record) = "Restart" THEN 0 ELSE last_acquisition
         /\ \/ pending' = NoSample
            \/ /\ FtKindOf(record) \notin {"Stall", "Backward"}
               /\ pending' = [outcome |-> Outcome(record),
                              acquisition |-> record.acquisition,
                              configuration |-> sensor_configuration]
<1>1. /\ ft_sequence_' = FtNext(ft_sequence_, record.ft % Modulus)
      /\ last_acquisition' = IF FtKindOf(record) = "Restart" THEN 0 ELSE last_acquisition
      /\ pending' = IF Deliver(record) /\ ~limited
                    THEN [outcome |-> Outcome(record),
                          acquisition |-> record.acquisition,
                          configuration |-> sensor_configuration]
                    ELSE NoSample
  BY Zenon DEF HandleRecord
<1>2. Deliver(record) => FtKindOf(record) \notin {"Stall", "Backward"}
  BY DEF Deliver, FtDiscontinuity
<1> QED BY <1>1, <1>2, Zenon

(* A record that is handled keeps it.                                      *)
LEMMA FreshRecord ==
  ASSUME RecordTypes, NetInv, AgeInv, FreshInv, ReceiveRecord
  PROVE  FreshInv'
<1>1. PICK i \in 1 .. Len(net), limited \in BOOLEAN : HandleRecord(net[i], limited)
  BY ReceiveTakes DEF RecordTypes
<1> DEFINE record == net[i]
           booted == sensor.booted_at
           taken == record.acquisition
           number == record.ft % Modulus
<1>2. /\ taken \in Nat /\ booted \in Nat /\ booted > 0 /\ booted <= taken
      /\ taken <= sensor.acquisition /\ sensor.acquisition \in Nat
      /\ sensor.acquisition < taken + Half
      /\ record.ft = taken - booted /\ taken - booted \in Nat
  <2>1. /\ sensor.acquisition \in Nat /\ booted \in Nat /\ Len(net) \in Nat
        /\ taken \in Nat /\ Len(net) <= Window
    BY AgeTypes, SMTT(30) DEF NetInv
  <2>2. /\ booted > 0 /\ booted <= taken /\ taken <= sensor.acquisition
        /\ sensor.acquisition <= taken + MaxAdvance * (Len(net) - i)
        /\ record.ft = taken - booted
    BY DEF AgeInv
  <2> HIDE DEF record, booted, taken
  <2>3. MaxAdvance * (Len(net) - i) \in Nat /\ MaxAdvance * (Len(net) - i) < Half
    <3>1. \A a, b, m \in Nat : a <= b => m * a \in Nat /\ m * a <= m * b
      OBVIOUS
    <3>2. Len(net) - i \in Nat /\ Len(net) - i <= Window
      BY <2>1, Halves
    <3> QED BY <3>1, <3>2, EnvironmentBounds, Halves
  <2> QED BY <2>1, <2>2, <2>3, Halves, SMTT(30)
<1>3. /\ ft_sequence_' = FtNext(ft_sequence_, number)
      /\ last_acquisition' = IF FtKindOf(record) = "Restart" THEN 0 ELSE last_acquisition
      /\ \/ pending' = NoSample
         \/ /\ FtKindOf(record) \notin {"Stall", "Backward"}
            /\ pending' = [outcome |-> Outcome(record), acquisition |-> taken,
                           configuration |-> sensor_configuration]
      /\ FtKindOf(record) = FtKind(ft_sequence_, number)
  BY <1>1, FtRecordEffect, Zenon DEF FtKindOf
<1>4. UNCHANGED sensor
  BY <1>1, RecordEffect, Zenon
<1>5. pending = NoSample /\ Latest = last_acquisition
  BY ReceiveTakes DEF RecordTypes, Latest
<1> HIDE DEF record, booted, taken
<1>6. number \in Word /\ ft_sequence_ \in FtTracker
  BY <1>2, Halves, SMTT(30) DEF Word, FreshInv
<1> DEFINE kind == FtKind(ft_sequence_, number)
<1>7. /\ ft_sequence_' \in FtTracker
      /\ \/ /\ kind \in {"First", "Forward", "Restart"}
            /\ ft_sequence_'.has_last /\ ft_sequence_'.previous = number
         \/ /\ kind \in {"Stall", "Backward"}
            /\ ft_sequence_'.has_last /\ ft_sequence_'.previous = ft_sequence_.previous
      /\ kind = "First" => ~ft_sequence_.has_last
      /\ kind = "Forward" => Ahead(number, ft_sequence_.previous)
  BY <1>3, <1>6, FtTakesOrDrops, Zenon
<1> HIDE DEF kind
<1>8. CASE kind \in {"Stall", "Backward"}
  <2>1. pending' = NoSample /\ last_acquisition' = last_acquisition
    BY <1>3, <1>8 DEF kind
  <2>2. Latest' = Latest
    BY <1>5, <2>1 DEF Latest
  <2>3. ft_sequence_'.has_last /\ ft_sequence_'.previous = ft_sequence_.previous
    BY <1>7, <1>8
  <2> HIDE DEF Latest
  <2> QED BY <1>4, <1>7, <2>1, <2>2, <2>3 DEF FreshInv, DeliveredFresh
<1>9. CASE kind \in {"First", "Forward", "Restart"}
  <2>1. last_acquisition' \in Nat /\ last_acquisition' < taken
    <3>1. CASE kind = "First"
      <4>1. last_acquisition = 0 /\ last_acquisition' = last_acquisition
        BY <1>3, <1>5, <1>7, <3>1 DEF FreshInv, kind
      <4> QED BY <1>2, <4>1, SMTT(30)
    <3>2. CASE kind = "Restart"
      BY <1>2, <1>3, <3>2 DEF kind
    <3>3. CASE kind = "Forward"
      <4>1. last_acquisition' = last_acquisition /\ last_acquisition \in Nat
        BY <1>3, <3>3 DEF kind, FreshInv
      <4>2. CASE last_acquisition < booted
        BY <1>2, <4>1, <4>2
      <4>3. CASE last_acquisition >= booted
        <5>1. PICK a \in booted .. sensor.acquisition :
                 last_acquisition <= a /\ ft_sequence_.previous = (a - booted) % Modulus
          BY <1>5, <4>3 DEF FreshInv, booted
        <5>2. ASSUME taken <= a PROVE FALSE
          <6>1. /\ a \in Nat /\ a - booted \in Nat
                /\ taken - booted <= a - booted /\ a - booted < (taken - booted) + Half
            BY <1>2, <5>1, <5>2, Halves
          <6>2. ~Ahead((taken - booted) % Modulus, (a - booted) % Modulus)
            BY <1>2, <6>1, LateIsNotAhead
          <6> QED BY <1>2, <1>7, <3>3, <5>1, <6>2
        <5> QED BY <1>2, <4>1, <5>1, <5>2
      <4> QED BY <1>2, <4>1, <4>2, <4>3
    <3> QED BY <1>9, <3>1, <3>2, <3>3
  <2>2. /\ \/ pending' = NoSample
           \/ pending' # NoSample /\ pending'.acquisition = taken
        /\ Latest' \in {last_acquisition', taken}
    <3>1. CASE pending' = NoSample
      BY <3>1 DEF Latest
    <3>2. CASE pending' = [outcome |-> Outcome(record), acquisition |-> taken,
                           configuration |-> sensor_configuration]
      <4>1. pending' # NoSample
        BY <3>2, SampleIsSample, Zenon
      <4>2. pending'.acquisition = taken
        BY <3>2
      <4> QED BY <4>1, <4>2 DEF Latest
    <3> QED BY <1>3, <3>1, <3>2
  <2>3. Latest' \in Nat /\ Latest' <= taken /\ Latest' <= sensor'.acquisition
    BY <1>2, <1>4, <2>1, <2>2
  <2>4. DeliveredFresh'
    BY <1>2, <2>1, <2>2 DEF DeliveredFresh
  <2>5. /\ ft_sequence_'.has_last /\ ft_sequence_'.previous = (taken - sensor'.booted_at) % Modulus
        /\ taken \in sensor'.booted_at .. sensor'.acquisition
    BY <1>2, <1>4, <1>7, <1>9 DEF booted
  <2> HIDE DEF Latest, DeliveredFresh
  <2> QED BY <1>7, <2>1, <2>3, <2>4, <2>5 DEF FreshInv
<1> QED BY <1>7, <1>8, <1>9

(* Every step keeps it.                                                    *)
LEMMA FreshStep ==
  RecordTypes /\ NetInv /\ AgeInv /\ FreshInv /\ [Next]_vars => FreshInv'
<1> SUFFICES ASSUME RecordTypes, NetInv, AgeInv, FreshInv, [Next]_vars PROVE FreshInv'
  OBVIOUS
<1>0. sensor.acquisition \in Nat /\ sensor.booted_at \in Nat /\ ft_sequence_ \in FtTracker
  BY AgeTypes DEF FreshInv
<1>u. ASSUME UNCHANGED <<pending, last_acquisition>>,
             /\ sensor'.acquisition \in Nat
             /\ sensor'.acquisition >= sensor.acquisition
             /\ sensor'.booted_at = sensor.booted_at,
             /\ ft_sequence_' \in FtTracker
             /\ ft_sequence_'.has_last = ft_sequence_.has_last
             /\ ft_sequence_'.previous = ft_sequence_.previous
      PROVE  FreshInv'
  <2>1. Latest' = Latest /\ DeliveredFresh'
    BY <1>u DEF Latest, DeliveredFresh, FreshInv
  <2> HIDE DEF Latest, DeliveredFresh
  <2>2. Latest \in Nat /\ Latest <= sensor.acquisition
    BY DEF FreshInv
  <2>3. Latest' \in Nat /\ Latest' <= sensor'.acquisition
    BY <1>0, <1>u, <2>1, <2>2
  <2>4. \A a \in sensor.booted_at .. sensor.acquisition :
           a \in sensor'.booted_at .. sensor'.acquisition
    BY <1>0, <1>u
  <2> QED BY <1>u, <2>1, <2>3, <2>4 DEF FreshInv
<1>s. ASSUME UNCHANGED <<pending, last_acquisition, sensor, ft_sequence_>> PROVE FreshInv'
  BY <1>0, <1>s, <1>u
<1> USE DEF trackerVars, sensorVars, sampleVars
<1>1. CASE SensorSends
  <2>1. \E advance \in scenario.advances :
           sensor' = [sensor EXCEPT !.position = @ + 1, !.acquisition = @ + advance]
    BY <1>1, Zenon DEF SensorSends
  <2>2. /\ sensor'.acquisition \in Nat /\ sensor'.acquisition >= sensor.acquisition
        /\ sensor'.booted_at = sensor.booted_at
    BY <1>0, <2>1, EnvironmentBounds, SMTT(30) DEF RecordTypes, Sensor, Scenario
  <2> QED BY <1>0, <1>1, <1>u, <2>2 DEF SensorSends
<1>a. CASE SensorAcquires
  <2>1. /\ sensor'.acquisition \in Nat /\ sensor'.acquisition >= sensor.acquisition
        /\ sensor'.booted_at = sensor.booted_at
    BY <1>a, PauseTakesTime DEF RecordTypes, Sensor
  <2> QED BY <1>0, <1>a, <1>u, <2>1 DEF SensorAcquires
<1>2. CASE SensorReboots
  <2>1. /\ sensor'.acquisition = sensor.acquisition + 1
        /\ sensor'.booted_at = sensor.acquisition + 1
    BY <1>2 DEF SensorReboots, RecordTypes, Sensor
  <2>2. UNCHANGED <<pending, last_acquisition, ft_sequence_>>
    BY <1>2 DEF SensorReboots
  <2>3. Latest' = Latest /\ DeliveredFresh'
    BY <2>2 DEF Latest, DeliveredFresh, FreshInv
  <2> HIDE DEF Latest, DeliveredFresh
  <2> QED BY <1>0, <2>1, <2>2, <2>3 DEF FreshInv
<1>3. CASE SensorRestartsStream
  <2>1. /\ sensor'.acquisition = sensor.acquisition
        /\ sensor'.booted_at = sensor.booted_at
    BY <1>3, Zenon DEF SensorRestartsStream, StreamBegins, RecordTypes, Sensor
  <2> QED BY <1>0, <1>3, <1>u, <2>1, SMTT(30) DEF SensorRestartsStream
<1>4. CASE BeginSession
  <2>1. /\ sensor'.acquisition = sensor.acquisition
        /\ sensor'.booted_at = sensor.booted_at
    BY <1>4, Zenon DEF BeginSession, StreamBegins, RecordTypes, Sensor
  <2>2. /\ ft_sequence_' \in FtTracker
        /\ ft_sequence_'.has_last = ft_sequence_.has_last
        /\ ft_sequence_'.previous = ft_sequence_.previous
    BY <1>0, <1>4, Zenon DEF BeginSession, FtBeginSession, FtTracker
  <2> QED BY <1>0, <1>4, <1>u, <2>1, <2>2, SMTT(30) DEF BeginSession
<1>5. CASE Start \/ Stop \/ ConnectFails \/ Backoff \/ ReceiveFails \/ ReceiveMalformed \/ Bias
  <2>1. UNCHANGED <<pending, last_acquisition, sensor, ft_sequence_>>
    BY <1>5, Zenon DEF Start, Stop, ConnectFails, Backoff, ReceiveFails, ReceiveMalformed, Bias
  <2> QED BY <1>s, <2>1
<1>6. CASE ReceiveRecord
  BY <1>6, FreshRecord
<1>7. CASE CallbackReturns \/ CallbackThrows
  <2>1. /\ pending # NoSample /\ pending' = NoSample
        /\ last_acquisition' \in {pending.acquisition, last_acquisition}
        /\ UNCHANGED <<sensor, ft_sequence_>>
    BY <1>7 DEF CallbackReturns, CallbackThrows
  <2>2. /\ pending.acquisition \in Nat /\ pending.acquisition <= sensor.acquisition
        /\ pending.acquisition > last_acquisition /\ last_acquisition \in Nat
        /\ Latest = pending.acquisition /\ Latest' = last_acquisition'
    BY <2>1 DEF FreshInv, DeliveredFresh, Latest
  <2>3. DeliveredFresh'
    BY <2>1 DEF DeliveredFresh
  <2>4. Latest' \in Nat /\ Latest' <= Latest /\ last_acquisition' = Latest' /\ Latest \in Nat
    BY <2>1, <2>2
  <2>5. ft_sequence_.has_last
    BY <2>2 DEF FreshInv
  <2> HIDE DEF Latest, DeliveredFresh
  <2>6. Latest >= sensor.booted_at =>
          \E a \in sensor.booted_at .. sensor.acquisition :
             Latest' <= a /\ ft_sequence_.previous = (a - sensor.booted_at) % Modulus
    BY <1>0, <2>4 DEF FreshInv
  <2>7. /\ Latest' <= sensor'.acquisition /\ ft_sequence_' \in FtTracker
        /\ Latest' >= sensor'.booted_at => Latest >= sensor.booted_at
    BY <1>0, <2>1, <2>2, <2>4
  <2> QED BY <2>1, <2>3, <2>4, <2>5, <2>6, <2>7 DEF FreshInv
<1>8. CASE UNCHANGED vars
  BY <1>8, <1>s DEF vars
<1> QED BY <1>1, <1>a, <1>2, <1>3, <1>4, <1>5, <1>6, <1>7, <1>8 DEF Next

(* No sample reaches the callback that is not newer than the last one      *)
(* delivered, for every word size and any length of a run, until an FT     *)
(* restart is recognised (client_impl.cpp:528-621, sequence.cpp).          *)
THEOREM SamplesAreFresh == Spec => []DeliveredFresh
<1>1. Init => AgeInv /\ FreshInv
  <2> SUFFICES ASSUME Init PROVE AgeInv /\ FreshInv
    BY SMTT(30)
  <2>1. scenario.first_numbers \subseteq Nat
    BY EnvironmentBounds, Halves, SMTT(30) DEF Init, Scenario, Word
  <2>2. sensor.booted_at = 1 /\ sensor.acquisition \in Nat /\ sensor.acquisition >= 1
    BY <2>1, SMTT(30) DEF Init
  <2>3. AgeInv
    BY <2>2, SMTT(30) DEF Init, AgeInv
  <2>4. ft_sequence_ \in FtTracker
    BY Halves, SMTT(30) DEF Init, FtNew, FtTracker, Word
  <2>5. Latest = 0 /\ last_acquisition = 0 /\ DeliveredFresh
    BY SMTT(30) DEF Init, Latest, DeliveredFresh
  <2> HIDE DEF Latest, DeliveredFresh
  <2> QED BY <2>2, <2>3, <2>4, <2>5 DEF FreshInv
<1>2. Init => NetInv
  <2> SUFFICES ASSUME Init PROVE NetInv
    OBVIOUS
  <2>1. net = <<>> /\ requests = 0
    BY Zenon DEF Init
  <2>2. Len(net) = 0 /\ 0 <= Window
    BY <2>1, Halves
  <2> QED BY <2>1, <2>2 DEF NetInv
<1>3. FreshInv => DeliveredFresh
  BY DEF FreshInv
<1> QED BY <1>1, <1>2, <1>3, NetStep, AgeStep, FreshStep, TypesInvariant, PTL DEF Spec
=============================================================================
