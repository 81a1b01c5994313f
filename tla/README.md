# A TLA+ development for pyNetFT

pyNetFT streams force/torque records from an ATI NetFT sensor. This directory
holds TLA+ models of its concurrent parts, the TLC configurations that check
them on small instances, and TLAPS proofs of what matters most for every
instance.

## The system

| part | source | state | model |
|---|---|---|---|
| core client `Client::Impl` | `core/src/detail/client_impl.cpp` | worker thread, flags, three data mutexes, fault latch, generations | `ClientLifecycle`, abstractly `CoreContract` |
| reconnect delay, deadlines | `client_impl.cpp`, `core/src/detail/time.hpp`, `core/src/types.cpp` | clock, backoff | `ReconnectTiming` |
| UDP transport | `core/src/detail/udp_transport_posix.cpp`, `udp_transport_windows.cpp` | socket, shutdown request | `UdpTransport`, `UdpReceive` |
| fault latch | `core/src/detail/fault_latch.cpp` | one atomic code | inside `ClientLifecycle` |
| client handle, deferred destroyer | `core/src/client.cpp` | owner of the implementation, destroyer's queue | `ClientHandle` |
| sample queue | `bindings/python/sample_queue.cpp` | bounded deque, drop count, close generation | `SampleQueue`, `SampleQueueUse`, `SlidingWindow` |
| native binding client | `bindings/python/native_client.cpp` | `running_`, `lifecycle_mutex_`, queue, core | `NativeClient`, `NativeUse` |
| Python client | `src/pynetft/client.py` | lock, mode, run token, callback run | `PyClient` |
| sequence trackers | `core/src/detail/sequence.cpp` | RDT and FT baselines, restart candidate | `SequenceTrackers` |
| record handling | `core/src/detail/client_impl.cpp` | counters, configuration revision | `RecordHandling` |
| configuration parser | `core/src/detail/xml_config.cpp` | element stack, fields | `XmlConfig` |
| discovery | `core/src/discovery.cpp` | one-time initialisation of libcurl | its results, in `ClientLifecycle` |
| codec, status texts, conversions, legacy wrapper, tools | `core/src/detail/protocol.cpp`, `core/src/status.cpp`, ... | none that is shared | not modelled |

How they interact. `Client.start()` in Python takes its lock and calls the
native `start()`, which closes and resets the queue and starts the core. The
core's worker discovers the configuration, connects the socket, sends
StartRealtime and handles records; each delivered sample is pushed into the
queue by the callback that the binding installed. A Python iterator, or the
dispatcher thread of a callback run, reads the queue. `stop()` goes the other
way: it closes the queue, stops the core, which joins the worker, and then
joins the dispatcher. A core fault is only latched; consumers find it because
they wait in slices.

## Modules

**UdpTransport** has the two fields of the transport and one operator per
method. `connect()` clears the shutdown request, as line 74 does, which is what
the re-check of `stopping_` in the core has to make up for.

**UdpReceive** takes `receive()` apart, on the platform that `Init`
chooses: the critical section that copies the descriptor, the poll without the
mutex, the second look at the shutdown request, `recv()`. Descriptors are the
two smallest numbers and are reused as the system reuses them; `open[d]` is the
session a descriptor belongs to. The clock counts ticks and stands still except
while a poll waits or the worker is elsewhere. `timeout_milliseconds()` rounds
what remains up to multiples of `Millisecond` and cuts it at `IntMax`, so a poll
can end after the deadline by less than a millisecond, and one that is cut ends
`receive()` early. The caller passes what remains until its own deadline, so the
timeouts vary (`Timeouts`).

**CoreContract** is the abstract specification of the core client: runs begin,
deliver, are told to stop, end and fault. `ClientLifecycle` implements it
(`ImplementsContract`); `NativeClient` uses the core through it
(`UsesContract`), so that the reduced core of the upper modules is checked from
both sides.

**ClientLifecycle** has one action per critical section, or per access to an
atomic outside any, of `start()`, `stop()`, `bias()`,
`wait_for_first_sample()` and `run()`. `pc[p]` is the position of thread `p`
inside an API call, `run_pc` the worker's position inside `run()`. The worker
is a thread like the others while its callback runs, so a callback may start,
stop, bias and wait. `lifecycle_mutex_` is a variable because it is held
across steps; `lifecycle_waiters` is the wait set of `lifecycle_cv_`. The names
of variables and of most actions are the source's. What is reduced:

- `command_mutex_`, `record_mutex_` and `data_mutex_` are held only within one
  step and have no variable.
- A notification is part of the critical section before it where the predicate
  changed under the waiter's mutex. The one place where it did not,
  `worker_exited_` (lines 725 and 735), keeps store and notify as two steps and
  the waiter's test and block as two steps, so the lost wake-up is in the model.
- `first_sample_cv_` is only waited on with a timeout: such a wait may end in
  any state, and the predicate is evaluated again.
- `stopping_` cannot be cleared while a worker lives, so a test of it and the
  next one without a step in between are merged.
- A session ends `"Stopped"` or `"Failed"`; the fault code, the message and the
  statistics are left out. Which record ends a session, and which is delivered,
  is a nondeterministic choice over the outcomes of `handle_record`.

History variables `runs`, `delivered_run`, `quiesced` and
`owes_stop` (the sensor was told to stream and not yet to stop) state the
properties and guard nothing.

**SampleQueue** has one operator per method of the queue. **SampleQueueUse**
closes it with a producer, readers that capture a generation and read later,
and calls of `close()` and `reset()` in any order. **SlidingWindow** is the
abstract specification: an interval of sample numbers that ends at the newest
and is consumed from its low end. `WindowRefinement` maps the deque to it.

**NativeClient** composes the queue with `start()`, `stop()` and `read()` of
the binding. The core is reduced to `CoreContract`: it pushes while it is live
and not faulted, its fault stays until the next start, and nothing is pushed
once `stop()` has returned. The native calls release the GIL
(`bindings/python/module.cpp:57-68`), so their steps interleave.

**NativeUse** runs the binding without the Python client: threads call
`start()`, `stop()`, `read()` and `wait_for_first_sample()` in any order.
`lifecycle_mutex_` is a variable; `waited[t]` is the run the core's own wait
captured, `received_sample[t]` its answer, and `spawned_at` (history) the
queue's generation when the latest run began.

**PyClient** adds the Python client: a step is one `with self._lock` block,
except that the native calls made under the lock keep their steps, because a
reader outside the lock can tell them apart. A sample is the number of the run
that produced it, which is all the properties need. `then` is the continuation
of the call that is inside `native.stop()`. `NoRun`, `run[d]` are the
`_CallbackRun` objects; `stop_token` and `stopped` are history. Calls that only
raise (a callback calling `start()`, `wait()` or `samples()`), and the paths
taken when a weak reference is gone, are left out; `wait()` has no timeout. The
dispatcher's two successive checks that its run is current (lines 397 and 403)
are one step.

**SequenceTrackers** has `observe()` of both trackers as two operators, the
classification and the next tracker, over words that wrap at `Modulus`.

**RecordHandling** takes the data path that `ClientLifecycle` reduces to a
choice: sessions, the malformed storm, `handle_record` and `bias()`, as the
worker and a caller of `bias()` interleave by `record_mutex_`. A record is
classified in one step, and delivered in another once its callback returned.
The environment knows the truth: a record has its position in its stream and
its acquisition, counted over reboots, and the client sees both modulo
`Modulus`. Any of the last `Window` records may arrive, in any order, again or
never; the StartRealtime of a `bias()` reaches the sensor later or never, and
begins the numbers again or not. Up to `MaxAdvance` acquisitions pass from one
record to the next, and any number of them while there is no session
(`SensorAcquires`): the FT number a session begins with may be ahead of the
last one, behind it or the same. History: `seen`, `skipped`, `mixed` (a record
of before a `bias()` arrived after it), `last_acquisition` and `scaled`. Left
out: the clock (the rate limit holds a sample back or not), the reconnect
delay, warnings, the rates, and the early return for a sample that is not finite
(lines 639-643). No calibration leads there: an override (`types.cpp:87`) and a
parsed one (`xml_config.cpp:287`) are both validated, and `require_safe_count()`
(`types.cpp:45-55`) accepts only counts that divide every 32-bit reading to a
finite number.

**ReconnectTiming** has the worker's delays on a clock that counts ticks. A
configured delay is given in fractions of a tick (`Resolution` of them make
one), so that the truncation of `checked_duration()` is in the model. `stop()`
stores `stopping_` and notifies in two steps, and the worker tests and blocks in
two steps: the notification can be missed. Sessions are one phase; the
recovery policy is Reconnect.

**ClientHandle** has `~Client()` on three kinds of thread, the queue of the
`DeferredDestroyer` and its thread. A worker runs callbacks and exits when told
to stop or at a fault. `MayDestroy` says whose callback may destroy which
handle; it may not be cyclic among different clients (`NoMutualDestruction`),
because two callbacks that destroy each other's client wait for each other.

**XmlConfig** reads a document token by token as the loop of
`extract_required_fields()` does, then takes and converts the fields. `Meaning`
and `Acceptable` say, over the whole document and without a stack, which
documents are good and what they say; `ParserCorrect` compares the two. Text is
a sequence of characters because trimming, length and spelling are what the
property is about, over a few characters per field; `ParserInit` chooses the fields of
a page, so that a short document can hold them. What is inside a tag besides its
name is not modelled.

**MCClientLifecycle**, **MCPyClient** supply the threads and the symmetry of
the application threads, **MCClientHandle** the clients, **MCRecordHandling** the
scenarios. The theorems are in modules of their own: **ClientLifecycleProofs**,
**ReceiveProofs**, **HandleProofs**, **DataProofs**, **RecordProofs**,
**SampleQueueProofs**, **NativeUseProofs** and **PyClientProofs**.

## What the runs check

| run | states | what it shows |
|---|---|---|
| LifecycleSafety | 593,095 | the worker has one owner; `stop()` is synchronous, prompt and leaves no stream; health and latch agree; `wait_for_first_sample()` is truthful; the client implements `CoreContract`, so faults stay until the next run |
| LifecycleLiveness | 35,599 | `stop()` returns; `start()` returns, or blocks after a faulted worker whose exit it missed; with a `stop()` that wait ends too, unless another `start()` begins a run first; a `stop()` from the callback ends the run |
| SampleQueueSafety | 39,804 | no sample unaccounted for, closes reach readers, refinement of the window |
| PyClientSafety | 1,269,081 | samples stay within their run, `stop()` leaves no callback, no silent end, the core is at rest when started |
| PyClientLiveness | 33,719 | `stop()` and `start()` return, a fault ends a callback run |
| NativeUse | 324,451 | a read or wait answers for its own run; the core is used within its contract; a close releases readers and waiters |
| UdpReceive | 382,440 | `receive()` uses its own descriptor, outlasts its deadline by less than a millisecond under any interrupts, a shutdown ends it at once (POSIX) or within a slice (Windows) |
| ClientHandle | 5,017 | an implementation outlives its worker, is freed once and is freed at last |
| XmlConfig | 2,063,626 | the parser accepts exactly the good documents and reads them right |
| ReconnectTiming | 42,359 | the schedule of delays, how late a stop can be |
| RecordHandling | 4,092,905 | `lost_count` is exact; samples are delivered in the order of acquisition across wrap-around, loss, repetition, reordering, `bias()`, reboots and long breaks; the counters explain every record; a revision means one calibration |
| StaleIterator | violation | a stale iterator takes a sample of the next run |

*Bounds.* `MaxCalls` bounds the API calls of a behaviour. Six calls by two
threads and the callback contain every pair of racing calls after a run has
been started, faulted and restarted: start, stop and start again in one thread
against three calls of another. Liveness runs use three, enough for a start, a
second start that waits, and a stop. Two application threads suffice for two
racers; the callback's thread is a third. `Capacity = 1` (Python's default
`queue_size`) makes the queue full after one push; the queue's own run uses 2,
where the oldest and the newest sample differ. `MaxRuns = 2` gives a run and
the restart that a stale consumer can be confused with. `MaxPushes` and
`MaxCloses` exceed the capacity and the number of readers. Application threads
are interchangeable, so safety runs use symmetry; liveness runs do not.

The record run uses sixteen sequence numbers and goes deep in one direction at
a time: `Stream` (one session with `bias()`), `Reboot` (a sensor that reboots
between two sessions, with the FT restart that follows) and `Sessions` (failing
sessions: Reconnect without, FailStop with error delivery). A stream begins at
14, so that it wraps after one record, or at 1, so that it crosses the FT
restart threshold (`RestartLowMax = 3`); reboots fall back from 6. Four records
sent and four received are enough to lose one, take one late and take one twice
on both sides of a `bias()`. The model assumes that the client is never half
the number space behind the sensor, which at 7 kHz means 2^31 records, more
than three days without a receive timeout, and that a record is late by less
than half the space (`MaxAdvance * Window < Half`, here six of eight). Between
the two sessions of `Reboot` the sensor acquires 5, 8 or 15 times: less than
half the space, half of it, and with the next record all of it. Three sessions let a calibration change and change back.
`LostExact` excludes a record from before `bias()` that arrives after it; what
happens then is in the list of hazards.

The run of the binding makes five calls from two threads: a start, and a read
or wait against a stop and start, with one call to spare. Its safety properties
(the close that releases readers apart, which is liveness) are proved for any
number. `Dispatchers` is empty there (`MaxRuns = 0`); runs of the core are
bounded by the calls. In the transport run a millisecond is two ticks, a
slice two milliseconds and the longest poll four; a timeout is three, five or
nine ticks, so that each is rounded up, two need a second slice and one is cut.
Sixteen ticks hold three receives. The clock of `ReconnectTiming`
ends at nine ticks of two fractions each, so that delays truncate, double past
the maximum, and reach the end of the clock. Three clients give a chain of
destructions with each destroying itself as an alternative. Six tokens hold a
number beside the optional name, one element inside another, or a torque unit
of four characters in its element, one more than `kMaximumFieldLength`.

*Deadlock* is not checked where the application may simply make no more calls.
That a call which has begun comes to its end is what the liveness runs check.

*Fairness.* `FairSpec` is weak fairness of every thread that is inside a call,
of the worker and of the dispatchers: the operating system runs every thread,
timed waits end, discovery is bounded by its HTTP timeouts, and user callbacks
return. Nothing is assumed of the application's calls, of the sensor, or of
spurious wake-ups. A mutex needs only weak fairness within the bounded number
of calls. `UseFairSpec` is the same for the threads of the binding.
`ClientHandle` assumes that callbacks return, and counts on no
spurious wake-up of the destroyer. `UdpReceive` and `ReconnectTiming` need no
fairness: their properties bound the time instead.

*Finding* (StaleIterator). The iterator checks that its run is current
(`client.py:210`), then `native.read()` captures the queue's generation
(`native_client.cpp:147`). If the client is stopped and started in between,
the captured generation is the new one, and a sample of the new run is
popped and then discarded by the check at line 215. The test
`test_stale_iterator_does_not_consume_from_a_restart`
(`tests/python/test_client.py:225`) states the opposite. `OwnRunOnly` holds:
the sample is lost, not misdelivered.

Two observations are in the model and are not stated as properties.

- A `start()` that waits for a faulted worker (`client_impl.cpp:126`) can miss
  the only notification that would end its wait. `StartReturns` says that this
  is the one way not to return: such a call is blocked, and the worker has
  exited. `StopReleasesStart` says that a `stop()` ends the wait: the `start()`
  returns, not merely wakes up, unless another `start()` begins a run in the
  meantime. That exception is real: the waiter may find the new run faulted
  before it looks, block again and miss the exit of that worker too, which takes
  four calls. `CleanStart` shows that the Python client never waits there.
- `read()` tests the fault before the queue (`native_client.cpp:154`), so a
  fault overtakes the samples queued before it. `docs/api.md:108` says that with
  `deliver_samples_with_error_status` a record is delivered before the recovery
  policy is applied; under FAIL_STOP it may stay in the queue, unread.

## What is proved

For every set of application threads, every number of calls:

- `TypeCorrect`: `Spec => []TypeOK`.
- `WorkerHasOneOwner`: `Spec => []OneOwner`.
- `StopJoins`: `Spec => []StopIsSynchronous`.

`OneOwner` and `StopIsSynchronous` are not inductive. `OwnerInv` adds that
`lifecycle_mutex_` is held exactly at the labels inside a critical section,
that a `start()` past its wait sees no joiner, and one about to publish a run
sees no worker either: the mutex is held from the test to the assignment that
depends on it. The worker's own steps leave all of that alone
(`RunStepFrame`), so the proof has one case per step of `start()` and `stop()`.
The type invariant is proved in two halves (`FlagsStep`, `ValuesStep`).
Assumptions: `ThreadsDistinct` (the worker is no application thread, nobody is
no thread) and `MaxCallsNat`.

- `ClientImplementsContract`: `Spec => ImplementsContract`. `ContractInv` adds
  to `OwnerInv` what a start that is publishing knows (nobody has faulted,
  there is no worker) and what the worker's verdict means (`"Stopped"` only
  after `stop()`). Each step of the client is then a step of the contract or a
  stutter.
- `StopEndsStream`, `StopInterruptsReceive`, `ExitLeavesNothing`:
  `NoStreamAfterStop`, `PromptStop` and `QuietAfterExit`, from `StreamInv`:
  `session_started_` is raised only over a socket and with `stopping_` read
  under `command_mutex_`, so a worker that is receiving while it is stopped was
  reached by `shutdown()`, and every stream is paid for by a StopStreaming
  before the socket is closed.
- `HealthMatchesLatch`: `HealthCoherent`, from `HealthInv`, which adds that what
  `start()` set aside was coherent and that nobody comes between the two halves
  of its rollback.
- `WaitTellsTheTruth`: `WaitTruthful`, from `FirstSampleInv`: a generation that
  has delivered is the current run's, and while `start()` publishes a run its
  generation has delivered nothing.

All safety properties of `ClientLifecycle` are proved.

For every set of timeouts, tick, slice and number of sessions of the transport
(`ReceiveProofs`, from `ReceiveConstants`):

- `ReceiveOwnsDescriptor`, `ReceiveKeepsDeadline`, `ReceiveEndsPromptly`:
  `OwnDescriptor`, `DeadlineKept` and `PromptShutdown`, from `ReceiveInv`. It
  says that one descriptor at most is open and a receive works on it
  (`DescriptorInv`), that a poll begins before the deadline and waits past it by
  less than a millisecond, on Windows for a slice at most (`WakeInv`), and that a
  shutdown marks the open socket (`ShutdownInv`). `RoundedUp` is the fact about
  `timeout_milliseconds()` it rests on.

For every set of clients and every `MayDestroy` (`HandleProofs`; mutual
destruction matters for termination only, and is not used):

- `ImplementationOutlivesWorker`: `OutlivesWorker`, from `HandleInv`, which says
  that an implementation is in one place at a time: its handle, a destructor,
  the destroyer's queue or the destroyer's hands (`PlaceInv`).

For every word size, threshold, window, advance and scenario of the data path
(`RecordProofs`, from `WordSize` and `EnvironmentBounds`):

- `TrackerClassifies`: for numbers less than half a word apart, `RdtKind` and
  `Gap` tell the truth on either side of a wrap. It is a fact about the
  operators and no run states it.
- `RevisionsIdentify`: `RevisionIdentifies`, from `RevisionInv`: no
  configuration in use, the one of the sample in the callback included, is later
  than the current one.
- `EveryRecordExplained`: `Explained`, which is inductive over the types.
- `LostCountExact`: `LostExact`, from `NetInv` (the network holds the last
  records sent, in order) and `LossInv` (the tracker's baseline is a record of
  the sensor's stream, less than half a word behind it), with
  `TrackerClassifies` for the step that takes a record.
- `SamplesAreFresh`: `DeliveredFresh`, from `AgeInv` (a record on the network was
  acquired since the sensor booted, and is at most `MaxAdvance` acquisitions per
  later record behind the sensor) and `FreshInv` (the FT baseline is, unless the sensor
  has rebooted since, the number of an acquisition that is no earlier than the
  last sample). The baseline itself may lag far behind the sensor; what matters is
  that a record on the network cannot, so one that is older than the baseline is
  never taken for one ahead of it (`LateIsNotAhead`).

All safety properties of `RecordHandling` are proved.

For every set of threads, every capacity, any number of calls and restarts of
the binding (`NativeUseProofs`):

- `LifecycleMutex`: `UseSpec => []LifecycleExclusive`.
- `RunningMeansOpen`: `UseSpec => []RunningIsOpen`.
- `WaitOwnRun`: `UseSpec => WaitAnswersForOwnRun`.
- `ReadOwnRun`: `UseSpec => ReadsOwnRun`.
- `BindingUsesContract`: `UseSpec => UsesContract`.

`NativeInv` is the common invariant. Its heart is `WaitInv`: a reader or waiter
that has passed its check, and whose generation is still the queue's, is after
the run in progress, and no thread is between closing the queue and starting
the core. It holds because `start()` closes the queue before anything else,
which makes every captured generation old. `LiveInv` (a healthy run that
readers do not see is being started or stopped) is what lets `start()` call the
core's `start()` safely. `SampleInv` adds that an open queue holds samples of
the latest run only. Assumptions: `UseBounds`, `NativeBounds`,
`CapacityPositive`. `ClientImplementsContract` and `BindingUsesContract` are
the two sides of the reduction of the core: the client keeps the contract, and
the binding's model of the core does nothing outside it. `LifecycleExclusive`
and `RunningIsOpen` are proved only, not part of a run.

For every clock, resolution and pair of delays that validation accepts
(`DataProofs`, from `TimingConstants`):

- `NeverBusy`, `StopIsNeverLate`, `ClockFaultBound`: from `TimingInv`, which
  keeps the delay between the two configured ones (`DelayInv`), ties the
  deadline of a wait to it (`SleepInv`) and says where the worker can be after
  a `stop()` (`StopInv`). `TruncationMonotone` is the fact about truncating
  division they rest on. The busy loop that `NeverBusy` excludes and the end of
  the clock (`ClockFaultBound`) are proved only, not part of a run.
- `BackoffFollowsSchedule`: `BackoffSchedule`, from `ScheduleInv`, which says of
  `backoff` at all times what the property says of a wait in progress: it is the
  initial delay doubled `failures` times, cut at the maximum. The step from one
  failure to the next is `PowerOfTwoDoubles`.

For documents of any length and nesting, any set of pages and any
`kMaximumFieldLength` (`DataProofs`, from `XmlConstants`):

- `ParserAcceptsMeaning`: `ParserSpec => []ParserCorrect`, from `ParserInv`. While
  the parser reads, `Stacked` says that the stack holds exactly the elements that
  are open, outermost first, and that every other tag has its counterpart.
  `FieldsInv` says that only the innermost open element is a field, that a field
  was seen exactly if it occurs, and once, and that what was collected for it is
  its text so far (`Collected`). An error is thrown only when the tokens read so
  far already make the document one that is not acceptable. At the end nothing is
  open, so what was collected is the text between the matching tags, and
  converting it gives what `Meaning` says: the digits read one after the other
  (`parse_positive_count`) make the sum of digits times powers of ten
  (`Number`).

The reference definitions of both modules, and the parser's reading of digits,
are recursive functions. The library's induction theorems take an operator as a
parameter, which the provers cannot instantiate; `DataProofs` begins with
induction stated about a set instead (`NumberInduction`, from the least element
of a set of numbers) and derives from it that a function defined by recursion
over the numbers exists and obeys its equation (`LinearRecursion`,
`PowerRecursion`). The text of a field is the tokens of a set of positions in
order; that each rank has one position follows from the cardinalities of finite
sets (`HasRanks`).

For every capacity of at least one and every set of readers:

- `QueueTypeCorrect`, `QueueConserves`: from `QueueInv`, which adds that the
  queued samples are the last ones pushed, without a hole (`Contiguous`).
- `QueueIsWindow`: `UseSpec => WindowRefinement`; each operation maps to a step
  of the window or a stutter.
- `CloseIsNoticed`: `UseSpec => CloseReachesReaders`, from an invariant that
  counts the closes a reader has missed.

Assumptions: `CapacityPositive` (the constructor throws otherwise) and
`BoundsNat`.

For every set of application threads, every capacity and any number of calls,
runs and samples of the Python client (`PyClientProofs`, from `ThreadsApart`,
`NativeBounds` and `CapacityPositive`):

- `StartsAtRest`: `Spec => []CleanStart`.
- `ClosedOnlyByFault`: `Spec => []ClosedMeansFault`.
- `StopJoinsCallbacks`: `Spec => []StopLeavesNoCallback`.
- `EndHasReason`: `Spec => []NoSilentEnd`.
- `SamplesOfOwnRun`: `Spec => OwnRunOnly`, an action property.

They are all the safety properties of the Python client, and follow from one
invariant, `PyInv`, whose parts build on each other:

- `LockInv`: `_lock` is held exactly at the labels inside a locked block
  (`HolderInv`); the native client delivers while a run is current and rests
  otherwise, but for the steps of the `start()` or `stop()` under way
  (`PhaseInv`); the run token is the number of the core's run, and an open queue
  holds samples of that run only (`TokenInv`).
- `RunInv`: a callback run that was activated is over, or it is the last one and
  its dispatcher has not been joined; `start()` holds the lock only after the
  dispatcher before it was joined.
- `ReadInv`: readers are outside the lock. One whose run is still current has
  the queue's generation, so it is told of a close only after a fault; what it
  took is no older than its own run. A reader that is stale may hold a newer
  sample (the finding above), and the check under the lock discards it.
- `StopInv`: a `stop()` that has looked at the client will join the dispatcher
  of every run begun before it, unless that one is over.
- `EndInv`: an activated run without an error that no `stop()` ended is current.

The proof sorts the steps first (`StepKinds`, `RunKinds`): a step that neither
holds nor takes `_lock` leaves most of the state alone, so only the locked steps
need a case each.

`DataProofs` and `PyClientProofs` are the longest of the modules to check, about
a quarter of an hour and about eight minutes. Leaves that come near the provers' usual
time limit name their prover and a longer one.

Every safety invariant and action property that a passing run checks is proved.
Only model-checked:

- All liveness, `CloseReleases` and the properties of the liveness runs and of
  `ClientHandle` included: the prover has no fairness reasoning.

## Not modelled

- `WinSockRuntime`, a reference count of the system.
- `discover_sensor()` in steps: it is one blocking call without shared state but
  libcurl's one-time initialisation; the models have its results.
- The codec: `encode_request()` writes eight bytes, `decode_record()` reads nine
  big-endian words; `RecordHandling` has its results, a record or a malformed
  packet.
- `ScopedRoundToNearest`: it sets and restores the floating-point environment
  around one conversion, which a model without floating point cannot tell.
- The range checks of `types.cpp` other than those of the two delays, the
  tables that name units, states and status bits, the field-by-field conversions
  of the Python binding: no state, and a model would repeat the tables.
- The legacy wrapper `_legacy.py`: one flag of a single-threaded caller around
  calls that `PyClient` has as actions.
- Weak references and garbage collection in Python, and calls that only raise.
- The receive and delivery rates, the `last_*` fields of the health snapshot.
- Callbacks that destroy each other's clients: the two destructors wait for each
  other. The code does not prevent it; `NoMutualDestruction` excludes it.
- Release tooling under `tools/`.
