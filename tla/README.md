# A TLA+ verification project for NAM-Audio-Pipe

NAM-Audio-Pipe hosts Neural Amp Modeler models behind a PipeWire stream: a
real-time callback runs a DSP chain, a main loop rebuilds parts of that chain
and follows the PipeWire server across failures, and a worker thread writes the
output to WAV files without losing a sample. This directory models the parts of
it in which several threads share state, checks them with TLC, and proves the
most important invariants with TLAPS.

Paths below are relative to the repository root (`src/recording/...` is the
crate's own `src` directory).

## 1. The system

### 1.1 Threads

| thread | code | what it owns |
|---|---|---|
| real-time callback | `standalone/pw_host/rt_callback`, `pw_host/capture` | the DSP chain, the producer of every real-time ring |
| main thread | `main.rs`, `pw_host/run.rs`, `pw_host/handlers.rs` | the loop, the streams, the rebuilds, shutdown |
| `nam-recording-io` | `recording/disk.rs` | the WAV files, the consumer of the recording rings |
| log drain | `pw_host/rt_log_ring.rs` | the consumer of the real-time log ring |
| signal handlers | `standalone/signals.rs` | the shutdown stage |

They talk through wait-free single-producer single-consumer rings (`rtrb`),
atomics, one mutex-protected status and one condition variable; none of the
rings has a lock.

### 1.2 Components, their state and what makes them correct

* **Recording transport** (`recording/pool.rs`, `transport.rs`, `buffer.rs`).
  Three rings: `free` (slot indices), `work` (descriptors of blocks and control
  barriers), `control` (metadata and `StreamStop`). The callback acquires a
  preallocated slot, fills it in place and publishes its descriptor; a metadata
  goes to `control` and a barrier carrying its sequence number goes to `work`,
  so that the worker applies it at that exact place of the stream. *Correct when*
  a slot is never in two hands, no push that is documented infallible fails, a
  barrier meets its own metadata, and the blocks are written in order, each in
  the segment of the metadata it was captured under.
* **Disk worker** (`recording/disk.rs`). One loop: pop `work`; when it is empty
  look at the head of `control`; else test the terminal condition, else sleep.
  *Correct when* it ends, has written everything published, and reports its
  failures.
* **Recording guard** (`recording/guard.rs`). Owns the worker: pushes
  `StreamStop`, drops the sender, joins with a deadline, classifies the outcome.
  *Correct when* it always returns and never calls a lossy capture a success.
* **WAV segments** (`recording/disk.rs`, `wav_header.rs`, `io.rs`). A segment is
  a header, samples, and a header rewritten at every checkpoint and at the end.
  *Correct when* a crash leaves a readable prefix, no segment outgrows its 32-bit
  sizes, and a short write is completed or reported.
* **Startup, status, alert and exit code** (`recording/status.rs`, `probe.rs`,
  `space.rs`, `alert.rs`, `main.rs`). The worker tells the main thread over a
  one-shot channel whether it can record; a status and a failure flag follow,
  which the main thread polls with `try_lock`. *Correct when* a failure reaches
  the user, and an exit code of zero is a promise that is kept.
* **Rate synchronisation** (`rt_callback/rate_sync.rs`, `resampler_swap.rs`,
  `handlers.rs`). The callback publishes new rates and asks for a resampler; the
  main thread builds it; the callback installs it if it is still the right one.
  *Correct when* the last rates are the ones finally installed, and no request
  is lost.
* **Rebuild handlers and swap drains** (`handlers.rs`, `commands.rs`,
  `*_swap.rs`). The same protocol for oversampling, slimmable models, cabinet
  simulation and models, with a budget of one swap per callback and a garbage
  cascade that carries what was replaced back to the main thread. *Correct when*
  nothing is freed on the real-time thread, nothing is lost and the latest
  request wins.
* **Backend lifecycle** (`run.rs`, `reconnect.rs`, `status.rs`). States
  Starting, Running, Degraded, Reconnecting, Failed and Terminated under a
  mutex, mirrored in atomics; bounded reconnection with exponential backoff.
  *Correct when* the mirror agrees with the state, an intended teardown is not
  taken for a failure, and reconnection neither spins nor stops too early.
* **Latency snapshot** (`stream_status.rs`, `latency.rs`). A sequence lock over
  three latencies, and what the two streams are told. *Correct when* no mixture
  is read and the graph ends up with the latency in force.
* **Real-time log ring** (`rt_log_ring.rs`, `log_redirect.rs`). A thread-local
  mark and a routing switch decide whether an event of PipeWire's log is
  dispatched or queued. *Correct when* the ring has one producer at a time and
  every event is emitted, queued or counted.
* **Reports** (`rt_setup/telemetry.rs`, `thread.rs`, `handlers.rs`). Bits and
  counters that the callbacks set and a poll reads every 100 ms. *Correct when*
  what was raised is told once, and what was not told was counted.
* **Wakeup** (`wakeup.rs`), **sink probe** (`rt_setup/pm_qos.rs`), **bridge and
  buffers** (`bridge.rs`, `output_pw.rs`, `process.rs`, `spa_format.rs`),
  **signals** (`signals.rs`): small protocols of two or three parties.
* Command line, banner, receipts and benchmarks: sequential code without shared
  state; not modelled.

### 1.3 What is hard here

Interleavings of the callback, the worker and the teardown on three rings that
are not ordered with each other; a check on one ring used after another thread
has changed it; a request that is several stores on one side and several loads
on the other; sequence numbers that wrap; the worker's failure in the middle of
a block; a kill or a power loss between a block, its header and the sync;
shutdown when a ring is full; counters that outlive the state that interprets
them; signals handled on several threads at once. `PROJECT.json` ("hazards")
lists them at their lines with the properties that would notice.

## 2. Modules and plan

| module | models | composed by |
|---|---|---|
| `RecordingTransport` | rings, drain loop, shutdown | - |
| `WavSegments`, `RecordingSession` | files; startup, status, exit code, crashes | `RecordingSession` extends `WavSegments` |
| `RateSync` | rates and resamplers | - |
| `StructuralSwaps` | cabinet, slimmable and oversampling swaps, commands, garbage | - |
| `BackendLifecycle` | host, status, instances | uses `RetryBudget` |
| `RetryBudget` | the abstract reconnection budget | implemented by `ReconnectCycle` |
| `ReconnectCycle`, `ReconnectPolicy` | the stability window with its clock, the schedule | `ControlPlane` |
| `TerminationSignals`, `ControlWakeup`, `SinkProbe` | the waits of the main thread | `ControlPlane` |
| `LatencySnapshot`, `LogRing`, `PlaybackPath` | data between two threads | `ControlPlane` |
| `Telemetry`, `StatusLines`, `GateThrottle` | the reports | `ControlPlane` |
| `RecordingTransport_proofs`, `RecordingSession_proofs`, `RateSync_proofs`, `StructuralSwaps_proofs`, `BackendLifecycle_proofs` | the theorems of these modules | - |
| `WaitProtocols_proofs`, `DataProtocols_proofs` | the theorems of the protocols of `ControlPlane` that bound a wait, and of those that carry data | `ControlPlane_proofs` |
| `ControlPlane_proofs` | the reports, and the composition | - |
| `MC*` | the instances TLC checks | - |

Every safety property that a passing run checks is also proved, for every value
of the constants (sections 3.3, 4.3, 5.3, 6.4, 7.4 and 8.9); section 9 says what
is left to TLC alone. What the plan of the project still has: an abstract
`LosslessCapture` (a sequence of takes that only grows and an outcome that tells
what is missing), implemented by `RecordingTransport`; a composition of
`RecordingTransport` with `RecordingSession`, which today meet in the order of
blocks the one hands over and the other takes.

## 3. RecordingTransport

### 3.1 State and actions

A ring is the log of everything ever pushed into it and the position its
consumer has read up to, like the indices of an `rtrb` ring; what it holds is
the part of the log after that position, and its capacity bounds the difference.

| actions | code |
|---|---|
| `StartCallback` `SkipMetadata` `PushMetadata` `PushBarrier` | `send_recording_metadata`, `try_push_metadata`, `try_push_barrier`: one step per ring push, since the worker runs in between |
| `SkipAudio` `RecordAudio` `FillPlanar` `Publish` | `send_recording_audio`: acquire, fill, publish, and every way to count an overrun |
| `Reconnect` | a rebuilt `CaptureState` with the sender of the old one |
| `PopWork` `HandleControlBarrier` `WriteBlock` `Release` | step 1 of `disk_writer_loop_pool`, and the drain after `StreamStop` (`draining`) |
| `PeekControl` `CheckTerminal` `FinalizeCapture` | its steps 2 to 4 |
| `RaiseFailure` `ExitFailed` | the `?` paths and `publish_worker_result` |
| `StopLoop` `BeginTeardown` `PushStreamStop` `DropControl` `DropWork` `Join` | `thread_loop.stop()`, `teardown`, `push_stream_stop`, the two producers dropped one after the other, `join_recording_io` and `classify_loss` |

Reads of a ring by its consumer and pushes by its producer are separate steps
of the threads, so the worker can see `work` empty, be suspended while the whole
shutdown runs, and then look at `control`. The peek at the head of `control`
and the abandonment test that follows are one step: nothing another thread does
in between makes a difference that doing it before the peek does not.

Blocks carry the number of the quantum they were captured in, metadata only its
rate: bit depth and channel count are constants of the code. `FillPlanar` and
`WriteBlock` move that number through the slot, so a slot overwritten too early
would show as a wrong block. A step that writes, rolls over, opens or finalizes
a segment may fail at any time. The hint flag `recording_data_available`, log
lines and the free-space check have no effect on the state and are left out, as
is a panic of the worker thread.

History variables (`published`, `recorded`, `captured`, `suppressed`, `orphaned`
and the field `nth` of a descriptor) are read by no guard.

### 3.2 Runs

| run | instance | asks |
|---|---|---|
| `transport_safety` | 2 slots, control ring of 2, work ring of 4 (`N + ControlCapacity`), 2 rates, 3 blocks, 3 metadata, 1 reconnection | the five invariants |
| `transport_undersized` | 2 slots, control ring of 2, work ring of 1, sequence numbers modulo 4, 2 blocks, 4 metadata | shutdown returns and the worker ends, published blocks are written, when pushes are refused and numbers wrap |
| `transport_orphan` | 1 slot, 1 block, 1 metadata | the violated claim, section 3.4 |

Properties: `SlotOwnership` (a slot is free, being filled, in flight or being
written, never two of these); `PushesNeverFail`; `BarrierFindsItsMetadata`;
`RecordedInOrder` (what is written is, item by item, what was published: the
samples of that quantum, under the metadata confirmed before it, at the rate the
host then ran at); `OutcomeIsHonest`; `ShutdownCompletes`; `PublishedIsWritten`.

Bounds. Two slots and three blocks make every slot be reused and the pool be
exhausted; three metadata fill a control ring of two; two rates let a rate
change twice and come back. With these bounds the sequence numbers (modulo 2^16,
at most 3 of them used) never wrap in `transport_safety`, and as its rings are of
the program's size no barrier is refused there; for those two cases the order and
the pairing rest on the theorems of section 3.3, which hold for every even modulus
and any number of metadata, so through every wrap, and not on this run. `transport_undersized` is
not a configuration of the program: there the work ring is always large enough (theorem
`RingsNeverOverflow`), so the code that retries a refused barrier and discards
superseded metadata never runs. The run asks for the liveness properties there,
since a control ring that fills and barriers that wait are what could keep a
shutdown or a block waiting for ever.

Fairness. `WF` of the worker (an ordinary thread that polls every 10 ms) and of
the teardown (the main thread, whose loops are all bounded by deadlines).
Nothing is assumed of the callback nor that the host is ever stopped. The
deadline of `push_stream_stop` (200 ms) is a choice that a full ring enables;
that of the join may pass at any time before the worker has returned.

### 3.3 What is proved

`RecordingTransport_proofs` proves, for every pool size, ring capacity, set of
rates and bound satisfying the module's assumptions:

* `TypeCorrect`: `Spec => []TypeOK`.
* `Ownership`: `Spec => []SlotOwnership`. Together with the types it is
  inductive: each action moves one slot from one place to the next. This is the
  argument that the `unsafe impl Sync` of the pool rests on.
* `RingsNeverOverflow`: with `WorkCapacity = N + ControlCapacity`,
  `Spec => []PushesNeverFail`. `PushesNeverFail` is not inductive: it counts what
  three rings hold. The strengthening `RingInv` counts the barriers and blocks
  among the first descriptors through the history field `nth` (`WorkInv`), states
  that no barrier was ever refused (`SenderInv`), that while the session runs the
  worker has taken from `control` exactly the metadata of the barriers it took
  from `work` (`LiveInv`), and that slots free, filled, in flight and written are
  at most `N` (`CountInv`). The pigeonhole `RingRoom` then gives the theorem.
  It also shows that `try_push_barrier`, which `pool.rs` (lines 331-334) documents
  as fallible, cannot be refused by a full work ring.

* `BarriersFindTheirMetadata`, `RecordingKeepsOrder`, `OutcomesAreHonest`: under
  the same assumption on the rings, `[]BarrierFindsItsMetadata`,
  `[]RecordedInOrder` and `[]OutcomeIsHonest`. None of them is inductive, and none
  can be made so on its own: the order of what is written rests on where the
  worker stands in two rings at once. `OrderInv` keeps the logs (`ControlLog`: the
  metadata are numbered 1, 2, ... and `StreamStop` comes last; `BarrierLog`: each
  has its barrier; `AudioLog`: each descriptor stands for the block it is the nth
  of, under the rate its metadata announced), the callback (`RateInv`: no block
  is pushed whose rate is not confirmed), the slots (`SlotsHold`: a slot in flight
  still holds its block), and the worker (`WorkerInv`: how many metadata and
  blocks it has taken is a function of its place in the work ring, and so is the
  segment it has open; `WrittenInv`; `EndInv`). `WorkerInv` is stated for sessions
  without an orphan (section 3.4), which is the only way out of step.

The liveness properties are model-checked only.

### 3.4 A disagreement with the documentation

`disk.rs` says of the terminal paths that "no block published before the stop
can be orphaned" (line 698). Run `transport_orphan` shows an execution in which
one is. The worker finds `work` empty; the last callback then pushes a metadata,
its barrier and a block; the guard pushes `StreamStop` and drops the sender; the
worker now looks at `control`, finds the metadata at its head with both producers
gone, and discards it as "unconfirmed orphan" without looking at `work` again.
The barrier it pops next meets `StreamStop` and is skipped, no segment is open,
the block is dropped, and the session reports `Success` (section 6.3 follows it to
the exit code). It takes a worker
suspended between two lines for as long as a callback and the start of a
shutdown. The properties of section 3.2 that this would break are stated for
sessions in which it did not happen (`orphaned = {}`).

## 4. RateSync

### 4.1 State and actions

Three threads: the PipeWire loop stores a negotiated host rate in a one-shot
cell; the callback compares the rates it wants with those of its resampler and
publishes a request; the control loop builds a resampler for it and pushes it
into a ring that the next callback drains. While a request is pending the
callback skips the DSP: the host is mute.

| actions | code |
|---|---|
| `Negotiate` | the accepting arm of `param_changed_handler` |
| `DrainResamplers` | the first drain of `rt_quantum_prologue`, `install_resampler`, `discard_resampler` |
| `LoadModel` `NoLoadModel` | what `receive_commands` does to the model rate, under the budget of one swap per callback |
| `SyncRate` (`AtActive`, `KeepWaiting`, `StartRequest`) | `sync_rate` up to its first store into shared memory |
| `Invalidate` `Disarm` | return to the active rates: generation, then flag |
| `StoreHost` `StoreNam` `AdvanceGeneration` `Arm` | a new request, store by store |
| `RollbackGuard` `ClearNeeds` `ClearMarker` | step 6 of the prologue: load the failure marker, roll back or drop a stale one |
| `CheckNeeds` `CaptureGeneration` `CaptureHost` `CaptureNam` `BuildSucceeds` `BuildFails` `Push` `PushFull` | `handle_resampler_rebuild`, access by access |
| `ClearRequest` `RearmIfSuperseded` | `rearm_rebuild_if_superseded` |

Each access to a shared atomic is a step. Two are joined only where no other
thread can tell them apart: the swap of the cell and the load of the failure
marker in `sync_rate` (the two are written by different threads), and the load
and the store of the re-arm (the generation only grows). `RtSwapDrain` is the
engine's, outside this repository: `resampler_swap.rs` and its tests say what it
does with a generation, and it is modelled from that. Its window of eight pops
never binds, because the assumption `RingAssumption` bounds the ring by it, and
its deferred slot never fills, because the resampler is the first user of the
budget. Which builds fail is left open. Memory order: on x86-64, the target of
the build, the read-modify-writes on the flags are fences, so the accesses are
interleaved; the module does not speak for a weaker memory model.

### 4.2 Runs

| run | instance | asks |
|---|---|---|
| `ratesync` | 2 rates, ring of 2, 4 changes, 1 failing build | `UnmutedIsResolved`, `ProceedsAtWantedRates`, `PendingIsServed`, `InstalledAsRequested`, `MuteEnds` |
| `ratesync_lost_failure` | 2 changes, 2 failing builds | `OnlyStaleMarkersDropped`, violated, section 4.4 |

Two rates give four tuples, enough to want a third while a second is being
built; a change is a negotiation or a model load, and four of them leave, return
and leave again. The depth of the real ring is the engine's; with two the control
loop finds it full while the callback is slow, which is the case that matters.
Generations are unbounded in the module: the bounded changes bound them.

Fairness: `WF` of the callback (PipeWire calls it once per quantum) and of the
control loop (it wakes at least every 100 ms). Nothing is owed by the user or
the server. `ratesync` allows one failing build, because with two the mute may
last (section 4.4); that the safety properties hold for any number of failures
is proved.

### 4.3 What is proved

`RateSync_proofs` proves, for every set of rates, ring capacity and bound, that
`Spec` implies `[]TypeOK`, `[]UnmutedIsResolved`, `[]ProceedsAtWantedRates` and
`InstalledAsRequested`. The inductive invariant `IInv` adds to the types:

* `Stamps`: no job, payload or failure marker carries a generation that was not
  requested yet;
* `RingSnapshot`, `JobSnapshot`: outside a publication, what is stamped with the
  current generation carries the current rates. Inside one the request is a
  mixture, but the publication ends by making every stamp old. This is why
  storing the rates before the generation, and reading them after it, is enough;
* `Resolution`, `Wants`, `Filed`: what the callback's own fields say at each
  step. `Filed` (a failure on file while a request is out is that of the same
  rates) is what makes a rollback file the failure under the rates wanted.

Two theorems take section 4.4 apart. `MutedIsServed`: however many builds fail,
`Spec /\ OnlyStaleMarkersDropped => []PendingIsServed`, so the lost marker is the
only way to a mute that nobody is at work for. `OneFailureIsKept`: with at most
one failing build no marker is lost (`MarkerInv`), hence `PendingServed`, which is
what the run checks. The invariant `ServedInv` follows the answer through the
handler: the flag stays up while it works (`Flagged`), what it is about to clear
is answered (`Answered`), and a request it missed is re-armed (`Served`).

`MuteEnds` is a liveness property and model-checked only.

### 4.4 A disagreement and an observation

* **A failure can be lost** (`ratesync_lost_failure`). The rollback guard loads
  the failure marker, finds it older than the request and stores 0. If the
  control loop fails the newer build between the two accesses, the store erases
  the new marker. Then nothing answers the request any more: no flag, no
  payload, no marker, and `sync_rate` believes it in flight. The host is mute
  until the rates change again. It takes two failing builds in a row and a
  callback suspended between two instructions; exchanging the marker only if it
  is still the stale one would close it.
* **An obsolete resampler can be installed** (no run). A return to the active
  rates advances the generation but leaves the requested rates. A control loop
  that was at work then builds the rates taken back once more, now under the
  current generation: because it captures the generation after the return, or
  because it re-arms the flag when it sees that the generation moved. The
  callback installs the result, notices that it is not what it wants, and mutes
  once more to get the right one. The comments in `rate_sync.rs` (lines 40-44
  and 122-125) promise that the build is invalidated and the obsolete
  replacement discarded. `ProceedsAtWantedRates` still holds: no audio runs
  through the wrong resampler.

## 5. BackendLifecycle

### 5.1 State and actions

The main thread starts an instance (connection, two streams, thread loop),
polls it, tears it down and decides whether to start another. The loop thread
calls the stream listeners, which keep the shared status. PipeWire (`link`,
`format`, `connected`) is the environment: no code reads these variables, the
listeners are its only effect.

| actions | code |
|---|---|
| `Pause` `Stream` `StreamError` `Disconnect` `AskShutdown` `AskTeardown` `ReportFailure` | `observe_stream_state`; the flags an `Unconnected` event is excused by are read one after the other, and the failure is marked after that |
| `AcceptFormat` `RejectFormat` | `param_changed_handler` of both streams |
| `SetActive` `MarkFormatOk` `MarkDegraded` `MarkFailed` `BeginReconnect` | the critical sections of `SharedBackendStatus`; `Health` is `update_stream_health_locked` |
| `Connect` `ContextFails` `InstanceFails` `Setup` `Start` | one round of the instance loop of `run_pipewire_host` up to the control loop |
| `TestShutdown` `PollFailure` `PollPanic` `PollStability` | one iteration of the control loop, one shared read per step |
| `Recheck` `EnterTeardown` `StopLoop` `DropStreams` `Decide` `Backoff` `Finish` | the teardown, the reconnect decision, `sleep_interruptible`, the end |
| `LoseConnection` `Panic` `Signal` `WindowElapses` | the daemon, a contained panic of a callback, the first termination signal, the clock |

`RetryBudget` holds the attempts and the stability window as the host sees
them: closed, open or elapsed. What the control loop does for other modules
(rebuilds, garbage, latency, banner) changes nothing here. What is assumed of
PipeWire is what the code assumes: a stream streams only after a format was
negotiated, `thread_loop.stop()` returns when the listener that runs is done,
and no listener runs after it. History variables: `ran`, `failedInWindow`.

### 5.2 Runs

| run | instance | asks |
|---|---|---|
| `lifecycle` | 2 streams, 2 attempts | `StatusIsTrue`, `EndIsHonest`, `SignalEnds`, `EstablishedLossEnds` |
| `lifecycle_zombie` `lifecycle_panic` | 2 streams, 1 attempt | violated, section 5.4 |

`StatusIsTrue` (`SnapshotCoherent`, `StateTellsHealth`, `RunningIsTrue`) ties the
state to the flags and the flags to PipeWire; `EndIsHonest` (`OkOnlyIfAsked`,
`GivesUpOnlyWhenSpent`, `StartupErrorOnlyAtStartup`) says how a session may end.
That an instance leaves nothing to the next (`InstanceStartsClean`) and that
attempts are given back only after health (`ReplenishedAfterHealth`) are proved
rather than run.

Bounds. None but `MaxAttempts`: every other variable ranges over a finite set,
and since attempts are given back, the runs cover any number of instances. Two
attempts distinguish the first, a later and the last. Deadlock is not checked,
because the session ends.

Fairness. `WF` of the main thread, whose waits are all bounded (100 ms, the
backoff); `WF` of a listener that has begun; and a connection that is lost is
eventually reported to each stream while the loop runs. Neither a pause, a
failure, a signal nor a reconnection is promised.

### 5.3 What is proved

`BackendLifecycle_proofs` proves `StatusIsTrue`, `EndIsHonest`,
`InstanceStartsClean` and `ReplenishedAfterHealth` for every set of streams and
every budget. The inductive invariant `IInv` adds to them:
`Position` (a listener runs only while the loop does, and the loop only between
`Start` and `StopLoop`), `BetweenInstances` (nothing is failed or active there),
`StatusFollows` (an active stream is streaming, a refused format is latched:
this is what makes `Running` true), `EndsBySignal`, `FreshBudget` (the attempts
are zero only before the first instance or during a later one, never between
two), and `WindowHonest` (a failure in an open window has not been repaired).
One lemma per part; the steps of the other threads are dealt with by two frame
lemmas. The liveness properties are model-checked only.

### 5.4 Two disagreements and an observation

* **A zombie** (`lifecycle_zombie`). `status.rs` (line 14) promises that "the
  process never survives as a functionally-dead zombie with no audio". If the
  daemon goes away while both streams are still connecting, `Unconnected` does
  not count as a loss (`was_connected`), nothing watches the core, and the
  control loop polls a dead backend until a signal. `EstablishedLossEnds` says
  what does hold.
* **A swallowed panic** (`lifecycle_panic`). The latch is looked at again after
  the control loop, so that a panic "always surfaces as a failure" (`run.rs`,
  line 782), but before the callbacks are stopped. A panic in between, or one
  that accompanies a stream failure and is followed by a signal in the backoff,
  ends in a clean result.
* **Success after a loss** (no run; `run.rs`, line 889). "The process never exits 0 after
  losing the audio backend" (`main.rs`, line 464), but a signal during the
  backoff, or a failure marked after the control loop saw the signal, makes
  `run_pipewire_host` return `Ok`.

The comment at `run.rs` line 277, that the budget is never reset, is older than
the replenishment that `PollStability` models.

## 6. WavSegments and RecordingSession

### 6.1 State and actions

`WavSegments` is the directory and the worker's hands on it, `RecordingSession`
the process around it. A file is its samples, its header and what of both a sync
has put on the disk; a sample is the number of the unit it is. The worker's
program counter says which operation of the file system comes next.

| actions | code |
|---|---|
| `TakeMetadata` `TakeBlock` `TakeStop` | what the drain loop hands over (its order is `RecordingTransport`); a block that meets no open segment is dropped, and counted by the history variable `dropped` alone |
| `Create` `OpenSegment` | exclusive creation under the first free suffix, the empty header |
| `WriteSome` `WriteRest` | `write_all_at`: any prefix at a time; the block is accounted with its last piece |
| `RewriteHeader` `SyncCheckpoint` `SyncFinal` | `rewrite_header_and_sync` of a checkpoint and of a finalization |
| `FailIO` | the `?` of each of these operations |
| `ProbeIoUring` `ValidateOutputDir` `RuntimePanics` `SendHandshake` `MarkActive` | the startup of the worker |
| `PublishSpace` `CheckSpace` `PublishStopped` `RecordFailure` `RaiseFlag` | what it publishes, store by store |
| `Configure` `Spawn` `SpawnFails` `WorkerReady` `WorkerNotReady` | `main` up to the host |
| `Poll` `EndHost` `Stop` `Join` `JoinTimeout` `Exit` | `RecordingAlert::poll`, the teardown and the exit code |
| `Kill` `PowerLoss` `Restart` | the faults, and the program started again in the same directory |

A kill leaves the files as they are, since the kernel has them. A power loss
takes from the file at hand what no sync has covered: any unsynced sample may be
lost or read as zero, the header may be any of those written since the sync, and
a segment that was never synced may be gone. It is assumed that the kernel has
written its caches back before a machine that was not switched off is used again,
and a torn write of the 44 bytes of a header is not modelled.

`RecordingSession` hands a block over while a segment is open, and without one
only once the capture was told to stop: before that a barrier always opens a
segment ahead of its blocks (theorem `BarriersFindTheirMetadata`), and section 3.4
is how it fails to afterwards.

### 6.2 Runs

`session`: one rate, blocks of 1 and 2 units, a checkpoint every 2 units, a
segment of 2 units at most, 3 units, 2 metadata or rollovers, 2 sessions, on a
clock that stands still so that every name but the first collides. Three units
fill a segment, roll over and leave a rest; the second session finds what the
first, finished, failed, killed or struck, has left.

* `SegmentsHoldTheTake`: the take can be cut into consecutive pieces, one for each
  segment of the session, unit by unit in its place (`HeldUpTo`); the summary says
  how much, no header promises more than its file holds, none outgrows its 32
  bits;
* `CheckpointBoundsLoss`: the samples of a header on the disk are on the disk,
  and at most a window and the block in hand are not;
* `ZeroMeansKept` (exit code zero: all that was handed over from the first segment
  on is in named files, synced under their final headers);
* `TakesAreKept` (a later segment, session, kill or power loss shortens,
  overwrites or removes nothing that was synced);
* `FailureReachesUser`, `ShutdownEnds`, under `WF` of the main thread alone: it
  polls with `try_lock` and joins with a deadline. Nothing is assumed of the
  worker, which may hang in the file system for ever.

### 6.3 A disagreement and observations

* **A dropped block is a success.**
  `write_block_with_overflow_rollover` writes and counts a block only if a segment
  is open (`disk.rs`, line 1119). A block that arrives without one is dropped
  without an error and without moving a loss counter, the worker ends well, the
  join returns `Success`, and the process exits with zero. The run
  `transport_orphan` (section 3.4) shows that it arrives; in `session` it is a step
  like any other, and the history variable `dropped` says how much went that way:
  states with exit code zero and `dropped > 0` are reached. `guard.rs` calls `Success` the only clean, lossless
  outcome (line 48), of a worker that "drained every block" (line 55), and its exit
  code a guarantee that "a recording that dropped audio never masquerades as a
  lossless capture" (line 94). `SegmentsHoldTheTake` and `ZeroMeansKept` are
  therefore stated from the first segment on: the pieces of the take begin behind
  what was dropped.
* The comment at `disk.rs` lines 51-63 bounds a loss by one checkpoint interval;
  it is an interval and the block that completes it (`CheckpointBoundsLoss`).
* `publish_space_status`, at the opening of a segment, clears a warning when the
  query of the free space fails, which the doc of `WavSink::free_bytes` excludes;
  the periodic check keeps it.
* The directory is not synced: a segment that was only created may vanish.

### 6.4 What is proved

`RecordingSession_proofs` proves, for every set of rates, clock values and block
sizes, every window, header size and number of units, segments, crashes and
restarts: `[]TypeOK`, `[]SegmentsHoldTheTake`, `[]CheckpointBoundsLoss`,
`[]ZeroMeansKept` and `TakesAreKept`. The inductive invariant `SessionInv`
adds to the types:

* `StepInv`, `PartInv`: at which steps of the worker a segment is open, and that
  exclusive creation always finds a free suffix;
* `OpenInv`: where the open segment has been written to and where it has been
  accounted, which differ only within a block (`BlockInv` says by how much, and
  that the block in hand is the end of the take);
* `SinceInv`, `SafeInv`: what was accounted since the last sync, less than a
  window and a block; what a sync made safe is a prefix of what was accounted;
* `SummaryInv`: each entry of the summary is a file of its own, and a finished one
  is complete, named and promises exactly its data;
* `HeldInv`: the pieces of the take (`Covers`) begin where the last block dropped
  for want of a segment ends (`Start`) and end where the block in hand begins. That
  a block is dropped only while the summary is empty (`StepInv`: a worker that
  waits without a segment has never had one) is what keeps them together;
* `EndInv`: success and exit code zero come after the last piece.

The step that matters is a short write: it changes the file without changing what
is accounted, so that a kill between two pieces leaves a prefix. `FailureReachesUser`
and `ShutdownEnds` are liveness properties and model-checked only.

## 7. StructuralSwaps

### 7.1 State and actions

Three families (cabinet, slimmable, oversampling) share one protocol: the
callback stores a value, advances a generation and raises a flag; the control
loop loads them, builds, pushes an envelope, clears the flag and raises it again
if the generation moved; a later callback swaps the envelope in and retires it.
Each of these accesses is a step, in the order of its own handler.

| actions | code |
|---|---|
| `BeginCallback` `RequestResampler` `ResamplerArrives` | the start of `rt_quantum_prologue`: the flush of the parking lot, the budget, the resampler (which `RateSync` models) |
| `Drain` (`InstallLatest`, `DiscardStale`, `LeaveQueued`) | the drain of a family and its install |
| `TakeGain` `TakeOversample` `TakeModel` `EndCommands` | `receive_commands`; one scalar stands for all |
| `TrySlimmableRebuild` `CheckCab` `StoreRequest` `AdvanceGeneration` `Arm` | the three requests, store by store |
| `CheckNeeds` `CaptureFirst` `CaptureSecond` `GiveUpFailed` `BuildAndPush` `BuildFails` `RejectWidth` `RejectFactor` `Clear` `RearmIfSuperseded` | the three handlers of the control loop |
| `ReleaseGarbage` | the periodic drain of the garbage ring and the overflow |
| `Send` | commands: from the main thread before the host runs and from the swap harness while it runs |

`RtSwapDrain` and `GcSink` belong to the engine and are modelled from how this
repository uses and tests them. The deferred slot of `receive_commands` is never
filled: a candidate is popped with budget in hand and nothing spends it before
the candidate is resolved.

### 7.2 Runs

| run | instance | asks |
|---|---|---|
| `swaps` | 2 host rates, the cabinet of one of which fails; 2 widths, one rejected; 2 factors, one rejected; rings, garbage and parking lot of 1; windows of 2 commands; 2 events, 1 fault | `TypeOK`, `InstalledAsRequested`, `LastCommandWins`, `RequestsStand`, `CabSettles`, `GarbageReleased` |
| `swaps_torn` | the same | `WidthSurvives`, violated |

Two events put a request into the middle of the answer to another, or two models
into one window. Fairness: `WF` of the callback and of the control loop, and a
resampler that is awaited arrives (`MuteEnds` of `RateSync`).

`RequestsStand`: the latest request of a family has its flag, is about to get it,
or was answered, and the answer is still there: its pair is in use or in the ring,
its build failed, or its value was refused (the history variable `refused` keeps
the generation a handler refused for its value). It relates the callback's stores,
between any two accesses of a handler, to what the handler leaves behind. It has
one exception, `Erased`: the latest factor was published between the comparison
and the clear of `RejectFactor` (section 7.3; the history variable `erased` keeps
its generation). Without it the run fails on exactly that.

`CabSettles`, `GarbageReleased`: a callback that checks the cabinet while the answer
to that very request is in the ring asks again and makes the answer stale
(section 7.3). Nothing in the code bounds how often, so the behaviour in which it
happens for ever exists. `MaxFaults` bounds how often the run follows it: the model
stops at a callback that would repeat it once more (`CutOff`), and both properties
end in `\/ <>[]CutOff`, which leaves those behaviours out of the claim by name.

### 7.3 Disagreements

**A width can be lost** (`swaps_torn`). `handle_slimmable_rebuild` loads the
target before the generation, the other handlers the generation first. A target
stored between the two loads is answered with the model of the old one under the
new generation: the drain accepts it, the flag is down, and the newer width is
never built. Reading the generation first would close it.

**A factor can be lost.** Where the factor is beyond the scratch,
`handle_oversample_rebuild` compares the generations and then clears the flag
(`handlers.rs`, line 927), the reverse of the re-arm, although its comments say
that a newer request always survives (line 882) and that this is the same guard as
the failure arm's (line 924). A factor published between the two loses its flag.
Only commands at run time publish one, and today only the harness sends those.
`RequestsStand` excepts such a factor, by its generation, until a newer one is asked
for.

**A cabinet in flight is asked for again.** The flag that
`cabsim_rebuild_needed` tests as `already_pending` (`capture/setup.rs`, line 461)
falls when the envelope is pushed, not when it is installed. A callback that
drained its ring before the push and checks after the flag fell advances the
generation, and the next drain discards the envelope. The doc (lines 436-442) says
that `already_pending` suppresses this, and that without it the pair would starve
for ever. One repetition costs one build; for ever it takes a control loop that
always pushes between the drain and the check. `CheckCab` repeats the request like
the code does; the disjunct `<>[]CutOff` of the two liveness properties names the
behaviours for which nothing is claimed.

An observation without a run: the harness counts a slot of the parking lot twice in
`gc_in_flight` while it is flushed.

### 7.4 What is proved

`StructuralSwaps_proofs` proves, for every set of rates, widths and factors, every
capacity and every bound: `[]TypeOK`, `[]InstalledAsRequested`,
`[]LastCommandWins` and `[]RequestsStand`. The inductive invariant
`SwapInv` says that no envelope carries a generation of the future or a pair that
cannot be built (`Stamps`), that outside a publication whatever is stamped with the
current generation answers the current value (`Snapshot`; for the cabinet and the
oversampling, whose handlers load the generation first, and not for the slimmable
model, section 7.3), that the last command of a kind in the queue is the last one
sent and that with none queued the callback has it (`LastQueued`), and that a
model waits for the end of its window with the budget in hand (`Window`), which is
why the deferred slot of `receive_commands` is never needed. For `RequestsStand` it
is `Standing`: until a handler clears it, the flag it works on is up; what it has
answered stays answered until it compares the generations, since a drain that
discards an envelope finds a newer generation and the handler will too; and a flag
taken after the comparison is that of a refused factor, or of one that is `Erased`.

`CabSettles` and `GarbageReleased` are liveness properties and model-checked only.

## 8. ControlPlane

Eleven small protocols that share no variable. Their product would interleave
steps that commute, so `ControlPlane` explores them one at a time: `selected` is
chosen at the start and only that protocol moves. Each has its own module, with
its own `Init`, `Next` and fairness; `ControlFairness` states the same fairness,
action by action, where the protocol is selected. The run `control` checks all of
them; its properties are the conjunctions below, each by what it is about.

| property | parts |
|---|---|
| `ControlTypeOK` | the type invariant of each |
| `WaitsAreBounded` | `EpisodeWithinBudget`, `LargestSchedule`, `BackoffNeverWraps`, `NoLostWakeup`, `ProbeIsBounded` |
| `LogIsComplete` | `SingleProducer`, `EveryEventAccounted` |
| `TelemetryIsHonest` | `NothingUncounted`, `SuppressionIsBounded`, `FailuresAreKept`, `TransitionsAreCounted`, `QuantumIsTold`, `NothingCutSilently` |
| `NothingIsIgnored` | `SignalEndsProcess`, `RaisedIsTold`, `PriorityIsTold`, `RecoveryIsAnnounced`, `ProbeAnswers` |
| `HostMemoryIsSound` | `NothingStalePlayed`, `CapturedIsSound` |
| `ImplementsBudget` | `ReconnectCycle` implements `RetryBudget` |
| `EscalationIsDeliberate` `SnapshotIsCoherent` `LatencyConverges` `BlockStaysWhole` | themselves |

The parts of `ReconnectPolicy` are evaluated only where the policy is selected;
elsewhere one of its initial states stands for it at rest.

### 8.1 ReconnectCycle and ReconnectPolicy

`ReconnectCycle` times the stability window: a clock, the sampled mirror of
Running that the loop thread changes at any time, and the calls of the main
thread (`BeginAttempt`, `NoteStable`, `NoteUnstable`). `ReconnectPolicy` is the
pure part: `BackoffForAttempt` in its machine width, its sum, and the loop of
`with_backoff_timeout`. Instance: 3 attempts, a window of 3 units in 10; the
production schedule for every whole second up to 120. A clock of 10 units has
room for three windows, or two and a failure. The width of 16 bits stands for 64:
the shift reaches its clamp and the product its ceiling in both; the theorems of
section 8.9 hold for every width. `MaxTime` ends the clock, not the other actions.
Powers and sums are recursive functions of naturals, saturating where the code
does.

Two notes on the documentation. The window is documented as uninterrupted
streaming, "any break in continuity forces a fresh `STABLE_RESET`"
(`reconnect.rs`, line 197); since the mirror is sampled (`run.rs`, line 588), a
pause that begins and ends between two polls leaves the window intact. And
`--reconnect-timeout 0`, which the repository's `README.md` (line 436) says
"behaves like `--fail-fast`", keeps one attempt.

### 8.2 TerminationSignals

One handler on whatever thread the kernel picks: load of the stage, exchange that
opens the window (it may fail for no reason), request of the shutdown, decision,
exit, each a step; the main thread arms the wide window, runs, joins the worker
and restores. Two deliveries, a clock of 3, windows of 1 and 2. Fairness: a
handler that runs ends, and the exchange, tried again and again, does not fail for
ever (`SF`); the main thread's waits are bounded.

Observed: between the end of a recording and the restored window a late signal
may force the exit with a message that the capture may be incomplete although it
is final; the join may take 60 s and the wide window is 5 s, so a user can cut the
finalization off, deliberately; a handler that decided to exit is not recalled by
an orderly exit that completes meanwhile.

### 8.3 LatencySnapshot

The writer: installation, the two increments of the sequence around the store,
the host rate. The reader: rate, sequence, three loads, validation, conversion,
update of both streams, one of which may refuse. Acquire and Release are argued
to suffice in the code; the module interleaves the accesses. Instance: latencies
0 and 3, two rates each, 2 installations, 2 instances. `LatencyConverges` under
`WF` of the callback and the control loop.

Observed: an update that a stream refuses is ignored and not repeated until the
next change; as long as no resampler is active the record keeps the rate of
48 kHz while its samples are computed for the negotiated rate.

### 8.4 LogRing

Marks, routing, ring, drain thread, removal; threads of two instances one after
the other, two events each, a ring of one. Every access of the ring's producer is
a step, since the code relies on the lives of threads for the single producer.
Observed: the order of two instances is not kept (a queued record of the first
may follow a dispatched one of the second); the cumulative count of drops is told
again after a reconnection, because the state of the poll is new and the count is
not; what is queued when the process ends is lost, as documented.

### 8.5 Telemetry, StatusLines, GateThrottle

`Telemetry`: overloads, dropped blocks and quanta are counted by the streams,
swapped out and added up by the poll, at the teardown once more; the drops of the
ramp are told from drift. `StatusLines`: a status bit is loaded, told once per
episode and cleared; a counter is compared; the outcome of the promotion is left
in atomics. `GateThrottle`: transitions and fades against the interval of a line.
Instances: 2 instances of the host, 2 sessions, 1 drop and 1 overload per state,
one bit and one counter (a sticky bit only latches longer), 4 polls of the gate.
Fairness: `WF` of the poll.

Observed: the quanta of the streams survive a reconnection and the state of the
poll does not, so the first poll of the new instance takes its ramp for complete
and reports its drops as drift, against the comment "Stream restarted /
reconnected: re-arm"; a stop and a restart between two polls are not seen; the
failure of an instance that ended before a poll is told by the next; the CPU of a
failed pinning is read apart from its error.

### 8.6 ControlWakeup

A listener stores and then notifies; the control loop serves and then waits; the
callback stores the quantum, raises its flag and notifies nobody. Signals and the
callback are served by the 100 ms of the timeout, which is why `WF` of the loop
does not ask for a notification. `handle_quantum_log` clears the flag after its
report (lines 439-481), so a quantum that is raised during the report stays
untold: `QuantumIsTold` says that this is the only way. A poisoned mutex, which
would turn the wait into a busy loop, is not modelled.

### 8.7 SinkProbe

`pw-metadata` as a child under a watchdog: the child writes, exits, hangs beyond
the reach of a signal, leaves a grandchild with the pipe; the probe reads in
slices, kills at the deadline, drains, waits for the killed one and parses. A unit
is a slice of 5 ms. Fairness: the main thread runs and time passes; nothing is
owed by the child.

Observed: `detect_hardware_sink` is public, but only tests call it today. Its doc
says that the deadline of 500 ms is never exceeded; the code may wait up to
500 ms more for the killed child (`pm_qos.rs`, lines 245-276), and the bound
checked is the deadline, one slice and the longer grace. A child that cannot be
reaped stays a zombie until the process ends. A failed query returns without a
kill; an interrupted poll ends the whole drain.

### 8.8 PlaybackPath

The bridge of two buffers with its indices and generations; the checks of the two
channels that the graph hands over, on both sides; delivery channel by channel and
the silence that replaces it. A channel is an address, a size, an offset and a
chunk; memory is counted in bytes, a sample being 2 of them. Nine channels (two
apart, an overlapping one, a misaligned one, none, one with an offset into a
larger area, a malformed and an absent chunk, one whose window reaches past its
area), quanta of 1 and 3 for frames of at
most 2, 4 blocks. `CapturedIsSound` compares the arithmetic on intervals with sets
of bytes.

Observed: a block published before a mute is delivered after it, old but never
twice; capture goes on while playback is paused.

### 8.9 What is proved

`WaitProtocols_proofs` and `DataProtocols_proofs` hold an inductive invariant for
each protocol; `ControlPlane_proofs` has those of the reports and the composition.
A turn of one protocol is a stuttering step of the ten others
(`EveryProtocolSteps`), so the conjunction of the eleven, `ControlInv`, is
inductive in `ControlPlane`, and from it follow `[]ControlTypeOK`,
`[]WaitsAreBounded`, `[]LogIsComplete`, `[]TelemetryIsHonest`,
`[]HostMemoryIsSound`, `EscalationIsDeliberate`, `SnapshotIsCoherent`,
`BlockStaysWhole`, `RecoveryIsAnnounced` and `ImplementsBudget`, each under
`ControlSpec` and for every value of the constants. The invariants:

* `CycleInv` (reconnect cycle): while a recovery waits for its announcement the
  window is closed (`Unannounced`), and what was slept is the sum of the backoffs
  of the attempts made (`SleptInv`), from which `EpisodeWithinBudget` follows. The
  refinement maps the clock to a window that is closed, open or elapsed; with it
  `BackendLifecycle` may speak of an elapsed window instead of a clock.
* `PolicyInv` (schedule): an attempt that was trimmed away did not fit. Then
  `BackoffBounds`: `backoff_for_attempt` lies between the smaller of the first
  backoff and the ceiling, and the ceiling, and never shrinks, for every attempt
  number and every width. The powers, the sums and the budget are recursive
  functions; that such functions exist is the lemma `Recursion`, proved from the
  well-foundedness of the naturals by gluing the finite beginnings together, and
  facts about all of their values follow by `EveryNatural`.
* `SignalsInv`: the delivery that opened the grace window can be named as long as
  it is open (`AnchorInv`), none is from the future (`DeliveredInv`), and the
  window is wide from before the capture begins to behind its end (`WideInv`).
* `WakeupInv`: what is unserved is notified, about to be, or being served
  (`PostedInv`); the quantum told is the one in force unless the flag is up, about
  to be, or the report was overtaken (`QuantumInv`).
* `ProbeInv`: each wait is of a step whose end was known when it began
  (`TimeInv`); each byte written is captured, in the pipe or known to be lost
  (`BytesInv`).
* `LatencyInv`: the sequence is odd exactly while a latency may change (`Parity`),
  a reader holds an even sequence that was in force (`HoldsEven`), and while the
  sequence has not moved, what was read so far is in force (`SeenSoFar`). A store
  happens only under an odd sequence, so it finds the reader's sequence already
  left behind; a reconnection rewrites the latencies only between two readings,
  since the main thread does both.
* `LogInv`: only the thread of the latest instance lives, and while it does the
  routing stands still (`SoleInv`), which is why a thread that consulted the
  routing may act on it (`ModeInv`); the log, the record in hand and the ring are
  one queue in the order of each thread (`QueueInv`); every event is where its fate
  left it or in its thread's hands (`FateInv`).
* `PathInv`: at most one block is published past the one the reader holds, and that
  one goes to the other buffer (`BridgeInv`, `HeldInv`); what was accepted of the
  host stays accepted while it is used (`HandedInv`).
* `TelemetryInv` with `RampInv`: each new quantum renews the budget of polls and the
  last one ends the ramp, so the polls that were excused are bounded by their
  product; `LinesInv` and `GateInv` are inductive as they stand.

The assumptions are the named ones of the modules. Two of them say that there is
at least one instance of the host (`MaxHosts`) and one bring-up (`MaxBringups`):
the initial state is inside the first.

`LatencyConverges` and the other parts of `NothingIsIgnored` are liveness
properties and model-checked only.

## 9. Not modelled

* The DSP: what a model, a resampler, a cabinet or an oversampling engine
  computes, and the counters and audits inside `process_dsp_buffer`.
* Latency histograms, the check of the deadline, memory locking, huge pages, the
  C-state lock: system calls and arithmetic without a protocol. The histograms are
  read and then reset, so samples between the two are lost.
* Parsing and validation of the command line, banner, launcher, wording, the bytes
  of the SPA pods: sequential and stateless.
* Receipts and benchmarks (`src/receipt`, `src/bin`): they measure the program.
* Weak memory: accesses are interleaved. On x86-64 the read-modify-writes are
  fences and the plain accesses are ordered as the code needs.
* A panic of the disk worker inside its loop; its join would report it.

Checked by TLC only: the properties under fairness (`ShutdownCompletes`,
`PublishedIsWritten`, `MuteEnds`, `SignalEnds`, `EstablishedLossEnds`,
`FailureReachesUser`, `ShutdownEnds`, `CabSettles`, `GarbageReleased`,
`LatencyConverges` and the leads-to parts of `NothingIsIgnored`), since liveness
and `ENABLED` are out of the prover's reach, and of course the five violated
claims. The proofs do not rest on the bounds of the runs.
