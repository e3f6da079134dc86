------------------------- MODULE RecordingTransport -------------------------
(***************************************************************************)
(* The lossless capture path of the host: how one quantum of audio travels *)
(* from the real-time PipeWire callback to a WAV segment, and how the      *)
(* capture is stopped.                                                     *)
(*                                                                         *)
(* Three threads share three wait-free single-producer rings:              *)
(*                                                                         *)
(*   real-time callback --control--> nam-recording-io   metadata, stop     *)
(*   real-time callback ---work----> nam-recording-io   slots and barriers *)
(*   real-time callback <--free----- nam-recording-io   recycled slots     *)
(*   main thread (RecordingWorkerGuard): StreamStop, drop, bounded join    *)
(*                                                                         *)
(* A ring is the log of everything ever pushed into it and the position    *)
(* its consumer has read up to, as in the indices of an rtrb ring: what it *)
(* holds is the part of the log after the read position.                   *)
(*                                                                         *)
(* Sequence numbers stay unwrapped here and are compared by Wire, the      *)
(* 16-bit value that is really carried.  The fields nth (of a descriptor), *)
(* the logs published and recorded, captured, suppressed and orphaned are  *)
(* history: no guard reads them.                                           *)
(***************************************************************************)
EXTENDS Integers, Sequences, FiniteSets

CONSTANTS
    N,                \* preallocated pool slots (POOL_CAPACITY)
    ControlCapacity,  \* capacity of the control ring (CONTROL_CAPACITY)
    WorkCapacity,     \* capacity of the work ring
    Rates,            \* host sample rates
    SeqMod,           \* sequence numbers are u16: 2^16
    MaxBlocks,        \* bound: quanta of audio captured
    MaxSeq,           \* bound: metadata messages published
    MaxReconnects     \* bound: capture sessions rebuilt after a lost server

CONTROL_BARRIER_SLOT == 2^16 - 1

ASSUME CapacityAssumption ==
    /\ N \in Nat /\ 0 < N /\ N < CONTROL_BARRIER_SLOT
    /\ ControlCapacity \in Nat \ {0}
    /\ WorkCapacity \in Nat \ {0}

ASSUME RateAssumption == Rates \subseteq Nat \ {0} /\ Rates # {}

ASSUME SeqAssumption == SeqMod \in Nat /\ 2 <= SeqMod /\ SeqMod % 2 = 0

ASSUME BoundAssumption == MaxBlocks \in Nat /\ MaxSeq \in Nat /\ MaxReconnects \in Nat

(* How RecordingPool::new dimensions the work ring for the control ring.   *)
RingsSized == WorkCapacity = N + ControlCapacity

Slots == 0 .. (N - 1)
NoSlot == -1
NoDesc == [slot |-> NoSlot, seq |-> 0, nth |-> 0]
NoWriter == [seq |-> 0, rate |-> 0]
NoBarrier == [seq |-> 0, rate |-> 0]
StreamStop == [kind |-> "stop", seq |-> 0, rate |-> 0]

Metadata(s, r) == [kind |-> "meta", seq |-> s, rate |-> r]

VARIABLES
    free, freeRead,          \* free ring: slot indices
    work, workRead,          \* work ring: descriptors of blocks, barriers
    workAbandoned,           \* the pool producer was dropped
    control, controlRead,    \* control ring: metadata, StreamStop
    controlAbandoned,        \* the control producer was dropped
    content,                 \* block stored in each slot, 0 before the first
    rtPc, hostRate,          \* real-time callback: step, host rate
    metaSent, metaRate,      \* recording_meta_sent, recording_meta_rate
    pendingBarrier, nextSeq, \* RecordingSender::Pool
    barrierSeq, rtSlot,      \* last sequence number sent, slot being filled
    failedFlag,              \* recording failure flag the callback polls
    overruns, slotLeaks,     \* OVERRUN_COUNT, PoolSlots::slot_leaks
    reconnects,              \* capture sessions rebuilt so far
    wPc, wDesc, draining,    \* worker: step, block in flight, stop consumed
    writer, wResult,         \* worker: open segment, returned result
    guardPc, sawLeaks,       \* guard teardown: step, leaks it read
    outcome,                 \* RecordingWorkerOutcome
    captured, suppressed,    \* history: quanta produced, not offered
    published, recorded,     \* history: blocks pushed, blocks written
    orphaned                 \* history: confirmed metadata discarded at the stop

freeVars == <<free, freeRead>>
workVars == <<work, workRead>>
ctlVars == <<control, controlRead>>
aliveVars == <<workAbandoned, controlAbandoned>>
senderVars == <<pendingBarrier, nextSeq>>
metaVars == <<hostRate, metaSent, metaRate>>
rtVars == <<rtPc, barrierSeq, rtSlot>>
workerVars == <<wPc, wDesc, draining, writer, wResult>>
guardVars == <<guardPc, sawLeaks, outcome>>
countVars == <<overruns, suppressed, captured>>
logVars == <<published, recorded, orphaned>>

vars == <<freeVars, workVars, ctlVars, aliveVars, content, rtVars, metaVars,
          senderVars, failedFlag, slotLeaks, reconnects, workerVars,
          guardVars, countVars, logVars>>

FreeEmpty == freeRead = Len(free)
FreeFull == Len(free) - freeRead >= N
WorkEmpty == workRead = Len(work)
WorkFull == Len(work) - workRead >= WorkCapacity
ControlEmpty == controlRead = Len(control)
ControlFullLate == Len(control) - controlRead > ControlCapacity
ControlFull == Len(control) - controlRead >= ControlCapacity
StopAtHead == ~ControlEmpty /\ control[controlRead + 1].kind = "stop"
MetadataAtHead == ~ControlEmpty /\ control[controlRead + 1].kind = "meta"

(* A consumer's read position once it has popped an item.                  *)
PopLeavesItem(read) == read
Popped(read) == read + 1

IsBarrier(desc) == desc.slot = CONTROL_BARRIER_SLOT

Wire(s) == s % SeqMod

(* Both halves of the sender were dropped: nothing can be pushed again.    *)
AbandonedUnchecked == TRUE
Abandoned == workAbandoned /\ controlAbandoned

(* Metadata whose barrier is in the work ring.                             *)
ConfirmedSeqs == {work[i].seq : i \in {j \in (workRead + 1) .. Len(work) : IsBarrier(work[j])}}

Init ==
    /\ free = [i \in 1 .. N |-> i - 1] /\ freeRead = 0
    /\ work = <<>> /\ workRead = 0 /\ workAbandoned = FALSE
    /\ control = <<>> /\ controlRead = 0 /\ controlAbandoned = FALSE
    /\ content = [s \in Slots |-> 0]
    /\ rtPc = "idle" /\ hostRate \in Rates
    /\ metaSent = FALSE /\ metaRate = 0
    /\ pendingBarrier = NoBarrier /\ nextSeq = 1
    /\ barrierSeq = 0 /\ rtSlot = NoSlot
    /\ failedFlag = FALSE /\ overruns = 0 /\ slotLeaks = 0 /\ reconnects = 0
    /\ wPc = "pop" /\ wDesc = NoDesc /\ draining = FALSE
    /\ writer = NoWriter /\ wResult = "none"
    /\ guardPc = "running" /\ sawLeaks = 0 /\ outcome = "none"
    /\ captured = 0 /\ suppressed = 0
    /\ published = <<>> /\ recorded = <<>> /\ orphaned = {}

-----------------------------------------------------------------------------
(* The real-time callback.                                                 *)

(* The callback begins; its prologue may have observed a new host rate.    *)
(* With MaxSeq messages sent, a callback that would need another is not    *)
(* taken.                                                                  *)
StartCallback ==
    /\ rtPc = "idle" /\ guardPc = "running"
    /\ rtPc' = "meta"
    /\ \E r \in Rates :
        /\ nextSeq <= MaxSeq \/ (metaSent /\ metaRate = r)
        /\ hostRate' = r
    /\ UNCHANGED <<freeVars, workVars, ctlVars, aliveVars, content, barrierSeq,
                   rtSlot, metaSent, metaRate, senderVars, failedFlag, slotLeaks,
                   reconnects, workerVars, guardVars, countVars, logVars>>

(* The metadata of the current host rate is confirmed.                     *)
RateIgnored == metaSent
MetadataCurrent == metaSent /\ metaRate = hostRate

(* The same metadata is waiting for its barrier only.                      *)
RetriesBarrier == pendingBarrier # NoBarrier /\ pendingBarrier.rate = hostRate

(* send_recording_metadata finds nothing to send: the worker has failed,   *)
(* or the rate is already confirmed.                                       *)
SkipMetadata ==
    /\ rtPc = "meta"
    /\ failedFlag \/ MetadataCurrent
    /\ rtPc' = "audio"
    /\ UNCHANGED <<freeVars, workVars, ctlVars, aliveVars, content, barrierSeq,
                   rtSlot, metaVars, senderVars, failedFlag, slotLeaks,
                   reconnects, workerVars, guardVars, countVars, logVars>>

(* try_push_metadata up to its barrier: a metadata whose barrier failed is *)
(* not pushed again; a full control ring refuses a new one.                *)
PushMetadata ==
    /\ rtPc = "meta"
    /\ ~failedFlag /\ ~MetadataCurrent
    /\ metaSent' = FALSE
    /\ \/ /\ RetriesBarrier
          /\ rtPc' = "barrier" /\ barrierSeq' = pendingBarrier.seq
          /\ UNCHANGED <<control, nextSeq>>
       \/ /\ ~RetriesBarrier /\ ControlFull
          /\ rtPc' = "audio"
          /\ UNCHANGED <<control, nextSeq, barrierSeq>>
       \/ /\ ~RetriesBarrier /\ ~ControlFull
          /\ control' = Append(control, Metadata(nextSeq, hostRate))
          /\ nextSeq' = nextSeq + 1
          /\ rtPc' = "barrier" /\ barrierSeq' = nextSeq
    /\ UNCHANGED <<freeVars, workVars, controlRead, aliveVars, content, rtSlot,
                   hostRate, metaRate, pendingBarrier, failedFlag, slotLeaks,
                   reconnects, workerVars, guardVars, countVars, logVars>>

(* try_push_barrier, and the confirmation the callback keeps of it.        *)
PushBarrier ==
    /\ rtPc = "barrier"
    /\ rtPc' = "audio"
    /\ \/ /\ ~WorkFull
          /\ work' = Append(work, [slot |-> CONTROL_BARRIER_SLOT, seq |-> barrierSeq,
                                   nth |-> Len(published)])
          /\ pendingBarrier' = NoBarrier
          /\ metaSent' = TRUE /\ metaRate' = hostRate
       \/ /\ WorkFull
          /\ pendingBarrier' = [seq |-> barrierSeq, rate |-> hostRate]
          /\ UNCHANGED <<work, metaSent, metaRate>>
    /\ UNCHANGED <<freeVars, workRead, ctlVars, aliveVars, content, barrierSeq,
                   rtSlot, hostRate, nextSeq, failedFlag, slotLeaks, reconnects,
                   workerVars, guardVars, countVars, logVars>>

(* A callback that resampled to zero frames records nothing.               *)
SkipAudio ==
    /\ rtPc = "audio"
    /\ rtPc' = "idle"
    /\ UNCHANGED <<freeVars, workVars, ctlVars, aliveVars, content, barrierSeq,
                   rtSlot, metaVars, senderVars, failedFlag, slotLeaks,
                   reconnects, workerVars, guardVars, countVars, logVars>>

(* The record-enqueue stage up to the slot: suspended once the worker has  *)
(* failed, an overrun without a confirmed metadata, for a quantum that no  *)
(* block can hold, or with every slot in flight.                           *)
RecordAudio ==
    /\ rtPc = "audio"
    /\ captured < MaxBlocks
    /\ captured' = captured + 1
    /\ \/ /\ failedFlag
          /\ rtPc' = "idle" /\ suppressed' = suppressed + 1
          /\ UNCHANGED <<freeRead, rtSlot, overruns>>
       \/ /\ ~failedFlag
          /\ \E oversized \in BOOLEAN : oversized \/ ~metaSent \/ FreeEmpty
          /\ rtPc' = "idle" /\ overruns' = overruns + 1
          /\ UNCHANGED <<freeRead, rtSlot, suppressed>>
       \/ /\ ~failedFlag /\ metaSent /\ ~FreeEmpty
          /\ rtPc' = "fill" /\ rtSlot' = free[freeRead + 1]
          /\ freeRead' = Popped(freeRead)
          /\ UNCHANGED <<overruns, suppressed>>
    /\ UNCHANGED <<free, workVars, ctlVars, aliveVars, content, barrierSeq,
                   metaVars, senderVars, failedFlag, slotLeaks, reconnects,
                   workerVars, guardVars, logVars>>

(* fill_planar writes the quantum into the acquired slot.                  *)
FillPlanar ==
    /\ rtPc = "fill"
    /\ rtPc' = "publish"
    /\ content' = [content EXCEPT ![rtSlot] = captured]
    /\ UNCHANGED <<freeVars, workVars, ctlVars, aliveVars, barrierSeq, rtSlot,
                   metaVars, senderVars, failedFlag, slotLeaks, reconnects,
                   workerVars, guardVars, countVars, logVars>>

(* AcquiredSlot::publish; a refused descriptor leaks its slot.             *)
Publish ==
    /\ rtPc = "publish"
    /\ rtPc' = "idle" /\ rtSlot' = NoSlot
    /\ \/ /\ ~WorkFull
          /\ work' = Append(work, [slot |-> rtSlot, seq |-> barrierSeq,
                                   nth |-> Len(published) + 1])
          /\ published' = Append(published, [block |-> captured, seq |-> barrierSeq,
                                             rate |-> hostRate])
          /\ UNCHANGED <<overruns, slotLeaks>>
       \/ /\ WorkFull
          /\ overruns' = overruns + 1 /\ slotLeaks' = slotLeaks + 1
          /\ UNCHANGED <<work, published>>
    /\ UNCHANGED <<freeVars, workRead, ctlVars, aliveVars, content, barrierSeq,
                   metaVars, senderVars, failedFlag, reconnects, workerVars,
                   guardVars, captured, suppressed, recorded, orphaned>>

(* A lost PipeWire server: the loop is stopped, the streams are rebuilt    *)
(* with a fresh CaptureState and the sender of the old one.                *)
Reconnect ==
    /\ rtPc = "idle" /\ guardPc = "running"
    /\ reconnects < MaxReconnects /\ nextSeq <= MaxSeq
    /\ reconnects' = reconnects + 1
    /\ metaSent' = FALSE /\ metaRate' = 0
    /\ UNCHANGED <<freeVars, workVars, ctlVars, aliveVars, content, rtVars,
                   hostRate, senderVars, failedFlag, slotLeaks, workerVars,
                   guardVars, countVars, logVars>>

RealTime ==
    \/ StartCallback \/ SkipMetadata \/ PushMetadata \/ PushBarrier
    \/ SkipAudio \/ RecordAudio \/ FillPlanar \/ Publish \/ Reconnect

-----------------------------------------------------------------------------
(* The disk worker, disk_writer_loop_pool.                                 *)

(* A step of the worker that fails: the error propagates with `?`, the     *)
(* block in flight is dropped and counted as leaked, the writer is closed  *)
(* without being finalized.                                                *)
Fail(leak) ==
    /\ wPc' = "failing"
    /\ writer' = NoWriter
    /\ slotLeaks' = slotLeaks + leak

(* try_pop, in the loop or in the drain that follows StreamStop.           *)
PopWork ==
    /\ wPc = "pop"
    /\ \/ /\ ~WorkEmpty
          /\ LET desc == work[workRead + 1] IN
                /\ wDesc' = desc
                /\ wPc' = IF IsBarrier(desc) THEN "barrier" ELSE "write"
          /\ workRead' = Popped(workRead)
       \/ /\ WorkEmpty
          /\ wPc' = IF draining THEN "finalize" ELSE "peek"
          /\ UNCHANGED <<wDesc, workRead>>
    /\ UNCHANGED <<freeVars, work, ctlVars, aliveVars, content, rtVars, metaVars,
                   senderVars, failedFlag, slotLeaks, reconnects, draining,
                   writer, wResult, guardVars, countVars, logVars>>

Matches(msg, seq) == msg.kind = "meta" /\ Wire(msg.seq) = Wire(seq)

(* RFC 1982 order: the metadata is older than the barrier.                 *)
NeverSuperseded(msg, seq) == FALSE
Superseded(msg, seq) ==
    /\ msg.kind = "meta" /\ ~Matches(msg, seq)
    /\ (Wire(seq) - Wire(msg.seq)) % SeqMod < SeqMod \div 2

(* Read position p is where handle_control_barrier stops discarding.       *)
PastSuperseded(p, seq) ==
    /\ \A i \in (controlRead + 1) .. p : Superseded(control[i], seq)
    /\ p < Len(control) => ~Superseded(control[p + 1], seq)

(* handle_control_barrier: the metadata of this barrier opens a new part.  *)
(* Finalizing the previous part or creating the new one may fail.  With    *)
(* StreamStop, a later metadata or nothing at the head, the barrier is     *)
(* skipped.                                                                *)
HandleControlBarrier ==
    /\ wPc = "barrier"
    /\ \E p \in controlRead .. Len(control) :
        /\ PastSuperseded(p, wDesc.seq)
        /\ \/ /\ p < Len(control) /\ Matches(control[p + 1], wDesc.seq)
              /\ controlRead' = Popped(p)
              /\ \/ /\ writer' = [seq |-> control[p + 1].seq,
                                   rate |-> control[p + 1].rate]
                    /\ wPc' = "release"
                    /\ UNCHANGED slotLeaks
                 \/ Fail(1)
           \/ /\ ~(p < Len(control) /\ Matches(control[p + 1], wDesc.seq))
              /\ controlRead' = p
              /\ wPc' = "release"
              /\ UNCHANGED <<writer, slotLeaks>>
    /\ UNCHANGED <<freeVars, workVars, control, aliveVars, content, rtVars,
                   metaVars, senderVars, failedFlag, reconnects, wDesc,
                   draining, wResult, guardVars, countVars, logVars>>

(* write_block_with_overflow_rollover: without an open segment the block   *)
(* is dropped.  Writing, rolling over or checkpointing may fail.           *)
WriteBlock ==
    /\ wPc = "write"
    /\ \/ /\ writer # NoWriter
          /\ recorded' = Append(recorded, [block |-> content[wDesc.slot],
                                           seq |-> writer.seq, rate |-> writer.rate])
          /\ wPc' = "release"
          /\ UNCHANGED <<writer, slotLeaks>>
       \/ /\ writer # NoWriter
          /\ Fail(1)
          /\ UNCHANGED recorded
       \/ /\ writer = NoWriter
          /\ wPc' = "release"
          /\ UNCHANGED <<recorded, writer, slotLeaks>>
    /\ UNCHANGED <<freeVars, workVars, ctlVars, aliveVars, content, rtVars,
                   metaVars, senderVars, failedFlag, reconnects, wDesc, draining,
                   wResult, guardVars, countVars, published, orphaned>>

(* InFlightBlock::release: a barrier holds no slot.                        *)
Release ==
    /\ wPc = "release"
    /\ wPc' = "pop" /\ wDesc' = NoDesc
    /\ free' = IF IsBarrier(wDesc) \/ FreeFull THEN free ELSE Append(free, wDesc.slot)
    /\ slotLeaks' = IF ~IsBarrier(wDesc) /\ FreeFull THEN slotLeaks + 1 ELSE slotLeaks
    /\ UNCHANGED <<freeRead, workVars, ctlVars, aliveVars, content, rtVars,
                   metaVars, senderVars, failedFlag, reconnects, draining,
                   writer, wResult, guardVars, countVars, logVars>>

(* The stop handler drains what raced into the work ring, then finalizes.  *)
SkipDrain == "finalize"
AfterStreamStop == "pop"

(* The work ring was empty: look at the head of the control ring.          *)
PeekControl ==
    /\ wPc = "peek"
    /\ \/ /\ StopAtHead
          /\ controlRead' = Popped(controlRead)
          /\ draining' = TRUE /\ wPc' = AfterStreamStop
          /\ UNCHANGED orphaned
       \/ /\ MetadataAtHead /\ Abandoned
          /\ controlRead' = Popped(controlRead)
          /\ orphaned' = orphaned \union ({control[controlRead + 1].seq} \intersect ConfirmedSeqs)
          /\ wPc' = "pop"
          /\ UNCHANGED draining
       \/ /\ ~StopAtHead
          /\ ~(MetadataAtHead /\ Abandoned)
          /\ wPc' = "terminal"
          /\ UNCHANGED <<controlRead, draining, orphaned>>
    /\ UNCHANGED <<freeVars, workVars, control, aliveVars, content, rtVars,
                   metaVars, senderVars, failedFlag, slotLeaks, reconnects, wDesc,
                   writer, wResult, guardVars, countVars, published, recorded>>

(* Terminal condition (2): no block can ever arrive again.                 *)
OnlyStopEnds == FALSE
FullyDrained == Abandoned /\ ControlEmpty /\ WorkEmpty

(* The terminal check, else the idle poll.                                 *)
CheckTerminal ==
    /\ wPc = "terminal"
    /\ wPc' = IF FullyDrained THEN "finalize" ELSE "pop"
    /\ UNCHANGED <<freeVars, workVars, ctlVars, aliveVars, content, rtVars,
                   metaVars, senderVars, failedFlag, slotLeaks, reconnects, wDesc,
                   draining, writer, wResult, guardVars, countVars, logVars>>

(* Both terminal paths: what is left in the control ring is discarded, the *)
(* open segment is finalized (its error is the worker's), the loop ends.   *)
(* publish_worker_result raises no flag on success.                        *)
FinalizeCapture ==
    /\ wPc = "finalize"
    /\ controlRead' = Len(control)
    /\ orphaned' = orphaned \union
          (ConfirmedSeqs \intersect {control[i].seq : i \in (controlRead + 1) .. Len(control)})
    /\ \/ /\ wPc' = "exited" /\ wResult' = "ok"
          /\ writer' = NoWriter
          /\ UNCHANGED slotLeaks
       \/ /\ writer # NoWriter
          /\ Fail(0)
          /\ UNCHANGED wResult
    /\ UNCHANGED <<freeVars, workVars, control, aliveVars, content, rtVars,
                   metaVars, senderVars, failedFlag, reconnects, wDesc, draining,
                   guardVars, countVars, published, recorded>>

(* publish_worker_result of an error raises the failure flag, before the   *)
(* thread returns.                                                         *)
RaiseFailure ==
    /\ wPc = "failing" /\ ~failedFlag
    /\ failedFlag' = TRUE
    /\ UNCHANGED <<freeVars, workVars, ctlVars, aliveVars, content, rtVars,
                   metaVars, senderVars, slotLeaks, reconnects, workerVars,
                   guardVars, countVars, logVars>>

ExitFailed ==
    /\ wPc = "failing" /\ failedFlag
    /\ wPc' = "exited" /\ wResult' = "err"
    /\ UNCHANGED <<freeVars, workVars, ctlVars, aliveVars, content, rtVars,
                   metaVars, senderVars, failedFlag, slotLeaks, reconnects, wDesc,
                   draining, writer, guardVars, countVars, logVars>>

Worker ==
    \/ PopWork \/ HandleControlBarrier \/ WriteBlock \/ Release
    \/ PeekControl \/ CheckTerminal \/ FinalizeCapture
    \/ RaiseFailure \/ ExitFailed

-----------------------------------------------------------------------------
(* The main thread: RecordingWorkerGuard::shutdown after the audio loop.   *)

(* thread_loop.stop() returns with no callback running and none to come.   *)
StopLoop ==
    /\ guardPc = "running" /\ rtPc = "idle"
    /\ guardPc' = "stopped" /\ rtPc' = "stopped"
    /\ UNCHANGED <<freeVars, workVars, ctlVars, aliveVars, content, barrierSeq,
                   rtSlot, metaVars, senderVars, failedFlag, slotLeaks,
                   reconnects, workerVars, sawLeaks, outcome, countVars, logVars>>

(* teardown reads the failure flag and the leak count: a worker that has   *)
(* already failed is sent no token.                                        *)
BeginTeardown ==
    /\ guardPc = "stopped"
    /\ sawLeaks' = slotLeaks
    /\ guardPc' = IF failedFlag THEN "drop_control" ELSE "push_stop"
    /\ UNCHANGED <<freeVars, workVars, ctlVars, aliveVars, content, rtVars,
                   metaVars, senderVars, failedFlag, slotLeaks, reconnects,
                   workerVars, outcome, countVars, logVars>>

(* push_stream_stop reaches its deadline only while the ring stays full.   *)
StopDeadline == ControlFull

(* push_stream_stop: retried while the control ring is full, given up at   *)
(* the deadline.                                                           *)
PushStreamStop ==
    /\ guardPc = "push_stop"
    /\ guardPc' = "drop_control"
    /\ \/ /\ ~ControlFull
          /\ control' = Append(control, StreamStop)
       \/ /\ StopDeadline
          /\ UNCHANGED control
    /\ UNCHANGED <<freeVars, workVars, controlRead, aliveVars, content, rtVars,
                   metaVars, senderVars, failedFlag, slotLeaks, reconnects,
                   workerVars, sawLeaks, outcome, countVars, logVars>>

(* Dropping the sender drops its control producer, then its pool producer. *)
DropControl ==
    /\ guardPc = "drop_control"
    /\ guardPc' = "drop_work" /\ controlAbandoned' = TRUE
    /\ UNCHANGED <<freeVars, workVars, ctlVars, workAbandoned, content, rtVars,
                   metaVars, senderVars, failedFlag, slotLeaks, reconnects,
                   workerVars, sawLeaks, outcome, countVars, logVars>>

DropWork ==
    /\ guardPc = "drop_work"
    /\ guardPc' = "joining" /\ workAbandoned' = TRUE
    /\ UNCHANGED <<freeVars, workVars, ctlVars, controlAbandoned, content, rtVars,
                   metaVars, senderVars, failedFlag, slotLeaks, reconnects,
                   workerVars, sawLeaks, outcome, countVars, logVars>>

(* Audio was lost on the way into the rings.                               *)
OverrunsIgnored == sawLeaks > 0
CaptureLost == overruns > 0 \/ sawLeaks > 0

(* join_recording_io and classify_loss.  The deadline may pass while the   *)
(* worker is still draining.                                               *)
Join ==
    /\ guardPc = "joining"
    /\ guardPc' = "done"
    /\ \/ /\ wPc = "exited"
          /\ outcome' = CASE wResult = "err" -> "Failed"
                          [] wResult = "ok" /\ CaptureLost -> "SuccessWithLoss"
                          [] OTHER -> "Success"
       \/ /\ wPc # "exited"
          /\ outcome' = "TimedOut"
    /\ UNCHANGED <<freeVars, workVars, ctlVars, aliveVars, content, rtVars,
                   metaVars, senderVars, failedFlag, slotLeaks, reconnects,
                   workerVars, sawLeaks, countVars, logVars>>

Teardown == BeginTeardown \/ PushStreamStop \/ DropControl \/ DropWork \/ Join

(* The session is over: nothing is left to run.                            *)
Terminated == guardPc = "done" /\ wPc = "exited" /\ UNCHANGED vars

Next == RealTime \/ Worker \/ StopLoop \/ Teardown \/ Terminated

(* Both threads the shutdown relies on keep running: the worker polls, and *)
(* the main thread runs teardown to its end.  Nothing is assumed of the    *)
(* audio callbacks, which PipeWire drives, nor that the host is ever       *)
(* stopped.                                                                *)
Spec == Init /\ [][Next]_vars /\ WF_vars(Worker) /\ WF_vars(Teardown)

-----------------------------------------------------------------------------
(* Properties.                                                             *)

Descriptors == [slot : Slots \union {CONTROL_BARRIER_SLOT}, seq : Nat, nth : Nat]
Messages == [kind : {"meta", "stop"}, seq : Nat, rate : Nat]
Headers == [seq : Nat, rate : Nat]
Takes == [block : Nat, seq : Nat, rate : Nat]

RingTypes ==
    /\ free \in Seq(Slots) /\ freeRead \in 0 .. Len(free)
    /\ work \in Seq(Descriptors) /\ workRead \in 0 .. Len(work)
    /\ control \in Seq(Messages) /\ controlRead \in 0 .. Len(control)
    /\ workAbandoned \in BOOLEAN /\ controlAbandoned \in BOOLEAN
    /\ content \in [Slots -> Nat]

CallbackTypes ==
    /\ rtPc \in {"idle", "meta", "barrier", "audio", "fill", "publish", "stopped"}
    /\ hostRate \in Rates /\ metaSent \in BOOLEAN /\ metaRate \in Nat
    /\ pendingBarrier \in Headers /\ nextSeq \in Nat \ {0} /\ barrierSeq \in Nat
    /\ rtSlot \in Slots \union {NoSlot}
    /\ rtPc \in {"fill", "publish"} <=> rtSlot # NoSlot
    /\ overruns \in Nat /\ slotLeaks \in Nat /\ reconnects \in Nat

WorkerTypes ==
    /\ wPc \in {"pop", "barrier", "write", "release", "peek", "terminal",
                "finalize", "failing", "exited"}
    /\ wDesc \in Descriptors \union {NoDesc}
    /\ wPc = "barrier" => IsBarrier(wDesc)
    /\ wPc = "write" => wDesc.slot \in Slots
    /\ wPc = "release" => wDesc \in Descriptors
    /\ wPc \in {"pop", "peek", "terminal", "finalize"} => wDesc = NoDesc
    /\ draining \in BOOLEAN /\ writer \in Headers
    /\ wResult \in {"none", "ok", "err"}
    /\ failedFlag \in BOOLEAN

GuardTypes ==
    /\ guardPc \in {"running", "stopped", "push_stop", "drop_control", "drop_work",
                    "joining", "done"}
    /\ rtPc = "stopped" <=> guardPc # "running"
    /\ sawLeaks \in Nat
    /\ outcome \in {"none", "Success", "SuccessWithLoss", "Failed", "TimedOut"}

HistoryTypes ==
    /\ captured \in Nat /\ suppressed \in Nat
    /\ published \in Seq(Takes) /\ recorded \in Seq(Takes)
    /\ orphaned \subseteq Nat

(* Every variable holds a value of its kind, no ring is read past its end, *)
(* and the callback and the worker hold a slot or a descriptor exactly     *)
(* while they are at a step that uses one.                                 *)
TypeOK == RingTypes /\ CallbackTypes /\ WorkerTypes /\ GuardTypes /\ HistoryTypes

InFree(i) == i \in (freeRead + 1) .. Len(free)
InWork(i) == i \in (workRead + 1) .. Len(work) /\ ~IsBarrier(work[i])

(* A slot is in one place at a time: free, being filled by the callback,   *)
(* in flight, or being written by the worker (no ABA, no double return).   *)
SlotOwnership ==
    /\ \A i, j \in 1 .. Len(free) :
          InFree(i) /\ InFree(j) /\ i # j => free[i] # free[j]
    /\ \A i, j \in 1 .. Len(work) :
          InWork(i) /\ InWork(j) /\ i # j => work[i].slot # work[j].slot
    /\ \A i \in 1 .. Len(free), j \in 1 .. Len(work) :
          InFree(i) /\ InWork(j) => free[i] # work[j].slot
    /\ \A i \in 1 .. Len(free) : InFree(i) => free[i] \notin {rtSlot, wDesc.slot}
    /\ \A i \in 1 .. Len(work) : InWork(i) => work[i].slot \notin {rtSlot, wDesc.slot}
    /\ rtSlot # NoSlot => rtSlot # wDesc.slot

(* The pushes that the code documents as infallible, and the barrier push  *)
(* that it does not, find room in their ring: pool.rs dimensions them.     *)
PushesNeverFail ==
    /\ rtPc = "barrier" => ~WorkFull
    /\ rtPc = "publish" => ~WorkFull
    /\ wPc = "release" /\ ~IsBarrier(wDesc) => ~FreeFull

(* Unless metadata was discarded at the stop, a barrier taken from the     *)
(* work ring finds its own metadata at the head of the control ring.       *)
BarrierFindsItsMetadata ==
    wPc = "barrier" /\ orphaned = {} =>
        /\ ~ControlEmpty
        /\ control[controlRead + 1].kind = "meta"
        /\ control[controlRead + 1].seq = wDesc.seq

(* Blocks are written in the order they were published, none skipped, each *)
(* with the samples of its own quantum and in the segment of the metadata  *)
(* that was confirmed when it was captured, at the rate the host then ran  *)
(* at; unless metadata was discarded at the stop.                          *)
RecordedInOrder ==
    orphaned = {} =>
        /\ Len(recorded) <= Len(published)
        /\ \A k \in 1 .. Len(recorded) : recorded[k] = published[k]

(* The outcome of the session does not lie: Success means that every       *)
(* quantum captured is in a file, SuccessWithLoss that the counted         *)
(* overruns are all that is missing.                                       *)
OutcomeIsHonest ==
    orphaned = {} =>
        /\ outcome = "Success" => captured = Len(recorded)
        /\ outcome = "SuccessWithLoss" => captured = Len(recorded) + overruns

(* Once the audio loop is stopped, shutdown returns an outcome, and the    *)
(* worker thread ends whether or not StreamStop found room: it never       *)
(* outlives the sender for ever.                                           *)
ShutdownCompletes ==
    guardPc = "stopped" ~> guardPc = "done" /\ wPc = "exited"

(* Stopped or not, a published block is written in the end, unless the     *)
(* worker fails (or metadata was discarded at the stop).                   *)
PublishedIsWritten ==
    \A n \in 1 .. MaxBlocks :
        Len(published) >= n ~> \/ Len(recorded) >= n
                              \/ wPc = "failing" \/ wResult = "err"
                              \/ orphaned # {}

(* What disk.rs says of its terminal paths ("no block published before the *)
(* stop can be orphaned"): a session that reports Success has written all  *)
(* that it published, in the segments of its metadata.                     *)
NoPublishedBlockOrphaned ==
    outcome = "Success" => recorded = published
=============================================================================
