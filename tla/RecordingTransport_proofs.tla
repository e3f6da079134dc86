---------------------- MODULE RecordingTransport_proofs ----------------------
(***************************************************************************)
(* What TLAPS proves of RecordingTransport, for every pool size, every     *)
(* ring capacity and every bound.                                          *)
(***************************************************************************)
EXTENDS RecordingTransport, TLAPS

(* Two facts about sequences, and one about the barriers in the work ring. *)
LEMMA AppendIsSeq ==
  ASSUME NEW S, NEW s \in Seq(S), NEW e \in S
  PROVE  /\ Append(s, e) \in Seq(S)
         /\ Len(Append(s, e)) = Len(s) + 1
         /\ \A i \in 1 .. Len(s) : Append(s, e)[i] = s[i]
         /\ Append(s, e)[Len(s) + 1] = e
  BY SMT

LEMMA ElementInSet ==
  ASSUME NEW S, NEW s \in Seq(S), NEW i \in 1 .. Len(s)
  PROVE  s[i] \in S
  BY SMT

LEMMA ConfirmedIsNat == RingTypes => ConfirmedSeqs \subseteq Nat
<1> SUFFICES ASSUME RingTypes,
                    NEW i \in (workRead + 1) .. Len(work)
             PROVE  work[i].seq \in Nat
  BY DEF ConfirmedSeqs
<1>1. i \in 1 .. Len(work) BY SMT DEF RingTypes
<1>2. work[i] \in Descriptors BY <1>1, ElementInSet DEF RingTypes
<1> QED BY <1>2 DEF Descriptors

LEMMA TypeInit == Init => TypeOK
<1> SUFFICES ASSUME Init PROVE TypeOK
  OBVIOUS
<1> USE CapacityAssumption, RateAssumption DEF Init
<1>1. RingTypes
  <2>1. free \in Seq(Slots) /\ Len(free) = N
    <3>1. free \in [1 .. N -> Slots] BY DEF Slots
    <3>2. N \in Nat OBVIOUS
    <3>3. [1 .. N -> Slots] \subseteq Seq(Slots) BY <3>2, SMT
    <3> QED BY <3>1, <3>2, <3>3, SMT
  <2>2. freeRead \in 0 .. Len(free) BY <2>1, SMT
  <2>3. content \in [Slots -> Nat] BY SMT
  <2>4. work \in Seq(Descriptors) /\ workRead \in 0 .. Len(work) BY SMT
  <2>5. control \in Seq(Messages) /\ controlRead \in 0 .. Len(control) BY SMT
  <2> QED BY <2>1, <2>2, <2>3, <2>4, <2>5 DEF RingTypes
<1>2. CallbackTypes
  <2>1. pendingBarrier \in Headers BY SMT DEF NoBarrier, Headers
  <2>2. hostRate \in Rates /\ rtPc = "idle" /\ rtSlot = NoSlot /\ metaSent = FALSE
    OBVIOUS
  <2>3. nextSeq \in Nat \ {0} /\ {metaRate, barrierSeq, overruns, slotLeaks, reconnects} \subseteq Nat
    BY SMT
  <2> QED BY <2>1, <2>2, <2>3, Zenon DEF CallbackTypes
<1>3. WorkerTypes
  <2>1. writer \in Headers BY SMT DEF NoWriter, Headers
  <2>2. wPc = "pop" /\ wDesc = NoDesc /\ draining = FALSE /\ wResult = "none" /\ failedFlag = FALSE
    OBVIOUS
  <2> QED BY <2>1, <2>2, Zenon DEF WorkerTypes
<1>4. GuardTypes BY SMT DEF GuardTypes
<1>5. HistoryTypes BY SMT DEF HistoryTypes
<1> QED BY <1>1, <1>2, <1>3, <1>4, <1>5 DEF TypeOK

LEMMA TypeStep == TypeOK /\ [Next]_vars => TypeOK'
<1> SUFFICES ASSUME TypeOK, [Next]_vars PROVE TypeOK'
  OBVIOUS
<1> USE CapacityAssumption, RateAssumption
    DEF TypeOK, freeVars, workVars, ctlVars, aliveVars, senderVars, metaVars, rtVars,
        workerVars, guardVars, countVars, logVars
<1>1. CASE StartCallback
  <2>1. RingTypes' BY <1>1, SMT DEF StartCallback, RingTypes
  <2>2. CallbackTypes' BY <1>1, SMT DEF StartCallback, CallbackTypes
  <2>3. WorkerTypes' BY <1>1, SMT DEF StartCallback, WorkerTypes
  <2>4. GuardTypes' BY <1>1, SMT DEF StartCallback, GuardTypes
  <2>5. HistoryTypes' BY <1>1, SMT DEF StartCallback, HistoryTypes
  <2> QED BY <2>1, <2>2, <2>3, <2>4, <2>5
<1>2. CASE SkipMetadata
  <2>1. RingTypes' BY <1>2, SMT DEF SkipMetadata, RingTypes
  <2>2. CallbackTypes' BY <1>2, SMT DEF SkipMetadata, CallbackTypes
  <2>3. WorkerTypes' BY <1>2, SMT DEF SkipMetadata, WorkerTypes
  <2>4. GuardTypes' BY <1>2, SMT DEF SkipMetadata, GuardTypes
  <2>5. HistoryTypes' BY <1>2, SMT DEF SkipMetadata, HistoryTypes
  <2> QED BY <2>1, <2>2, <2>3, <2>4, <2>5
<1>3. CASE PushMetadata
  <2>1. RingTypes'
    <3>1. Metadata(nextSeq, hostRate) \in Messages
      BY SMT DEF CallbackTypes, Metadata, Messages
    <3>2. control' = control \/ control' = Append(control, Metadata(nextSeq, hostRate))
      BY <1>3 DEF PushMetadata
    <3>3. control' \in Seq(Messages) /\ Len(control') >= Len(control)
      <4>1. control \in Seq(Messages) BY DEF RingTypes
      <4>2. Append(control, Metadata(nextSeq, hostRate)) \in Seq(Messages) /\ Len(Append(control, Metadata(nextSeq, hostRate))) = Len(control) + 1
        BY <3>1, <4>1, AppendIsSeq
      <4> QED BY <3>2, <4>1, <4>2, SMT
    <3>4. UNCHANGED <<free, freeRead, work, workRead, controlRead, workAbandoned, controlAbandoned, content>>
      BY <1>3 DEF PushMetadata
    <3> QED BY <3>3, <3>4, SMT DEF RingTypes
  <2>2. CallbackTypes'
    <3>1. nextSeq' \in Nat \ {0} BY <1>3, SMT DEF PushMetadata, CallbackTypes
    <3>2. barrierSeq' \in Nat
      <4>1. pendingBarrier.seq \in Nat BY SMT DEF CallbackTypes, Headers
      <4> QED BY <1>3, <4>1, SMT DEF PushMetadata, CallbackTypes
    <3>3. rtPc' \in {"barrier", "audio"} /\ rtPc \notin {"fill", "publish"}
      BY <1>3 DEF PushMetadata
    <3>4. metaSent' = FALSE BY <1>3 DEF PushMetadata
    <3>5. UNCHANGED <<hostRate, metaRate, pendingBarrier, rtSlot, overruns, slotLeaks, reconnects>>
      BY <1>3 DEF PushMetadata
    <3>6. rtPc' \in {"fill", "publish"} <=> rtSlot' # NoSlot
      BY <3>3, <3>5 DEF CallbackTypes
    <3> QED BY <3>1, <3>2, <3>3, <3>4, <3>5, <3>6, Zenon DEF CallbackTypes
  <2>3. WorkerTypes' BY <1>3, SMT DEF PushMetadata, WorkerTypes
  <2>4. GuardTypes' BY <1>3, SMT DEF PushMetadata, GuardTypes
  <2>5. HistoryTypes' BY <1>3, SMT DEF PushMetadata, HistoryTypes
  <2> QED BY <2>1, <2>2, <2>3, <2>4, <2>5
<1>4. CASE PushBarrier
  <2>1. RingTypes'
    <3> DEFINE barrier == [slot |-> CONTROL_BARRIER_SLOT, seq |-> barrierSeq,
                            nth |-> Len(published)]
    <3>1. barrier \in Descriptors
      BY SMT DEF CallbackTypes, HistoryTypes, Descriptors
    <3>2. work' = work \/ work' = Append(work, barrier)
      BY <1>4 DEF PushBarrier
    <3> HIDE DEF barrier
    <3>3. work' \in Seq(Descriptors) /\ Len(work') >= Len(work)
      <4>1. work \in Seq(Descriptors) BY DEF RingTypes
      <4>2. Append(work, barrier) \in Seq(Descriptors) /\ Len(Append(work, barrier)) = Len(work) + 1
        BY <3>1, <4>1, AppendIsSeq
      <4> QED BY <3>2, <4>1, <4>2, SMT
    <3>4. UNCHANGED <<free, freeRead, workRead, control, controlRead, workAbandoned, controlAbandoned, content>>
      BY <1>4 DEF PushBarrier
    <3> QED BY <3>3, <3>4, SMT DEF RingTypes
  <2>2. CallbackTypes'
    <3>1. pendingBarrier' \in Headers
      <4>1. hostRate \in Nat BY DEF CallbackTypes
      <4> QED BY <1>4, <4>1, SMT DEF PushBarrier, CallbackTypes, NoBarrier, Headers
    <3>2. metaSent' \in BOOLEAN /\ metaRate' \in Nat
      BY <1>4 DEF PushBarrier, CallbackTypes
    <3>3. rtPc' = "audio" /\ rtPc = "barrier" BY <1>4 DEF PushBarrier
    <3>4. UNCHANGED <<hostRate, nextSeq, barrierSeq, rtSlot, overruns, slotLeaks, reconnects>>
      BY <1>4 DEF PushBarrier
    <3> QED BY <3>1, <3>2, <3>3, <3>4, SMT DEF CallbackTypes
  <2>3. WorkerTypes' BY <1>4, SMT DEF PushBarrier, WorkerTypes
  <2>4. GuardTypes' BY <1>4, SMT DEF PushBarrier, GuardTypes
  <2>5. HistoryTypes' BY <1>4, SMT DEF PushBarrier, HistoryTypes
  <2> QED BY <2>1, <2>2, <2>3, <2>4, <2>5
<1>5. CASE SkipAudio
  <2>1. RingTypes' BY <1>5, SMT DEF SkipAudio, RingTypes
  <2>2. CallbackTypes' BY <1>5, SMT DEF SkipAudio, CallbackTypes
  <2>3. WorkerTypes' BY <1>5, SMT DEF SkipAudio, WorkerTypes
  <2>4. GuardTypes' BY <1>5, SMT DEF SkipAudio, GuardTypes
  <2>5. HistoryTypes' BY <1>5, SMT DEF SkipAudio, HistoryTypes
  <2> QED BY <2>1, <2>2, <2>3, <2>4, <2>5
<1>6. CASE RecordAudio
  <2>1. RingTypes' BY <1>6, SMT DEF RecordAudio, RingTypes, Popped, FreeEmpty
  <2>2. CallbackTypes'
    <3>1. CASE rtPc' = "idle"
      BY <1>6, <3>1, SMT DEF RecordAudio, CallbackTypes
    <3>2. CASE rtPc' = "fill"
      <4>1. freeRead + 1 \in 1 .. Len(free) /\ rtSlot' = free[freeRead + 1]
        BY <1>6, <3>2, SMT DEF RecordAudio, RingTypes, FreeEmpty
      <4>2. rtSlot' \in Slots BY <4>1, ElementInSet DEF RingTypes
      <4> QED BY <1>6, <3>2, <4>2, SMT DEF RecordAudio, CallbackTypes, Slots, NoSlot
    <3> QED BY <1>6, <3>1, <3>2 DEF RecordAudio
  <2>3. WorkerTypes' BY <1>6, SMT DEF RecordAudio, WorkerTypes
  <2>4. GuardTypes' BY <1>6, SMT DEF RecordAudio, GuardTypes
  <2>5. HistoryTypes' BY <1>6, SMT DEF RecordAudio, HistoryTypes
  <2> QED BY <2>1, <2>2, <2>3, <2>4, <2>5
<1>7. CASE FillPlanar
  <2>1. RingTypes' BY <1>7, SMT DEF FillPlanar, RingTypes, HistoryTypes, CallbackTypes
  <2>2. CallbackTypes' BY <1>7, SMT DEF FillPlanar, CallbackTypes
  <2>3. WorkerTypes' BY <1>7, SMT DEF FillPlanar, WorkerTypes
  <2>4. GuardTypes' BY <1>7, SMT DEF FillPlanar, GuardTypes
  <2>5. HistoryTypes' BY <1>7, SMT DEF FillPlanar, HistoryTypes
  <2> QED BY <2>1, <2>2, <2>3, <2>4, <2>5
<1>8. CASE Publish
  <2>1. RingTypes'
    <3> DEFINE desc == [slot |-> rtSlot, seq |-> barrierSeq, nth |-> Len(published) + 1]
    <3>1. desc \in Descriptors
      BY <1>8, SMT DEF Publish, CallbackTypes, HistoryTypes, Descriptors
    <3>2. work' = work \/ work' = Append(work, desc)
      BY <1>8 DEF Publish
    <3> HIDE DEF desc
    <3>3. work' \in Seq(Descriptors) /\ Len(work') >= Len(work)
      <4>1. work \in Seq(Descriptors) BY DEF RingTypes
      <4>2. Append(work, desc) \in Seq(Descriptors) /\ Len(Append(work, desc)) = Len(work) + 1
        BY <3>1, <4>1, AppendIsSeq
      <4> QED BY <3>2, <4>1, <4>2, SMT
    <3>4. UNCHANGED <<free, freeRead, workRead, control, controlRead, workAbandoned, controlAbandoned, content>>
      BY <1>8 DEF Publish
    <3> QED BY <3>3, <3>4, SMT DEF RingTypes
  <2>2. CallbackTypes' BY <1>8, SMT DEF Publish, CallbackTypes
  <2>3. WorkerTypes' BY <1>8, SMT DEF Publish, WorkerTypes
  <2>4. GuardTypes' BY <1>8, SMT DEF Publish, GuardTypes
  <2>5. HistoryTypes'
    <3> DEFINE take == [block |-> captured, seq |-> barrierSeq, rate |-> hostRate]
    <3>1. take \in Takes
      BY SMT DEF CallbackTypes, HistoryTypes, Takes
    <3>2. published' = published \/ published' = Append(published, take)
      BY <1>8 DEF Publish
    <3> HIDE DEF take
    <3>3. published' \in Seq(Takes) BY <3>1, <3>2, AppendIsSeq DEF HistoryTypes
    <3> QED BY <1>8, <3>3, SMT DEF Publish, HistoryTypes
  <2> QED BY <2>1, <2>2, <2>3, <2>4, <2>5
<1>9. CASE Reconnect
  <2>1. RingTypes' BY <1>9, SMT DEF Reconnect, RingTypes
  <2>2. CallbackTypes'
    <3>1. metaRate' \in Nat /\ reconnects' \in Nat
      BY <1>9, SMT DEF Reconnect, CallbackTypes
    <3>3. metaSent' = FALSE BY <1>9 DEF Reconnect
    <3>2. UNCHANGED <<rtPc, hostRate, pendingBarrier, nextSeq, barrierSeq, rtSlot, overruns, slotLeaks>>
      BY <1>9 DEF Reconnect
    <3> QED BY <3>1, <3>2, <3>3, Zenon DEF CallbackTypes
  <2>3. WorkerTypes' BY <1>9, SMT DEF Reconnect, WorkerTypes
  <2>4. GuardTypes' BY <1>9, SMT DEF Reconnect, GuardTypes
  <2>5. HistoryTypes' BY <1>9, SMT DEF Reconnect, HistoryTypes
  <2> QED BY <2>1, <2>2, <2>3, <2>4, <2>5
<1>10. CASE PopWork
  <2>1. RingTypes' BY <1>10, SMT DEF PopWork, RingTypes, WorkEmpty, Popped
  <2>2. CallbackTypes' BY <1>10, SMT DEF PopWork, CallbackTypes
  <2>3. WorkerTypes'
    <3>1. CASE WorkEmpty
      BY <1>10, <3>1, SMT DEF PopWork, WorkerTypes
    <3>2. CASE ~WorkEmpty
      <4>1. workRead + 1 \in 1 .. Len(work)
        BY <3>2, SMT DEF RingTypes, WorkEmpty
      <4>2. work[workRead + 1] \in Descriptors BY <4>1, ElementInSet DEF RingTypes
      <4>3. ~IsBarrier(work[workRead + 1]) => work[workRead + 1].slot \in Slots
        BY <4>2, SMT DEF IsBarrier, Descriptors
      <4> QED BY <1>10, <3>2, <4>2, <4>3, Zenon DEF PopWork, WorkerTypes
    <3> QED BY <3>1, <3>2
  <2>4. GuardTypes' BY <1>10, SMT DEF PopWork, GuardTypes
  <2>5. HistoryTypes' BY <1>10, SMT DEF PopWork, HistoryTypes
  <2> QED BY <2>1, <2>2, <2>3, <2>4, <2>5
<1>11. CASE HandleControlBarrier
  <2>1. RingTypes'
    <3>1. controlRead' \in 0 .. Len(control)
      BY <1>11, SMT DEF HandleControlBarrier, RingTypes, Popped
    <3> QED BY <1>11, <3>1, SMT DEF HandleControlBarrier, RingTypes
  <2>2. CallbackTypes' BY <1>11, SMT DEF HandleControlBarrier, CallbackTypes, Fail
  <2>3. WorkerTypes'
    <3>1. wDesc \in Descriptors
      BY <1>11, SMT DEF HandleControlBarrier, WorkerTypes, IsBarrier, NoDesc, NoSlot, CONTROL_BARRIER_SLOT
    <3>2. writer' \in Headers
      <4>1. CASE writer' = writer \/ writer' = NoWriter
        BY <4>1, SMT DEF WorkerTypes, NoWriter, Headers
      <4>2. ASSUME NEW p \in controlRead .. Len(control), p < Len(control),
                   writer' = [seq |-> control[p + 1].seq, rate |-> control[p + 1].rate]
            PROVE  writer' \in Headers
        <5>1. p + 1 \in 1 .. Len(control) BY <4>2, SMT DEF RingTypes
        <5>2. control[p + 1] \in Messages BY <5>1, ElementInSet DEF RingTypes
        <5> QED BY <4>2, <5>2, SMT DEF Messages, Headers
      <4> QED BY <1>11, <4>1, <4>2 DEF HandleControlBarrier, Fail
    <3>3. wPc' \in {"release", "failing"} BY <1>11 DEF HandleControlBarrier, Fail
    <3>4. UNCHANGED <<wDesc, draining, wResult, failedFlag>>
      BY <1>11 DEF HandleControlBarrier
    <3> QED BY <3>1, <3>2, <3>3, <3>4, SMT DEF WorkerTypes
  <2>4. GuardTypes' BY <1>11, SMT DEF HandleControlBarrier, GuardTypes
  <2>5. HistoryTypes' BY <1>11, SMT DEF HandleControlBarrier, HistoryTypes
  <2> QED BY <2>1, <2>2, <2>3, <2>4, <2>5
<1>12. CASE WriteBlock
  <2>1. RingTypes' BY <1>12, SMT DEF WriteBlock, RingTypes
  <2>2. CallbackTypes' BY <1>12, SMT DEF WriteBlock, CallbackTypes, Fail
  <2>3. WorkerTypes'
    <3>1. wDesc \in Descriptors
      BY <1>12, SMT DEF WriteBlock, WorkerTypes, NoDesc, NoSlot, Slots
    <3>2. writer' \in Headers
      BY <1>12, SMT DEF WriteBlock, WorkerTypes, Fail, NoWriter, Headers
    <3>3. wPc' \in {"release", "failing"} BY <1>12 DEF WriteBlock, Fail
    <3>4. UNCHANGED <<wDesc, draining, wResult, failedFlag>> BY <1>12 DEF WriteBlock
    <3> QED BY <3>1, <3>2, <3>3, <3>4, SMT DEF WorkerTypes
  <2>4. GuardTypes' BY <1>12, SMT DEF WriteBlock, GuardTypes
  <2>5. HistoryTypes'
    <3> DEFINE take == [block |-> content[wDesc.slot], seq |-> writer.seq, rate |-> writer.rate]
    <3>1. take \in Takes
      BY <1>12, SMT DEF WriteBlock, WorkerTypes, RingTypes, Takes, Headers
    <3>2. recorded' = recorded \/ recorded' = Append(recorded, take)
      BY <1>12 DEF WriteBlock
    <3> HIDE DEF take
    <3>3. recorded' \in Seq(Takes) BY <3>1, <3>2, AppendIsSeq DEF HistoryTypes
    <3> QED BY <1>12, <3>3, SMT DEF WriteBlock, HistoryTypes
  <2> QED BY <2>1, <2>2, <2>3, <2>4, <2>5
<1>13. CASE Release
  <2>1. RingTypes'
    <3>1. ~IsBarrier(wDesc) => wDesc.slot \in Slots
      BY <1>13, SMT DEF Release, WorkerTypes, IsBarrier, Descriptors
    <3>2. free' = free \/ (free' = Append(free, wDesc.slot) /\ wDesc.slot \in Slots)
      BY <1>13, <3>1 DEF Release
    <3>3. free' \in Seq(Slots) /\ Len(free') >= Len(free)
      <4>1. free \in Seq(Slots) BY DEF RingTypes
      <4>2. wDesc.slot \in Slots => /\ Append(free, wDesc.slot) \in Seq(Slots)
                                    /\ Len(Append(free, wDesc.slot)) = Len(free) + 1
        BY <4>1, AppendIsSeq
      <4> QED BY <3>2, <4>1, <4>2, SMT
    <3> QED BY <1>13, <3>3, SMT DEF Release, RingTypes
  <2>2. CallbackTypes' BY <1>13, SMT DEF Release, CallbackTypes
  <2>3. WorkerTypes' BY <1>13, SMT DEF Release, WorkerTypes
  <2>4. GuardTypes' BY <1>13, SMT DEF Release, GuardTypes
  <2>5. HistoryTypes' BY <1>13, SMT DEF Release, HistoryTypes
  <2> QED BY <2>1, <2>2, <2>3, <2>4, <2>5
<1>14. CASE PeekControl
  <2>1. RingTypes'
    <3>1. controlRead' \in 0 .. Len(control)
      BY <1>14, SMT DEF PeekControl, RingTypes, Popped, StopAtHead, MetadataAtHead, ControlEmpty
    <3> QED BY <1>14, <3>1, SMT DEF PeekControl, RingTypes
  <2>2. CallbackTypes' BY <1>14, SMT DEF PeekControl, CallbackTypes
  <2>3. WorkerTypes'
    <3>1. wPc' \in {"pop", "terminal"} /\ draining' \in BOOLEAN
      BY <1>14 DEF PeekControl, WorkerTypes, AfterStreamStop
    <3>2. UNCHANGED <<wDesc, writer, wResult, failedFlag>> BY <1>14 DEF PeekControl
    <3>3. wDesc = NoDesc BY <1>14 DEF PeekControl, WorkerTypes
    <3> QED BY <3>1, <3>2, <3>3, SMT DEF WorkerTypes
  <2>4. GuardTypes' BY <1>14, SMT DEF PeekControl, GuardTypes
  <2>5. HistoryTypes'
    <3>1. ConfirmedSeqs \subseteq Nat BY ConfirmedIsNat
    <3>2. orphaned' \subseteq Nat BY <1>14, <3>1 DEF PeekControl, HistoryTypes
    <3>3. UNCHANGED <<captured, suppressed, published, recorded>> BY <1>14 DEF PeekControl
    <3> QED BY <3>2, <3>3 DEF HistoryTypes
  <2> QED BY <2>1, <2>2, <2>3, <2>4, <2>5
<1>15. CASE CheckTerminal
  <2>1. RingTypes' BY <1>15, SMT DEF CheckTerminal, RingTypes
  <2>2. CallbackTypes' BY <1>15, SMT DEF CheckTerminal, CallbackTypes
  <2>3. WorkerTypes' BY <1>15, SMT DEF CheckTerminal, WorkerTypes
  <2>4. GuardTypes' BY <1>15, SMT DEF CheckTerminal, GuardTypes
  <2>5. HistoryTypes' BY <1>15, SMT DEF CheckTerminal, HistoryTypes
  <2> QED BY <2>1, <2>2, <2>3, <2>4, <2>5
<1>16. CASE FinalizeCapture
  <2>1. RingTypes' BY <1>16, SMT DEF FinalizeCapture, RingTypes
  <2>2. CallbackTypes' BY <1>16, SMT DEF FinalizeCapture, CallbackTypes, Fail
  <2>3. WorkerTypes' BY <1>16, SMT DEF FinalizeCapture, WorkerTypes, Fail, NoWriter, Headers
  <2>4. GuardTypes' BY <1>16, SMT DEF FinalizeCapture, GuardTypes
  <2>5. HistoryTypes'
    <3>1. ConfirmedSeqs \subseteq Nat BY ConfirmedIsNat
    <3>2. orphaned' \subseteq Nat BY <1>16, <3>1 DEF FinalizeCapture, HistoryTypes
    <3>3. UNCHANGED <<captured, suppressed, published, recorded>> BY <1>16 DEF FinalizeCapture
    <3> QED BY <3>2, <3>3 DEF HistoryTypes
  <2> QED BY <2>1, <2>2, <2>3, <2>4, <2>5
<1>17. CASE RaiseFailure
  <2>1. RingTypes' BY <1>17, SMT DEF RaiseFailure, RingTypes
  <2>2. CallbackTypes' BY <1>17, SMT DEF RaiseFailure, CallbackTypes
  <2>3. WorkerTypes' BY <1>17, SMT DEF RaiseFailure, WorkerTypes
  <2>4. GuardTypes' BY <1>17, SMT DEF RaiseFailure, GuardTypes
  <2>5. HistoryTypes' BY <1>17, SMT DEF RaiseFailure, HistoryTypes
  <2> QED BY <2>1, <2>2, <2>3, <2>4, <2>5
<1>18. CASE ExitFailed
  <2>1. RingTypes' BY <1>18, SMT DEF ExitFailed, RingTypes
  <2>2. CallbackTypes' BY <1>18, SMT DEF ExitFailed, CallbackTypes
  <2>3. WorkerTypes' BY <1>18, SMT DEF ExitFailed, WorkerTypes
  <2>4. GuardTypes' BY <1>18, SMT DEF ExitFailed, GuardTypes
  <2>5. HistoryTypes' BY <1>18, SMT DEF ExitFailed, HistoryTypes
  <2> QED BY <2>1, <2>2, <2>3, <2>4, <2>5
<1>19. CASE StopLoop
  <2>1. RingTypes' BY <1>19, SMT DEF StopLoop, RingTypes
  <2>2. CallbackTypes' BY <1>19, SMT DEF StopLoop, CallbackTypes
  <2>3. WorkerTypes' BY <1>19, SMT DEF StopLoop, WorkerTypes
  <2>4. GuardTypes' BY <1>19, SMT DEF StopLoop, GuardTypes
  <2>5. HistoryTypes' BY <1>19, SMT DEF StopLoop, HistoryTypes
  <2> QED BY <2>1, <2>2, <2>3, <2>4, <2>5
<1>20. CASE BeginTeardown
  <2>1. RingTypes' BY <1>20, SMT DEF BeginTeardown, RingTypes
  <2>2. CallbackTypes' BY <1>20, SMT DEF BeginTeardown, CallbackTypes
  <2>3. WorkerTypes' BY <1>20, SMT DEF BeginTeardown, WorkerTypes
  <2>4. GuardTypes' BY <1>20, SMT DEF BeginTeardown, GuardTypes, CallbackTypes
  <2>5. HistoryTypes' BY <1>20, SMT DEF BeginTeardown, HistoryTypes
  <2> QED BY <2>1, <2>2, <2>3, <2>4, <2>5
<1>21. CASE PushStreamStop
  <2>1. RingTypes'
    <3>1. StreamStop \in Messages BY SMT DEF StreamStop, Messages
    <3>2. control' = control \/ control' = Append(control, StreamStop)
      BY <1>21 DEF PushStreamStop
    <3>3. control' \in Seq(Messages) /\ Len(control') >= Len(control)
      <4>1. control \in Seq(Messages) BY DEF RingTypes
      <4>2. Append(control, StreamStop) \in Seq(Messages) /\ Len(Append(control, StreamStop)) = Len(control) + 1
        BY <3>1, <4>1, AppendIsSeq
      <4> QED BY <3>2, <4>1, <4>2, SMT
    <3> QED BY <1>21, <3>3, SMT DEF PushStreamStop, RingTypes
  <2>2. CallbackTypes' BY <1>21, SMT DEF PushStreamStop, CallbackTypes
  <2>3. WorkerTypes' BY <1>21, SMT DEF PushStreamStop, WorkerTypes
  <2>4. GuardTypes' BY <1>21, SMT DEF PushStreamStop, GuardTypes
  <2>5. HistoryTypes' BY <1>21, SMT DEF PushStreamStop, HistoryTypes
  <2> QED BY <2>1, <2>2, <2>3, <2>4, <2>5
<1>22. CASE DropControl
  <2>1. RingTypes' BY <1>22, SMT DEF DropControl, RingTypes
  <2>2. CallbackTypes' BY <1>22, SMT DEF DropControl, CallbackTypes
  <2>3. WorkerTypes' BY <1>22, SMT DEF DropControl, WorkerTypes
  <2>4. GuardTypes' BY <1>22, SMT DEF DropControl, GuardTypes
  <2>5. HistoryTypes' BY <1>22, SMT DEF DropControl, HistoryTypes
  <2> QED BY <2>1, <2>2, <2>3, <2>4, <2>5
<1>23. CASE DropWork
  <2>1. RingTypes' BY <1>23, SMT DEF DropWork, RingTypes
  <2>2. CallbackTypes' BY <1>23, SMT DEF DropWork, CallbackTypes
  <2>3. WorkerTypes' BY <1>23, SMT DEF DropWork, WorkerTypes
  <2>4. GuardTypes' BY <1>23, SMT DEF DropWork, GuardTypes
  <2>5. HistoryTypes' BY <1>23, SMT DEF DropWork, HistoryTypes
  <2> QED BY <2>1, <2>2, <2>3, <2>4, <2>5
<1>24. CASE Join
  <2>1. RingTypes' BY <1>24, SMT DEF Join, RingTypes
  <2>2. CallbackTypes' BY <1>24, SMT DEF Join, CallbackTypes
  <2>3. WorkerTypes' BY <1>24, SMT DEF Join, WorkerTypes
  <2>4. GuardTypes' BY <1>24, SMT DEF Join, GuardTypes
  <2>5. HistoryTypes' BY <1>24, SMT DEF Join, HistoryTypes
  <2> QED BY <2>1, <2>2, <2>3, <2>4, <2>5
<1>25. CASE UNCHANGED vars
  <2>1. RingTypes' BY <1>25 DEF vars, RingTypes
  <2>2. CallbackTypes' BY <1>25 DEF vars, CallbackTypes
  <2>3. WorkerTypes' BY <1>25 DEF vars, WorkerTypes
  <2>4. GuardTypes' BY <1>25 DEF vars, GuardTypes
  <2>5. HistoryTypes' BY <1>25 DEF vars, HistoryTypes
  <2> QED BY <2>1, <2>2, <2>3, <2>4, <2>5
<1> QED BY <1>1, <1>2, <1>3, <1>4, <1>5, <1>6, <1>7, <1>8, <1>9, <1>10, <1>11, <1>12, <1>13, <1>14, <1>15, <1>16, <1>17, <1>18, <1>19, <1>20, <1>21, <1>22, <1>23, <1>24, <1>25 DEF Next, RealTime, Worker, Teardown, Terminated

(* Type correctness: every reachable state of the transport is well formed. *)
THEOREM TypeCorrect == Spec => []TypeOK
  BY TypeInit, TypeStep, PTL DEF Spec

-----------------------------------------------------------------------------
(* Slot ownership.                                                         *)

LEMMA OwnershipInit == Init => SlotOwnership
  BY CapacityAssumption, SMT
  DEF Init, SlotOwnership, InFree, InWork, NoSlot, NoDesc

(* What SlotOwnership needs of the types: positions are numbers, a slot in *)
(* the free ring or in an audio descriptor is a slot of the pool.          *)
LEMMA SlotTypes ==
  ASSUME TypeOK
  PROVE  /\ freeRead \in Nat /\ Len(free) \in Nat /\ freeRead <= Len(free)
         /\ workRead \in Nat /\ Len(work) \in Nat /\ workRead <= Len(work)
         /\ \A i \in 1 .. Len(free) : free[i] \in Slots
         /\ \A i \in 1 .. Len(work) : work[i] \in Descriptors
         /\ \A i \in 1 .. Len(work) : ~IsBarrier(work[i]) => work[i].slot \in Slots
         /\ CONTROL_BARRIER_SLOT \notin Slots /\ NoSlot \notin Slots
         /\ NoDesc.slot = NoSlot
<1> USE DEF TypeOK, RingTypes
<1>1. \A i \in 1 .. Len(free) : free[i] \in Slots BY ElementInSet
<1>2. \A i \in 1 .. Len(work) : work[i] \in Descriptors BY ElementInSet
<1>3. \A i \in 1 .. Len(work) : ~IsBarrier(work[i]) => work[i].slot \in Slots
  BY <1>2 DEF Descriptors, IsBarrier
<1>4. CONTROL_BARRIER_SLOT \notin Slots /\ NoSlot \notin Slots
  BY CapacityAssumption, SMT DEF Slots, NoSlot
<1>5. /\ freeRead \in Nat /\ Len(free) \in Nat /\ freeRead <= Len(free)
      /\ workRead \in Nat /\ Len(work) \in Nat /\ workRead <= Len(work)
  BY SMT
<1> QED BY <1>1, <1>2, <1>3, <1>4, <1>5 DEF NoDesc

LEMMA OwnershipStep == TypeOK /\ SlotOwnership /\ [Next]_vars => SlotOwnership'
<1> SUFFICES ASSUME TypeOK, SlotOwnership, [Next]_vars PROVE SlotOwnership'
  OBVIOUS
<1> USE CapacityAssumption DEF TypeOK
<1>1. CASE UNCHANGED <<free, freeRead, work, workRead, rtSlot, wDesc>>
  BY <1>1, Zenon DEF SlotOwnership, InFree, InWork
<1>2. CASE RecordAudio
  <2>1. CASE UNCHANGED <<freeRead, rtSlot>>
    BY <1>1, <1>2, <2>1 DEF RecordAudio, workVars, workerVars
  <2>2. CASE /\ freeRead' = freeRead + 1 /\ ~FreeEmpty
             /\ rtSlot' = free[freeRead + 1]
    <3>1. UNCHANGED <<free, work, workRead, wDesc>>
      BY <1>2 DEF RecordAudio, workVars, workerVars
    <3>2. freeRead + 1 \in 1 .. Len(free) /\ InFree(freeRead + 1)
      BY <2>2, SlotTypes, SMT DEF FreeEmpty, InFree
    <3>3. \A i \in 1 .. Len(free) : InFree(i)' => InFree(i) /\ i # freeRead + 1
      BY <2>2, <3>1, SlotTypes, SMT DEF InFree
    <3>4. \A i : InWork(i)' <=> InWork(i) BY <3>1 DEF InWork
    <3> QED BY <2>2, <3>1, <3>2, <3>3, <3>4, Zenon DEF SlotOwnership
  <2> QED BY <1>2, <2>1, <2>2 DEF RecordAudio, Popped
<1>3. CASE Publish
  <2>1. CASE UNCHANGED work
    BY <1>3, <2>1, SlotTypes DEF Publish, SlotOwnership, InFree, InWork, freeVars, workerVars
  <2>2. CASE work' = Append(work, [slot |-> rtSlot, seq |-> barrierSeq,
                                   nth |-> Len(published) + 1])
    <3> DEFINE desc == [slot |-> rtSlot, seq |-> barrierSeq, nth |-> Len(published) + 1]
               n == Len(work) + 1
    <3>1. UNCHANGED <<free, freeRead, workRead, wDesc>> /\ rtSlot' = NoSlot
      BY <1>3 DEF Publish, freeVars, workerVars
    <3>2. rtSlot \in Slots /\ rtSlot # NoSlot
      BY <1>3, SlotTypes DEF Publish, CallbackTypes
    <3>3. desc \in Descriptors /\ desc.slot = rtSlot
      BY <3>2, SMT DEF CallbackTypes, HistoryTypes, Descriptors
    <3> HIDE DEF desc
    <3>4. /\ Len(work') = n /\ work'[n] = desc
          /\ \A i \in 1 .. Len(work) : work'[i] = work[i]
      <4>1. work \in Seq(Descriptors) BY DEF RingTypes
      <4> QED BY <2>2, <3>3, <4>1, AppendIsSeq DEF desc
    <3>5. \A i \in 1 .. n : InWork(i)' => (i \in 1 .. Len(work) /\ InWork(i)) \/ i = n
      BY <3>1, <3>4, SlotTypes, SMT DEF InWork
    <3>6. \A i : InFree(i)' <=> InFree(i) BY <3>1 DEF InFree
    <3>7. /\ \A i \in 1 .. Len(work) : work'[i].slot = work[i].slot
          /\ work'[n].slot = rtSlot
      BY <3>3, <3>4
    <3>8. \A i \in 1 .. Len(work) : InWork(i) => work[i].slot \in Slots
      BY SlotTypes DEF InWork
    <3>9. NoSlot \notin Slots /\ \A i \in 1 .. Len(free) : free[i] \in Slots BY SlotTypes
    <3> HIDE DEF n
    <3> QED BY <3>1, <3>2, <3>4, <3>5, <3>6, <3>7, <3>8, <3>9, SMT DEF SlotOwnership
  <2> QED BY <1>3, <2>1, <2>2 DEF Publish
<1>4. CASE PushBarrier
  <2>1. UNCHANGED <<free, freeRead, workRead, rtSlot, wDesc>>
    BY <1>4 DEF PushBarrier, freeVars, workerVars
  <2>2. \A i \in 1 .. Len(work') : InWork(i)' => /\ i \in 1 .. Len(work) /\ InWork(i)
                                                 /\ work'[i].slot = work[i].slot
    <3>1. CASE UNCHANGED work BY <2>1, <3>1 DEF InWork
    <3>2. CASE ~UNCHANGED work
      <4> DEFINE barrier == [slot |-> CONTROL_BARRIER_SLOT, seq |-> barrierSeq,
                              nth |-> Len(published)]
      <4>1. work' = Append(work, barrier) BY <1>4, <3>2 DEF PushBarrier
      <4>2. barrier \in Descriptors /\ IsBarrier(barrier)
        BY SMT DEF CallbackTypes, HistoryTypes, Descriptors, IsBarrier
      <4> HIDE DEF barrier
      <4>3. /\ Len(work') = Len(work) + 1 /\ work'[Len(work) + 1] = barrier
            /\ \A i \in 1 .. Len(work) : work'[i] = work[i]
        <5>1. work \in Seq(Descriptors) BY DEF RingTypes
        <5> QED BY <4>1, <4>2, <5>1, AppendIsSeq
      <4> QED BY <2>1, <4>2, <4>3, SlotTypes, SMT DEF InWork
    <3> QED BY <3>1, <3>2
  <2>3. \A i : InFree(i)' <=> InFree(i) BY <2>1 DEF InFree
  <2> QED BY <2>1, <2>2, <2>3, SMT DEF SlotOwnership
<1>5. CASE PopWork
  <2>1. CASE WorkEmpty
    BY <1>1, <1>5, <2>1 DEF PopWork, freeVars, rtVars
  <2>2. CASE ~WorkEmpty
    <3>1. /\ UNCHANGED <<free, freeRead, work, rtSlot>>
          /\ wDesc' = work[workRead + 1] /\ workRead' = workRead + 1
      BY <1>5, <2>2 DEF PopWork, freeVars, rtVars, Popped
    <3>2. workRead + 1 \in 1 .. Len(work)
      BY <2>2, SlotTypes, SMT DEF WorkEmpty
    <3>3. InWork(workRead + 1) \/ wDesc'.slot = CONTROL_BARRIER_SLOT
      BY <3>1, <3>2, SlotTypes, SMT DEF InWork, IsBarrier
    <3>4. \A i \in 1 .. Len(work) : InWork(i)' => InWork(i) /\ i # workRead + 1
      BY <3>1, SlotTypes, SMT DEF InWork
    <3>5. \A i : InFree(i)' <=> InFree(i) BY <3>1 DEF InFree
    <3>6. \A i \in 1 .. Len(work) : InWork(i) => work[i].slot \in Slots
      BY SlotTypes DEF InWork
    <3>7. /\ CONTROL_BARRIER_SLOT \notin Slots /\ NoSlot \notin Slots
          /\ \A i \in 1 .. Len(free) : free[i] \in Slots
          /\ rtSlot \in Slots \union {NoSlot}
      BY SlotTypes DEF CallbackTypes
    <3> QED BY <3>1, <3>2, <3>3, <3>4, <3>5, <3>6, <3>7, Zenon DEF SlotOwnership
  <2> QED BY <2>1, <2>2
<1>6. CASE Release
  <2>1. UNCHANGED <<freeRead, work, workRead, rtSlot>> /\ wDesc' = NoDesc
    BY <1>6 DEF Release, workVars, rtVars
  <2>2. \A i : InWork(i)' <=> InWork(i) BY <2>1 DEF InWork
  <2>3. \A i \in 1 .. Len(work) : InWork(i) => work[i].slot \in Slots
    BY SlotTypes DEF InWork
  <2>4. \A i \in 1 .. Len(free) : free[i] \in Slots BY SlotTypes
  <2>5. NoSlot \notin Slots /\ NoDesc.slot = NoSlot BY SlotTypes
  <2>6. CASE UNCHANGED free
    <3>1. \A i : InFree(i)' <=> InFree(i) BY <2>1, <2>6 DEF InFree
    <3> QED BY <2>1, <2>2, <2>3, <2>4, <2>5, <2>6, <3>1, Zenon DEF SlotOwnership
  <2>7. CASE ~IsBarrier(wDesc) /\ free' = Append(free, wDesc.slot)
    <3> DEFINE n == Len(free) + 1
    <3>1. wDesc.slot \in Slots
      BY <1>6, <2>7, SMT DEF Release, WorkerTypes, IsBarrier, Descriptors
    <3>2. /\ Len(free') = n /\ free'[n] = wDesc.slot
          /\ \A i \in 1 .. Len(free) : free'[i] = free[i]
      <4>1. free \in Seq(Slots) BY DEF RingTypes
      <4> QED BY <2>7, <3>1, <4>1, AppendIsSeq
    <3>3. \A i \in 1 .. n : InFree(i)' => (i \in 1 .. Len(free) /\ InFree(i)) \/ i = n
      BY <2>1, <3>2, SlotTypes, SMT DEF InFree
    <3> HIDE DEF n
    <3> QED BY <2>1, <2>2, <2>3, <2>4, <2>5, <3>1, <3>2, <3>3, SMT DEF SlotOwnership
  <2> QED BY <1>6, <2>6, <2>7 DEF Release
<1>7. CASE StartCallback \/ SkipMetadata \/ PushMetadata \/ SkipAudio \/ FillPlanar \/ Reconnect
  BY <1>7, <1>1 DEF StartCallback, SkipMetadata, PushMetadata, SkipAudio, FillPlanar, Reconnect,
     freeVars, workVars, rtVars, workerVars
<1>8. CASE HandleControlBarrier \/ WriteBlock \/ PeekControl \/ CheckTerminal
             \/ FinalizeCapture \/ RaiseFailure \/ ExitFailed
  BY <1>8, <1>1 DEF HandleControlBarrier, WriteBlock, PeekControl, CheckTerminal,
     FinalizeCapture, RaiseFailure, ExitFailed, freeVars, workVars, rtVars, workerVars
<1>9. CASE StopLoop \/ Teardown \/ UNCHANGED vars
  BY <1>9, <1>1 DEF StopLoop, Teardown, BeginTeardown, PushStreamStop, DropControl, DropWork,
     Join, vars, freeVars, workVars, rtVars, workerVars
<1> QED
  BY <1>2, <1>3, <1>4, <1>5, <1>6, <1>7, <1>8, <1>9
  DEF Next, RealTime, Worker, Terminated

(* A slot is in one place at a time, however the three threads interleave. *)
THEOREM Ownership == Spec => []SlotOwnership
<1>1. Init => TypeOK /\ SlotOwnership BY TypeInit, OwnershipInit
<1>2. TypeOK /\ SlotOwnership /\ [Next]_vars => TypeOK' /\ SlotOwnership'
  BY TypeStep, OwnershipStep
<1> QED BY <1>1, <1>2, PTL DEF Spec

-----------------------------------------------------------------------------
(* The rings never overflow.                                               *)

(* The barriers and the audio blocks among the first i descriptors ever    *)
(* pushed into the work ring.                                              *)
Barriers(i) == IF i = 0 THEN 0 ELSE work[i].seq
Audio(i) == IF i = 0 THEN 0 ELSE work[i].nth

(* The metadata of the running callback still lacks its barrier; the       *)
(* worker handles a barrier; a slot is being filled; one is being written. *)
BarrierDue == IF rtPc = "barrier" THEN 1 ELSE 0
Handling == IF wPc = "barrier" THEN 1 ELSE 0
Filling == IF rtSlot = NoSlot THEN 0 ELSE 1
Writing == IF wDesc.slot \in Slots THEN 1 ELSE 0

(* Every descriptor counts what was pushed up to it.                       *)
WorkCounts ==
    /\ \A i \in 0 .. Len(work) : Barriers(i) \in Nat /\ Audio(i) \in Nat
    /\ \A i \in 0 .. Len(work) : Barriers(i) + Audio(i) = i
    /\ \A i \in 1 .. Len(work) :
          /\ IsBarrier(work[i]) => Audio(i) = Audio(i - 1)
          /\ ~IsBarrier(work[i]) => Barriers(i) = Barriers(i - 1)
    /\ \A i, j \in 0 .. Len(work) : i <= j => Barriers(i) <= Barriers(j) /\ Audio(i) <= Audio(j)

(* The last descriptor agrees with the sender.                             *)
WorkInv ==
    /\ WorkCounts
    /\ Audio(Len(work)) = Len(published)
    /\ Barriers(Len(work)) = nextSeq - 1 - BarrierDue

(* No barrier was ever refused.                                            *)
SenderInv == pendingBarrier = NoBarrier /\ barrierSeq = nextSeq - 1

(* While the session runs, the worker has taken from the control ring the  *)
(* metadata of the barriers it took from the work ring, and nothing else.  *)
LiveInv ==
    guardPc = "running" =>
        /\ ~controlAbandoned /\ ~draining /\ wPc # "finalize"
        /\ Len(control) = nextSeq - 1
        /\ \A i \in 1 .. Len(control) : control[i].kind = "meta" /\ control[i].seq = i
        /\ controlRead = Barriers(workRead) - Handling
        /\ wPc = "barrier" => wDesc.seq = Barriers(workRead)

(* The control ring holds no more than it can, and the slots that are      *)
(* free, being filled, in flight or being written are at most the pool's.  *)
CountInv ==
    /\ Len(control) - controlRead <= ControlCapacity
    /\ (Len(free) - freeRead) + (Len(published) - Audio(workRead))
         + Filling + Writing <= N

RingInv == WorkInv /\ SenderInv /\ LiveInv /\ CountInv

LEMMA RingInit == Init => RingInv
<1> SUFFICES ASSUME Init PROVE RingInv
  OBVIOUS
<1> USE CapacityAssumption DEF Init
<1>1. Len(free) = N BY SMT
<1>2. WorkInv BY SMT DEF WorkInv, WorkCounts, Barriers, Audio, BarrierDue
<1>3. SenderInv BY SMT DEF SenderInv
<1>4. LiveInv BY SMT DEF LiveInv, Barriers, Handling
<1>5. CountInv
  <2>1. NoDesc.slot \notin Slots BY SMT DEF NoDesc, NoSlot, Slots
  <2> QED BY <1>1, <2>1, SMT DEF CountInv, Audio, Filling, Writing
<1> QED BY <1>2, <1>3, <1>4, <1>5 DEF RingInv

(* The numbers that the ring invariants relate.                            *)
LEMMA RingNumbers ==
  ASSUME TypeOK, RingInv
  PROVE  /\ freeRead \in Nat /\ Len(free) \in Nat /\ freeRead <= Len(free)
         /\ workRead \in Nat /\ Len(work) \in Nat /\ workRead <= Len(work)
         /\ controlRead \in Nat /\ Len(control) \in Nat /\ controlRead <= Len(control)
         /\ Len(published) \in Nat /\ nextSeq \in Nat /\ nextSeq > 0
         /\ Barriers(workRead) \in Nat /\ Audio(workRead) \in Nat
         /\ Barriers(workRead) <= Barriers(Len(work))
         /\ Audio(workRead) <= Len(published)
         /\ Barriers(Len(work)) \in Nat
         /\ Barriers(Len(work)) = nextSeq - 1 - BarrierDue
         /\ Len(work) - workRead = (Len(published) - Audio(workRead))
                                    + (Barriers(Len(work)) - Barriers(workRead))
         /\ BarrierDue \in {0, 1} /\ Handling \in {0, 1} /\ Filling \in {0, 1} /\ Writing \in {0, 1}
<1>1. /\ freeRead \in Nat /\ Len(free) \in Nat /\ freeRead <= Len(free)
      /\ workRead \in Nat /\ Len(work) \in Nat /\ workRead <= Len(work)
      /\ controlRead \in Nat /\ Len(control) \in Nat /\ controlRead <= Len(control)
      /\ Len(published) \in Nat /\ nextSeq \in Nat /\ nextSeq > 0
  BY SMT DEF TypeOK, RingTypes, CallbackTypes, HistoryTypes
<1>2. workRead \in 0 .. Len(work) /\ Len(work) \in 0 .. Len(work) BY <1>1, SMT
<1>3. /\ Barriers(workRead) \in Nat /\ Audio(workRead) \in Nat
      /\ Barriers(workRead) <= Barriers(Len(work))
      /\ Audio(workRead) <= Audio(Len(work))
      /\ Barriers(Len(work)) \in Nat /\ Audio(Len(work)) = Len(published)
      /\ Barriers(Len(work)) = nextSeq - 1 - BarrierDue
  BY <1>1, <1>2, Zenon DEF RingInv, WorkInv, WorkCounts
<1>5. /\ Barriers(workRead) + Audio(workRead) = workRead
      /\ Barriers(Len(work)) + Audio(Len(work)) = Len(work)
  BY <1>2, Zenon DEF RingInv, WorkInv, WorkCounts
<1>6. Len(work) - workRead = (Len(published) - Audio(workRead))
                             + (Barriers(Len(work)) - Barriers(workRead))
  BY <1>1, <1>3, <1>5, SMTT(40)
<1>4. BarrierDue \in {0, 1} /\ Handling \in {0, 1} /\ Filling \in {0, 1} /\ Writing \in {0, 1}
  BY DEF BarrierDue, Handling, Filling, Writing
<1>7. Audio(workRead) <= Len(published) BY <1>3
<1> QED BY <1>1, <1>3, <1>4, <1>6, <1>7, Zenon

(* The pigeonhole: what the work ring holds is at most every slot but the  *)
(* one the sender is about to push, and the metadata in the control ring.  *)
LEMMA RingRoom ==
  ASSUME RingsSized, TypeOK, RingInv
  PROVE  PushesNeverFail
<1> DEFINE audio == Len(published) - Audio(workRead)
           barriers == Barriers(Len(work)) - Barriers(workRead)
<1> USE CapacityAssumption
<1>1. Len(work) - workRead = audio + barriers /\ audio \in Nat /\ barriers \in Nat
  BY RingNumbers, SMTT(60)
<1>2. guardPc = "running" => barriers <= ControlCapacity - BarrierDue
  <2> SUFFICES ASSUME guardPc = "running"
               PROVE  barriers <= ControlCapacity - BarrierDue
    OBVIOUS
  <2>1. /\ Len(control) = nextSeq - 1
        /\ controlRead <= Barriers(workRead)
    BY RingNumbers, SMTT(60) DEF RingInv, LiveInv
  <2>3. Len(control) - controlRead <= ControlCapacity BY Zenon DEF RingInv, CountInv
  <2> QED BY <2>1, <2>3, RingNumbers, SMTT(60)
<1>3. /\ audio <= N
      /\ Filling = 1 => audio <= N - 1
      /\ Writing = 1 => Len(free) - freeRead + audio <= N - 1
  BY RingNumbers, SMTT(60) DEF RingInv, CountInv
<1> HIDE DEF audio, barriers
<1>4. rtPc = "barrier" => ~WorkFull
  BY <1>1, <1>2, <1>3, RingNumbers, SMTT(60) DEF RingsSized, WorkFull, TypeOK, GuardTypes, BarrierDue
<1>5. rtPc = "publish" => ~WorkFull
  <2>1. rtPc = "publish" => Filling = 1 /\ guardPc = "running"
    BY DEF TypeOK, CallbackTypes, GuardTypes, Filling
  <2> QED BY <2>1, <1>1, <1>2, <1>3, RingNumbers, SMTT(60) DEF RingsSized, WorkFull
<1>6. wPc = "release" /\ ~IsBarrier(wDesc) => ~FreeFull
  <2>1. wPc = "release" /\ ~IsBarrier(wDesc) => Writing = 1
    BY DEF TypeOK, WorkerTypes, IsBarrier, Descriptors, Writing
  <2> QED BY <2>1, <1>1, <1>3, RingNumbers, SMTT(60) DEF FreeFull
<1> QED BY <1>4, <1>5, <1>6 DEF PushesNeverFail

(* Steps that leave the descriptors alone preserve what is said of them.   *)
LEMMA CountsStutter ==
  ASSUME WorkCounts, UNCHANGED work
  PROVE  WorkCounts'
  BY Zenon DEF WorkCounts, Barriers, Audio, IsBarrier

LEMMA WorkStutter ==
  ASSUME WorkInv, UNCHANGED <<work, published, nextSeq>>, BarrierDue' = BarrierDue
  PROVE  WorkInv'
  BY Zenon DEF WorkInv, WorkCounts, Barriers, Audio, IsBarrier

(* A descriptor that counts one more push extends the count.               *)
LEMMA WorkAppend ==
  ASSUME TypeOK, TypeOK', WorkInv, NEW desc \in Descriptors,
         work' = Append(work, desc),
         desc.seq + desc.nth = Len(work) + 1,
         IsBarrier(desc) => desc.nth = Audio(Len(work)),
         ~IsBarrier(desc) => desc.seq = Barriers(Len(work)),
         Barriers(Len(work)) <= desc.seq, Audio(Len(work)) <= desc.nth,
         desc.nth = Len(published'), desc.seq = nextSeq' - 1 - BarrierDue'
  PROVE  /\ WorkInv'
         /\ \A i \in 0 .. Len(work) : Barriers(i)' = Barriers(i) /\ Audio(i)' = Audio(i)
<1>0. PICK L \in Nat : L = Len(work) BY SMT DEF TypeOK, RingTypes
<1> DEFINE B(i) == Barriers(i)
           A(i) == Audio(i)
           Bn(i) == Barriers(i)'
           An(i) == Audio(i)'
<1>1. L \in Nat /\ work \in Seq(Descriptors) BY DEF TypeOK, RingTypes
<1>2. /\ Len(work') = L + 1 /\ work'[L + 1] = desc
      /\ \A i \in 1 .. L : work'[i] = work[i]
  BY <1>0, <1>1, AppendIsSeq
<1>3. \A i \in 0 .. L : Bn(i) = B(i) /\ An(i) = A(i)
  <2> TAKE i \in 0 .. L
  <2>1. CASE i = 0 BY <2>1 DEF Barriers, Audio
  <2>2. CASE i # 0
    <3>1. i \in 1 .. L BY <2>2, <1>1, SMT
    <3> QED BY <3>1, <2>2, <1>2 DEF Barriers, Audio
  <2> QED BY <2>1, <2>2
<1>4. Bn(L + 1) = desc.seq /\ An(L + 1) = desc.nth
  <2>1. L + 1 # 0 BY <1>1, SMT
  <2> QED BY <2>1, <1>2, Zenon DEF Barriers, Audio
<1>5. desc.seq \in Nat /\ desc.nth \in Nat BY DEF Descriptors
<1>6. 0 .. (L + 1) = (0 .. L) \union {L + 1} BY <1>1, SMT
<1>7. /\ \A i \in 0 .. L : B(i) \in Nat /\ A(i) \in Nat
      /\ \A i \in 0 .. L : B(i) + A(i) = i
      /\ \A i, j \in 0 .. L : i <= j => B(i) <= B(j) /\ A(i) <= A(j)
  BY <1>0 DEF WorkInv, WorkCounts
<1>8. \A i \in 1 .. L : /\ IsBarrier(work[i]) => A(i) = A(i - 1)
                        /\ ~IsBarrier(work[i]) => B(i) = B(i - 1)
  BY <1>0 DEF WorkInv, WorkCounts
<1>14. L \in 0 .. L BY <1>1, SMT
<1> HIDE DEF B, A, Bn, An
<1>9. \A i \in 0 .. (L + 1) : Bn(i) \in Nat /\ An(i) \in Nat
  BY <1>3, <1>4, <1>5, <1>6, <1>7, Zenon
<1>10. \A i \in 0 .. (L + 1) : Bn(i) + An(i) = i
  <2>1. Bn(L + 1) + An(L + 1) = L + 1 BY <1>0, <1>4
  <2>2. \A i \in 0 .. L : Bn(i) + An(i) = i BY <1>3, <1>7, Zenon
  <2> QED BY <2>1, <2>2, <1>6
<1> DEFINE mark(i) == work'[i].slot = CONTROL_BARRIER_SLOT
<1>11. \A i \in 1 .. (L + 1) : /\ mark(i) => An(i) = An(i - 1)
                               /\ ~mark(i) => Bn(i) = Bn(i - 1)
  <2> TAKE i \in 1 .. (L + 1)
  <2>1. CASE i \in 1 .. L
    <3>1. i - 1 \in 0 .. L /\ i \in 0 .. L BY <2>1, <1>1, SMT
    <3>2. mark(i) <=> IsBarrier(work[i]) BY <2>1, <1>2 DEF IsBarrier
    <3> HIDE DEF mark
    <3> QED BY <2>1, <3>1, <3>2, <1>3, <1>8, Zenon
  <2>2. CASE i = L + 1
    <3>1. i - 1 = L BY <2>2, <1>1, SMT
    <3>2. mark(i) <=> IsBarrier(desc) BY <2>2, <1>2 DEF IsBarrier
    <3> HIDE DEF mark
    <3> QED BY <1>0, <2>2, <3>1, <3>2, <1>3, <1>4, <1>14, Zenon DEF B, A
  <2>3. i \in 1 .. L \/ i = L + 1 BY <1>1, SMT
  <2> QED BY <2>1, <2>2, <2>3
<1> HIDE DEF mark
<1>12. \A i, j \in 0 .. (L + 1) : i <= j => Bn(i) <= Bn(j) /\ An(i) <= An(j)
  <2> TAKE i, j \in 0 .. (L + 1)
  <2> HAVE i <= j
  <2>1. CASE j \in 0 .. L
    <3>1. i \in 0 .. L BY <2>1, <1>1, SMT
    <3> QED BY <2>1, <3>1, <1>3, <1>7, Zenon
  <2>2. CASE j = L + 1 /\ i \in 0 .. L
    <3>1. B(i) <= B(L) /\ A(i) <= A(L)
      <4>1. i <= L BY <2>2, <1>1, SMT
      <4> QED BY <4>1, <2>2, <1>7, <1>14, Zenon
    <3>2. B(L) <= desc.seq /\ A(L) <= desc.nth BY <1>0, Zenon DEF B, A
    <3>3. {B(i), B(L), A(i), A(L)} \subseteq Nat BY <2>2, <1>7, <1>14
    <3>4. Bn(i) = B(i) /\ An(i) = A(i) BY <2>2, <1>3
    <3> QED BY <2>2, <3>1, <3>2, <3>3, <3>4, <1>4, <1>5, SMT
  <2>3. CASE j = L + 1 /\ i = L + 1
    BY <2>3, <1>4, <1>5, SMT
  <2> QED BY <2>1, <2>2, <2>3, <1>6
<1>13. An(L + 1) = Len(published') /\ Bn(L + 1) = nextSeq' - 1 - BarrierDue'
  BY <1>4
<1>15. WorkCounts'
  <2>1. Len(work') = L + 1 BY <1>2
  <2> DEFINE seqAt(i) == IF i = 0 THEN 0 ELSE work'[i].seq
             nthAt(i) == IF i = 0 THEN 0 ELSE work'[i].nth
  <2>2. \A i : Bn(i) = seqAt(i) /\ An(i) = nthAt(i)
    BY Zenon DEF Bn, An, Barriers, Audio
  <2> HIDE DEF seqAt, nthAt
  <2>3. \A i \in 0 .. Len(work') : seqAt(i) \in Nat /\ nthAt(i) \in Nat
    BY <2>1, <2>2, <1>9, Zenon
  <2>4. \A i \in 0 .. Len(work') : seqAt(i) + nthAt(i) = i
    BY <2>1, <2>2, <1>10, Zenon
  <2>5. \A i \in 1 .. Len(work') : mark(i) => nthAt(i) = nthAt(i - 1)
    <3> TAKE i \in 1 .. Len(work')
    <3>1. mark(i) => An(i) = An(i - 1) BY <2>1, <1>11
    <3>2. An(i) = nthAt(i) /\ An(i - 1) = nthAt(i - 1) BY <2>2
    <3> QED BY <3>1, <3>2
  <2>6. \A i \in 1 .. Len(work') : ~mark(i) => seqAt(i) = seqAt(i - 1)
    <3> TAKE i \in 1 .. Len(work')
    <3>1. ~mark(i) => Bn(i) = Bn(i - 1) BY <2>1, <1>11
    <3>2. Bn(i) = seqAt(i) /\ Bn(i - 1) = seqAt(i - 1) BY <2>2
    <3> QED BY <3>1, <3>2
  <2>7. \A i, j \in 0 .. Len(work') :
           i <= j => seqAt(i) <= seqAt(j) /\ nthAt(i) <= nthAt(j)
    BY <2>1, <2>2, <1>12, Zenon
  <2> QED BY <2>3, <2>4, <2>5, <2>6, <2>7, Zenon
          DEF WorkCounts, Barriers, Audio, IsBarrier, seqAt, nthAt, mark
<1>16. /\ Audio(Len(work))' = Len(published') 
       /\ Barriers(Len(work))' = nextSeq' - 1 - BarrierDue'
  BY <1>2, <1>13, Zenon DEF Bn, An, Audio, Barriers
<1> QED BY <1>0, <1>3, <1>15, <1>16, Zenon DEF WorkInv, B, A, Bn, An

LEMMA RingStep ==
  ASSUME RingsSized, TypeOK, TypeOK', RingInv, [Next]_vars
  PROVE  RingInv'
<1> USE CapacityAssumption
    DEF freeVars, workVars, ctlVars, aliveVars, senderVars, metaVars, rtVars, workerVars,
        guardVars, countVars, logVars
<1>0. PushesNeverFail BY RingRoom
<1>1. CASE StartCallback \/ SkipMetadata \/ SkipAudio \/ FillPlanar \/ Reconnect \/ StopLoop
  <2>1. /\ UNCHANGED <<freeVars, workVars, ctlVars, aliveVars, senderVars, barrierSeq, rtSlot,
                       workerVars, published>>
        /\ guardPc' = "running" => guardPc = "running"
        /\ rtPc # "barrier" /\ rtPc' # "barrier"
    BY <1>1 DEF StartCallback, SkipMetadata, SkipAudio, FillPlanar, Reconnect, StopLoop
  <2>2. WorkInv' BY <2>1, WorkStutter DEF RingInv, BarrierDue
  <2>3. SenderInv' BY <2>1 DEF RingInv, SenderInv
  <2>4. LiveInv' BY <2>1, Zenon DEF RingInv, LiveInv, Handling, Barriers
  <2>5. CountInv' BY <2>1, Zenon DEF RingInv, CountInv, Audio, Filling, Writing
  <2> QED BY <2>2, <2>3, <2>4, <2>5 DEF RingInv
<1>2. CASE PushMetadata
  <2>1. /\ UNCHANGED <<freeVars, workVars, controlRead, aliveVars, pendingBarrier, rtSlot,
                       workerVars, guardVars, published>>
        /\ rtPc = "meta" /\ pendingBarrier = NoBarrier
    BY <1>2 DEF PushMetadata, RingInv, SenderInv
  <2>2. CASE ControlFull /\ rtPc' = "audio" /\ UNCHANGED <<control, nextSeq, barrierSeq>>
    <3>1. WorkInv' BY <2>1, <2>2, WorkStutter DEF RingInv, BarrierDue
    <3>2. SenderInv' BY <2>1, <2>2 DEF RingInv, SenderInv
    <3>3. LiveInv' BY <2>1, <2>2, Zenon DEF RingInv, LiveInv, Handling, Barriers
    <3>4. CountInv' BY <2>1, <2>2, Zenon DEF RingInv, CountInv, Audio, Filling, Writing
    <3> QED BY <3>1, <3>2, <3>3, <3>4 DEF RingInv
  <2>3. CASE /\ ~ControlFull
             /\ control' = Append(control, Metadata(nextSeq, hostRate))
             /\ nextSeq' = nextSeq + 1 /\ rtPc' = "barrier" /\ barrierSeq' = nextSeq
    <3>1. /\ Len(control') = Len(control) + 1
          /\ control'[Len(control) + 1] = Metadata(nextSeq, hostRate)
          /\ \A i \in 1 .. Len(control) : control'[i] = control[i]
      <4>1. control \in Seq(Messages) BY DEF TypeOK, RingTypes
      <4>2. Metadata(nextSeq, hostRate) \in Messages
        BY RateAssumption, SMT DEF TypeOK, CallbackTypes, Metadata, Messages
      <4> QED BY <2>3, <4>1, <4>2, AppendIsSeq
    <3>2. nextSeq \in Nat /\ Len(control) \in Nat /\ controlRead \in Nat BY RingNumbers
    <3>3. WorkInv'
      <4>1. BarrierDue = 0 /\ BarrierDue' = 1 BY <2>1, <2>3 DEF BarrierDue
      <4>2. nextSeq - 1 - BarrierDue = nextSeq' - 1 - BarrierDue'
        BY <2>3, <3>2, <4>1, SMT
      <4>3. UNCHANGED <<work, published>> BY <2>1
      <4>4. WorkCounts' BY <4>3, CountsStutter DEF RingInv, WorkInv
      <4>5. Audio(Len(work))' = Len(published') BY <4>3, Zenon DEF RingInv, WorkInv, Audio
      <4>6. Barriers(Len(work))' = nextSeq - 1 - BarrierDue
        BY <4>3, Zenon DEF RingInv, WorkInv, Barriers
      <4> QED BY <4>2, <4>4, <4>5, <4>6 DEF WorkInv
    <3>4. SenderInv' BY <2>1, <2>3, <3>2, SMT DEF SenderInv
    <3>5. LiveInv'
      <4> SUFFICES ASSUME guardPc = "running" PROVE LiveInv'
        BY <2>1 DEF LiveInv
      <4>1. Len(control) = nextSeq - 1 BY DEF RingInv, LiveInv
      <4>2. Len(control') = nextSeq' - 1 BY <2>3, <3>1, <3>2, <4>1, SMT
      <4>3. \A i \in 1 .. Len(control') : control'[i].kind = "meta" /\ control'[i].seq = i
        <5>1. \A i \in 1 .. Len(control) : control[i].kind = "meta" /\ control[i].seq = i
          BY DEF RingInv, LiveInv
        <5>2. control'[Len(control) + 1].kind = "meta"
              /\ control'[Len(control) + 1].seq = Len(control) + 1
          BY <3>1, <3>2, <4>1, SMT DEF Metadata
        <5> QED BY <3>1, <3>2, <5>1, <5>2, SMT
      <4>4. /\ ~controlAbandoned' /\ ~draining' /\ wPc' # "finalize"
            /\ controlRead' = Barriers(workRead)' - Handling'
            /\ wPc' = "barrier" => wDesc'.seq = Barriers(workRead)'
        BY <2>1, Zenon DEF RingInv, LiveInv, Handling, Barriers
      <4> QED BY <4>2, <4>3, <4>4 DEF LiveInv
    <3>6. CountInv'
      <4>1. Len(control') - controlRead' <= ControlCapacity
        BY <2>1, <2>3, <3>1, <3>2, SMT DEF ControlFull
      <4> QED BY <2>1, <4>1, Zenon DEF RingInv, CountInv, Audio, Filling, Writing
    <3> QED BY <3>3, <3>4, <3>5, <3>6 DEF RingInv
  <2> QED BY <1>2, <2>1, <2>2, <2>3 DEF PushMetadata, RetriesBarrier
<1>3. CASE PushBarrier
  <2> DEFINE desc == [slot |-> CONTROL_BARRIER_SLOT, seq |-> barrierSeq,
                      nth |-> Len(published)]
  <2>1. /\ UNCHANGED <<freeVars, workRead, ctlVars, aliveVars, nextSeq, barrierSeq, rtSlot,
                       workerVars, guardVars, published>>
        /\ rtPc = "barrier" /\ rtPc' = "audio"
        /\ work' = Append(work, desc) /\ pendingBarrier' = NoBarrier
    BY <1>3, <1>0 DEF PushBarrier, PushesNeverFail
  <2>2. WorkInv' /\ \A i \in 0 .. Len(work) : Barriers(i)' = Barriers(i) /\ Audio(i)' = Audio(i)
    <3>1. desc \in Descriptors /\ IsBarrier(desc)
      BY SMT DEF TypeOK, CallbackTypes, HistoryTypes, Descriptors, IsBarrier
    <3>2. /\ Audio(Len(work)) = Len(published) /\ desc.nth = Len(published)
          /\ Barriers(Len(work)) = nextSeq - 2 /\ desc.seq = nextSeq - 1
          /\ Barriers(Len(work)) + Audio(Len(work)) = Len(work)
      <4>1. BarrierDue = 1 BY <2>1 DEF BarrierDue
      <4>2. barrierSeq = nextSeq - 1 BY DEF RingInv, SenderInv
      <4>3. Len(work) \in 0 .. Len(work) BY RingNumbers, SMTT(60)
      <4>4. /\ Audio(Len(work)) = Len(published)
            /\ Barriers(Len(work)) + Audio(Len(work)) = Len(work)
        BY <4>3, Zenon DEF RingInv, WorkInv, WorkCounts
      <4> QED BY <4>1, <4>2, <4>4, RingNumbers, SMTT(60)
    <3>3. BarrierDue' = 0 /\ nextSeq' = nextSeq /\ published' = published
      BY <2>1 DEF BarrierDue
    <3> HIDE DEF desc
    <3>4. nextSeq \in Nat /\ Len(published) \in Nat BY RingNumbers
    <3>5. /\ desc.seq + desc.nth = Len(work) + 1
          /\ Barriers(Len(work)) <= desc.seq /\ Audio(Len(work)) <= desc.nth
          /\ desc.nth = Len(published') /\ desc.seq = nextSeq' - 1 - BarrierDue'
      BY <3>2, <3>3, <3>4, SMTT(60)
    <3> QED BY <2>1, <3>1, <3>2, <3>5, WorkAppend, Zenon DEF RingInv
  <2> HIDE DEF desc
  <2>3. SenderInv' BY <2>1 DEF RingInv, SenderInv
  <2>4. Barriers(workRead)' = Barriers(workRead) /\ Audio(workRead)' = Audio(workRead)
    <3>1. workRead \in 0 .. Len(work) BY DEF TypeOK, RingTypes
    <3> QED BY <2>1, <2>2, <3>1, Zenon DEF Barriers, Audio
  <2>5. LiveInv' BY <2>1, <2>4, Zenon DEF RingInv, LiveInv, Handling
  <2>6. CountInv' BY <2>1, <2>4, Zenon DEF RingInv, CountInv, Filling, Writing
  <2> QED BY <2>2, <2>3, <2>5, <2>6 DEF RingInv
<1>4. CASE RecordAudio
  <2>1. /\ UNCHANGED <<free, workVars, ctlVars, aliveVars, senderVars, barrierSeq, workerVars,
                       guardVars, published>>
        /\ rtPc # "barrier" /\ rtPc' # "barrier"
    BY <1>4 DEF RecordAudio
  <2>2. WorkInv' BY <2>1, WorkStutter DEF RingInv, BarrierDue
  <2>3. SenderInv' BY <2>1 DEF RingInv, SenderInv
  <2>4. LiveInv' BY <2>1, Zenon DEF RingInv, LiveInv, Handling, Barriers
  <2>5. CountInv'
    <3>1. CASE UNCHANGED <<freeRead, rtSlot>>
      BY <2>1, <3>1, Zenon DEF RingInv, CountInv, Audio, Filling, Writing
    <3>2. CASE freeRead' = freeRead + 1 /\ rtPc = "audio"
      <4>1. Filling = 0 BY <3>2 DEF Filling, TypeOK, CallbackTypes
      <4>2. Filling' \in {0, 1} BY DEF Filling
      <4>3. (Len(free) - freeRead') + (Len(published) - Audio(workRead)) + Filling' + Writing <= N
        BY <3>2, <4>1, <4>2, RingNumbers, SMTT(60) DEF RingInv, CountInv
      <4> QED BY <2>1, <4>3, Zenon DEF RingInv, CountInv, Audio, Writing
    <3> QED BY <1>4, <3>1, <3>2 DEF RecordAudio, Popped
  <2> QED BY <2>2, <2>3, <2>4, <2>5 DEF RingInv
<1>5. CASE Publish
  <2> DEFINE desc == [slot |-> rtSlot, seq |-> barrierSeq, nth |-> Len(published) + 1]
             take == [block |-> captured, seq |-> barrierSeq, rate |-> hostRate]
  <2>1. /\ UNCHANGED <<freeVars, workRead, ctlVars, aliveVars, senderVars, barrierSeq,
                       workerVars, guardVars>>
        /\ rtPc = "publish" /\ rtPc' = "idle" /\ rtSlot' = NoSlot
        /\ work' = Append(work, desc) /\ published' = Append(published, take)
    BY <1>5, <1>0 DEF Publish, PushesNeverFail
  <2>2. Len(published') = Len(published) + 1
    <3>1. take \in Takes BY RateAssumption, SMT DEF TypeOK, CallbackTypes, HistoryTypes, Takes
    <3> HIDE DEF take
    <3> QED BY <2>1, <3>1, AppendIsSeq DEF TypeOK, HistoryTypes
  <2> HIDE DEF take
  <2>3. WorkInv' /\ \A i \in 0 .. Len(work) : Barriers(i)' = Barriers(i) /\ Audio(i)' = Audio(i)
    <3>1. desc \in Descriptors /\ ~IsBarrier(desc)
      <4>1. rtSlot \in Slots /\ barrierSeq \in Nat /\ published \in Seq(Takes)
        BY <2>1, Zenon DEF TypeOK, CallbackTypes, HistoryTypes
      <4>2. Len(published) + 1 \in Nat BY <4>1, SMT
      <4> QED BY <4>1, <4>2, SMT DEF Descriptors, IsBarrier, Slots
    <3>2. /\ Audio(Len(work)) = Len(published) /\ desc.nth = Len(published) + 1
          /\ Barriers(Len(work)) = nextSeq - 1 /\ desc.seq = nextSeq - 1
          /\ Barriers(Len(work)) + Audio(Len(work)) = Len(work)
      <4>1. BarrierDue = 0 BY <2>1 DEF BarrierDue
      <4>2. barrierSeq = nextSeq - 1 BY DEF RingInv, SenderInv
      <4>3. Len(work) \in 0 .. Len(work) BY RingNumbers, SMTT(60)
      <4>4. /\ Audio(Len(work)) = Len(published)
            /\ Barriers(Len(work)) + Audio(Len(work)) = Len(work)
        BY <4>3, Zenon DEF RingInv, WorkInv, WorkCounts
      <4> QED BY <4>1, <4>2, <4>4, RingNumbers, SMTT(60)
    <3>3. BarrierDue' = 0 /\ nextSeq' = nextSeq BY <2>1 DEF BarrierDue
    <3> HIDE DEF desc
    <3>4. nextSeq \in Nat /\ Len(published) \in Nat BY RingNumbers
    <3>5. /\ desc.seq + desc.nth = Len(work) + 1
          /\ Barriers(Len(work)) <= desc.seq /\ Audio(Len(work)) <= desc.nth
          /\ desc.nth = Len(published') /\ desc.seq = nextSeq' - 1 - BarrierDue'
      BY <2>2, <3>2, <3>3, <3>4, SMTT(60)
    <3>6. desc.seq = Barriers(Len(work)) BY <3>2
    <3> QED BY <2>1, <3>1, <3>5, <3>6, WorkAppend, Zenon DEF RingInv
  <2> HIDE DEF desc
  <2>4. SenderInv' BY <2>1 DEF RingInv, SenderInv
  <2>5. Barriers(workRead)' = Barriers(workRead) /\ Audio(workRead)' = Audio(workRead)
    <3>1. workRead \in 0 .. Len(work) BY DEF TypeOK, RingTypes
    <3> QED BY <2>1, <2>3, <3>1, Zenon DEF Barriers, Audio
  <2>6. LiveInv' BY <2>1, <2>5, Zenon DEF RingInv, LiveInv, Handling
  <2>7. CountInv'
    <3>1. Filling = 1 /\ Filling' = 0 /\ Writing' = Writing
      BY <2>1 DEF Filling, Writing, TypeOK, CallbackTypes
    <3>2. (Len(free) - freeRead) + (Len(published') - Audio(workRead)) + Filling' + Writing <= N
      BY <2>2, <3>1, RingNumbers, SMTT(60) DEF RingInv, CountInv
    <3> QED BY <2>1, <2>5, <3>1, <3>2, Zenon DEF RingInv, CountInv
  <2> QED BY <2>3, <2>4, <2>6, <2>7 DEF RingInv
<1>6. CASE PopWork
  <2>1. /\ UNCHANGED <<freeVars, work, ctlVars, aliveVars, senderVars, rtVars, draining,
                       guardVars, published>>
        /\ wPc = "pop" /\ wDesc = NoDesc
    BY <1>6 DEF PopWork, TypeOK, WorkerTypes
  <2>2. WorkInv' BY <2>1, WorkStutter DEF RingInv, BarrierDue
  <2>3. SenderInv' BY <2>1 DEF RingInv, SenderInv
  <2>4. CASE WorkEmpty
    <3>1. UNCHANGED <<workRead, wDesc>> /\ (wPc' = "finalize" => draining) /\ wPc' # "barrier"
      BY <1>6, <2>4 DEF PopWork
    <3>2. LiveInv' BY <2>1, <3>1, Zenon DEF RingInv, LiveInv, Handling, Barriers
    <3>3. CountInv' BY <2>1, <3>1, Zenon DEF RingInv, CountInv, Audio, Filling, Writing
    <3> QED BY <2>2, <2>3, <3>2, <3>3 DEF RingInv
  <2>5. CASE ~WorkEmpty
    <3>1. /\ workRead' = workRead + 1 /\ wDesc' = work[workRead + 1]
          /\ wPc' = IF IsBarrier(wDesc') THEN "barrier" ELSE "write"
      BY <1>6, <2>5 DEF PopWork, Popped
    <3>2. workRead \in Nat /\ workRead + 1 \in 1 .. Len(work) /\ workRead + 1 \in 0 .. Len(work)
          /\ workRead \in 0 .. Len(work) /\ workRead + 1 - 1 = workRead /\ workRead + 1 # 0
      BY <2>5, RingNumbers, SMTT(60) DEF WorkEmpty
    <3>3. wDesc' \in Descriptors BY <3>1, <3>2, ElementInSet DEF TypeOK, RingTypes
    <3>4. /\ Barriers(workRead)' = Barriers(workRead + 1)
          /\ Audio(workRead)' = Audio(workRead + 1)
          /\ wDesc'.seq = Barriers(workRead + 1)
      BY <2>1, <3>1, <3>2, Zenon DEF Barriers, Audio
    <3>5. /\ Barriers(workRead) + Audio(workRead) = workRead
          /\ Barriers(workRead + 1) + Audio(workRead + 1) = workRead + 1
          /\ Barriers(workRead + 1) \in Nat /\ Audio(workRead + 1) \in Nat
          /\ IsBarrier(wDesc') => Audio(workRead + 1) = Audio(workRead)
          /\ ~IsBarrier(wDesc') => Barriers(workRead + 1) = Barriers(workRead)
      <4>1. WorkCounts BY DEF RingInv, WorkInv
      <4> DEFINE k == workRead + 1
      <4>2. /\ IsBarrier(work[k]) => Audio(k) = Audio(k - 1)
            /\ ~IsBarrier(work[k]) => Barriers(k) = Barriers(k - 1)
        BY <3>2, <4>1, Zenon DEF WorkCounts
      <4>3. /\ Barriers(k) + Audio(k) = k /\ Barriers(k) \in Nat /\ Audio(k) \in Nat
            /\ Barriers(workRead) + Audio(workRead) = workRead
        BY <3>2, <4>1, Zenon DEF WorkCounts
      <4>4. wDesc' = work[k] /\ k - 1 = workRead BY <3>1, <3>2
      <4> HIDE DEF k
      <4> QED BY <4>2, <4>3, <4>4 DEF k
    <3>6. Handling = 0 /\ Writing = 0
      BY <2>1, SMT DEF Handling, Writing, NoDesc, NoSlot, Slots
    <3>7. CASE IsBarrier(wDesc')
      <4>1. /\ Handling' = 1 /\ Writing' = 0
            /\ wPc' = "barrier"
        BY <3>1, <3>7, SMT DEF Handling, Writing, IsBarrier, Slots
      <4>2. Barriers(workRead + 1) = Barriers(workRead) + 1 /\ Audio(workRead + 1) = Audio(workRead)
        BY <3>5, <3>7, RingNumbers, SMTT(60)
      <4>3. LiveInv'
        <5> SUFFICES ASSUME guardPc = "running" PROVE LiveInv'
          BY <2>1 DEF LiveInv
        <5>1. controlRead' = Barriers(workRead)' - Handling'
          <6>1. controlRead = Barriers(workRead) - Handling BY DEF RingInv, LiveInv
          <6> QED BY <2>1, <3>4, <3>6, <4>1, <4>2, <6>1, RingNumbers, SMTT(60)
        <5> QED BY <2>1, <3>4, <4>1, <5>1, Zenon DEF RingInv, LiveInv
      <4>4. CountInv'
        <5>1. Filling' = Filling /\ Writing' = Writing /\ Audio(workRead)' = Audio(workRead)
          BY <2>1, <3>4, <3>6, <4>1, <4>2 DEF Filling
        <5> QED BY <2>1, <5>1, Zenon DEF RingInv, CountInv
      <4> QED BY <2>2, <2>3, <4>3, <4>4 DEF RingInv
    <3>8. CASE ~IsBarrier(wDesc')
      <4>1. Handling' = 0 /\ Writing' \in {0, 1} /\ wPc' = "write"
        BY <3>1, <3>8 DEF Handling, Writing
      <4>2. Barriers(workRead + 1) = Barriers(workRead) /\ Audio(workRead + 1) = Audio(workRead) + 1
        BY <3>5, <3>8, RingNumbers, SMTT(60)
      <4>3. LiveInv'
        <5>1. Barriers(workRead)' = Barriers(workRead) /\ Handling' = Handling
          BY <3>4, <3>6, <4>1, <4>2
        <5> QED BY <2>1, <4>1, <5>1, Zenon DEF RingInv, LiveInv
      <4>4. CountInv'
        <5>1. Filling' = Filling BY <2>1 DEF Filling
        <5>2. (Len(free) - freeRead) + (Len(published) - Audio(workRead + 1)) + Filling + Writing' <= N
          BY <3>6, <4>1, <4>2, RingNumbers, SMTT(60) DEF RingInv, CountInv
        <5> QED BY <2>1, <3>4, <5>1, <5>2, Zenon DEF RingInv, CountInv
      <4> QED BY <2>2, <2>3, <4>3, <4>4 DEF RingInv
    <3> QED BY <3>7, <3>8
  <2> QED BY <2>4, <2>5
<1>7. CASE HandleControlBarrier
  <2>1. /\ UNCHANGED <<freeVars, workVars, control, aliveVars, senderVars, rtVars, wDesc,
                       draining, guardVars, published>>
        /\ wPc = "barrier" /\ wPc' \in {"release", "failing"}
    BY <1>7 DEF HandleControlBarrier, Fail
  <2>2. PICK p \in controlRead .. Len(control) :
             /\ PastSuperseded(p, wDesc.seq)
             /\ controlRead' = IF p < Len(control) /\ Matches(control[p + 1], wDesc.seq)
                               THEN p + 1 ELSE p
    BY <1>7, Zenon DEF HandleControlBarrier, Popped
  <2>3. p \in Nat /\ controlRead <= p /\ p <= Len(control) BY <2>2, RingNumbers, SMTT(60)
  <2>4. WorkInv' BY <2>1, WorkStutter DEF RingInv, BarrierDue
  <2>5. SenderInv' BY <2>1 DEF RingInv, SenderInv
  <2>6. LiveInv'
    <3> SUFFICES ASSUME guardPc = "running" PROVE LiveInv'
      BY <2>1 DEF LiveInv
    <3>1. /\ wDesc.seq = Barriers(workRead) /\ Handling = 1
          /\ controlRead = Barriers(workRead) - Handling
          /\ Len(control) = nextSeq - 1
          /\ \A i \in 1 .. Len(control) : control[i].kind = "meta" /\ control[i].seq = i
      BY <2>1 DEF RingInv, LiveInv, Handling
    <3>2. controlRead + 1 = wDesc.seq /\ controlRead + 1 \in 1 .. Len(control)
      BY <3>1, RingNumbers, SMTT(60)
    <3>3. Matches(control[controlRead + 1], wDesc.seq)
      BY <3>1, <3>2 DEF Matches
    <3>4. p = controlRead
      <4>1. p > controlRead => Superseded(control[controlRead + 1], wDesc.seq)
        <5>1. p > controlRead => controlRead + 1 \in (controlRead + 1) .. p
          BY <2>3, SMT DEF TypeOK, RingTypes
        <5> QED BY <2>2, <5>1, Zenon DEF PastSuperseded
      <4>2. ~Superseded(control[controlRead + 1], wDesc.seq) BY <3>3 DEF Superseded
      <4> QED BY <2>3, <4>1, <4>2, RingNumbers, SMTT(60)
    <3>5. controlRead' = controlRead + 1
      <4>1. controlRead < Len(control) BY <3>2, RingNumbers, SMTT(60)
      <4> QED BY <2>2, <3>3, <3>4, <4>1
    <3>6. controlRead' = Barriers(workRead)' - Handling'
      <4>1. Handling' = 0 /\ Barriers(workRead)' = Barriers(workRead)
        BY <2>1 DEF Handling, Barriers
      <4> QED BY <3>1, <3>5, <4>1, RingNumbers, SMTT(60)
    <3> QED BY <2>1, <3>6, Zenon DEF RingInv, LiveInv
  <2>7. CountInv'
    <3>1. controlRead <= controlRead' /\ controlRead' \in Nat BY <2>2, <2>3, RingNumbers, SMTT(60)
    <3>2. Len(control) - controlRead' <= ControlCapacity
      BY <3>1, RingNumbers, SMTT(60) DEF RingInv, CountInv
    <3> QED BY <2>1, <3>2, Zenon DEF RingInv, CountInv, Audio, Filling, Writing
  <2> QED BY <2>4, <2>5, <2>6, <2>7 DEF RingInv
<1>8. CASE WriteBlock \/ CheckTerminal \/ RaiseFailure \/ ExitFailed
  <2>1. /\ UNCHANGED <<freeVars, workVars, ctlVars, aliveVars, senderVars, rtVars, wDesc, draining,
                       guardVars, published>>
        /\ wPc # "barrier" /\ wPc' # "barrier"
        /\ wPc' = "finalize" => controlAbandoned
    BY <1>8 DEF WriteBlock, CheckTerminal, RaiseFailure, ExitFailed, Fail, FullyDrained, Abandoned
  <2>2. WorkInv' BY <2>1, WorkStutter DEF RingInv, BarrierDue
  <2>3. SenderInv' BY <2>1 DEF RingInv, SenderInv
  <2>4. LiveInv' BY <2>1, Zenon DEF RingInv, LiveInv, Handling, Barriers
  <2>5. CountInv' BY <2>1, Zenon DEF RingInv, CountInv, Audio, Filling, Writing
  <2> QED BY <2>2, <2>3, <2>4, <2>5 DEF RingInv
<1>9. CASE Release
  <2>1. /\ UNCHANGED <<freeRead, workVars, ctlVars, aliveVars, senderVars, rtVars, draining,
                       guardVars, published>>
        /\ wPc = "release" /\ wPc' = "pop" /\ wDesc' = NoDesc
        /\ free' = free \/ (free' = Append(free, wDesc.slot) /\ ~IsBarrier(wDesc))
    BY <1>9 DEF Release
  <2>2. WorkInv' BY <2>1, WorkStutter DEF RingInv, BarrierDue
  <2>3. SenderInv' BY <2>1 DEF RingInv, SenderInv
  <2>4. LiveInv' BY <2>1, Zenon DEF RingInv, LiveInv, Handling, Barriers
  <2>5. CountInv'
    <3>1. Writing' = 0 BY <2>1, SMT DEF Writing, NoDesc, NoSlot, Slots
    <3>2. Len(free') <= Len(free) + Writing /\ Len(free') \in Nat
      <4>1. CASE free' = free BY <4>1, RingNumbers, SMTT(60)
      <4>2. CASE free' = Append(free, wDesc.slot) /\ ~IsBarrier(wDesc)
        <5>1. wDesc.slot \in Slots BY <2>1, <4>2 DEF TypeOK, WorkerTypes, Descriptors, IsBarrier
        <5>2. Len(free') = Len(free) + 1
          BY <4>2, <5>1, AppendIsSeq DEF TypeOK, RingTypes
        <5> QED BY <5>1, <5>2, RingNumbers, SMTT(60) DEF Writing
      <4> QED BY <2>1, <4>1, <4>2
    <3>3. (Len(free') - freeRead) + (Len(published) - Audio(workRead)) + Filling + Writing' <= N
      BY <3>1, <3>2, RingNumbers, SMTT(60) DEF RingInv, CountInv
    <3> QED BY <2>1, <3>3, Zenon DEF RingInv, CountInv, Audio, Filling
  <2> QED BY <2>2, <2>3, <2>4, <2>5 DEF RingInv
<1>10. CASE PeekControl \/ FinalizeCapture
  <2>1. /\ UNCHANGED <<freeVars, workVars, control, aliveVars, senderVars, rtVars, wDesc,
                       guardVars, published>>
        /\ wPc # "barrier" /\ wPc' # "barrier" /\ wPc' # "finalize"
    BY <1>10 DEF PeekControl, FinalizeCapture, Fail, AfterStreamStop
  <2>2. WorkInv' BY <2>1, WorkStutter DEF RingInv, BarrierDue
  <2>3. SenderInv' BY <2>1 DEF RingInv, SenderInv
  <2>4. LiveInv'
    <3> SUFFICES ASSUME guardPc = "running" PROVE LiveInv'
      BY <2>1 DEF LiveInv
    <3>1. ~controlAbandoned /\ wPc # "finalize" /\ ~StopAtHead
      <4>1. \A i \in 1 .. Len(control) : control[i].kind = "meta" BY DEF RingInv, LiveInv
      <4>2. ~ControlEmpty => controlRead + 1 \in 1 .. Len(control)
        BY SMT DEF TypeOK, RingTypes, ControlEmpty
      <4> QED BY <4>1, <4>2 DEF RingInv, LiveInv, StopAtHead
    <3>2. UNCHANGED <<controlRead, draining>>
      BY <1>10, <3>1 DEF PeekControl, FinalizeCapture, Abandoned
    <3> QED BY <2>1, <3>2, Zenon DEF RingInv, LiveInv, Handling, Barriers
  <2>5. CountInv'
    <3>1. controlRead' \in Nat /\ controlRead <= controlRead'
      <4>1. controlRead' \in {controlRead, controlRead + 1, Len(control)}
        BY <1>10 DEF PeekControl, FinalizeCapture, Popped
      <4> QED BY <4>1, SMT DEF TypeOK, RingTypes
    <3>2. Len(control) - controlRead' <= ControlCapacity
      BY <3>1, RingNumbers, SMTT(60) DEF RingInv, CountInv
    <3> QED BY <2>1, <3>2, Zenon DEF RingInv, CountInv, Audio, Filling, Writing
  <2> QED BY <2>2, <2>3, <2>4, <2>5 DEF RingInv
<1>11. CASE Teardown \/ UNCHANGED vars
  <2>1. /\ UNCHANGED <<freeVars, workVars, controlRead, senderVars, rtVars, workerVars, published>>
        /\ guardPc' = "running" => UNCHANGED <<guardPc, control, controlAbandoned>>
    BY <1>11 DEF Teardown, BeginTeardown, PushStreamStop, DropControl, DropWork, Join, vars
  <2>2. WorkInv' BY <2>1, WorkStutter DEF RingInv, BarrierDue
  <2>3. SenderInv' BY <2>1 DEF RingInv, SenderInv
  <2>4. LiveInv' BY <2>1, Zenon DEF RingInv, LiveInv, Handling, Barriers
  <2>5. CountInv'
    <3>1. Len(control') - controlRead <= ControlCapacity
      <4>1. CASE UNCHANGED control BY <4>1 DEF RingInv, CountInv
      <4>2. CASE ~ControlFull /\ control' = Append(control, StreamStop)
        <5>1. control \in Seq(Messages) /\ StreamStop \in Messages
          BY SMT DEF TypeOK, RingTypes, StreamStop, Messages
        <5>2. Len(control') = Len(control) + 1 BY <4>2, <5>1, AppendIsSeq
        <5> QED BY <4>2, <5>2, RingNumbers, SMTT(60) DEF ControlFull
      <4> QED BY <1>11, <4>1, <4>2
          DEF Teardown, BeginTeardown, PushStreamStop, DropControl, DropWork, Join, vars
    <3> QED BY <2>1, <3>1, Zenon DEF RingInv, CountInv, Audio, Filling, Writing
  <2> QED BY <2>2, <2>3, <2>4, <2>5 DEF RingInv
<1> QED
  BY <1>1, <1>2, <1>3, <1>4, <1>5, <1>6, <1>7, <1>8, <1>9, <1>10, <1>11
  DEF Next, RealTime, Worker, Terminated

(* With the work ring dimensioned as RecordingPool::new does, no push of   *)
(* a descriptor, of a barrier or of a recycled slot is ever refused:       *)
(* pool.rs claims it of the descriptors and the slots, and allows the      *)
(* barrier to fail, which it cannot.                                       *)
THEOREM RingsNeverOverflow ==
  ASSUME RingsSized
  PROVE  Spec => []PushesNeverFail
<1>1. Init => TypeOK /\ RingInv BY TypeInit, RingInit
<1>2. TypeOK /\ RingInv /\ [Next]_vars => TypeOK' /\ RingInv'
  BY TypeStep, RingStep
<1>3. TypeOK /\ RingInv => PushesNeverFail BY RingRoom
<1> QED BY <1>1, <1>2, <1>3, PTL DEF Spec

-----------------------------------------------------------------------------
(* What is recorded: the logs of the two rings, the positions of the       *)
(* worker in them and the samples in the slots, held together.             *)

(* The metadata ever sent are numbered 1, 2, ... and StreamStop comes last. *)
ControlLog ==
    /\ \A i \in 1 .. nextSeq - 1 :
          control[i].kind = "meta" /\ control[i].seq = i
    /\ Len(control) \in {nextSeq - 1, nextSeq}
    /\ Len(control) = nextSeq => control[nextSeq] = StreamStop
    /\ Len(control) = nextSeq => guardPc \notin {"running", "stopped", "push_stop"}
    /\ controlAbandoned \/ workAbandoned \/ draining => guardPc # "running"
    /\ draining => Len(control) = nextSeq /\ controlRead = nextSeq

(* The rate that a metadata announced.                                     *)
RateOf(s) == control[s].rate

(* Every metadata whose barrier is not due has it in the work ring, and    *)
(* no audio precedes the first barrier.                                    *)
BarrierLog ==
    /\ \A s \in 1 .. nextSeq - 1 - BarrierDue : \E i \in 1 .. Len(work) : IsBarrier(work[i]) /\ work[i].seq = s
    /\ \A i \in 1 .. Len(work) : work[i].seq > 0

(* A block that is pushed follows the confirmation of its own rate.        *)
RateInv ==
    /\ rtPc = "barrier" => RateOf(nextSeq - 1) = hostRate
    /\ rtPc = "barrier" => nextSeq > 1
    /\ metaSent => nextSeq > 1 /\ metaRate = RateOf(nextSeq - 1)
    /\ rtPc = "audio" /\ metaSent => failedFlag \/ metaRate = hostRate
    /\ rtPc \in {"fill", "publish"} => metaSent /\ metaRate = hostRate

(* A descriptor of audio stands for the block it is the nth of.            *)
AudioLog ==
    \A i \in 1 .. Len(work) : ~IsBarrier(work[i]) =>
        /\ work[i].nth > 0
        /\ published[work[i].nth].seq = work[i].seq
        /\ published[work[i].nth].rate = RateOf(work[i].seq)

(* and its slot still holds that block when the worker reads it.           *)
SlotsHold ==
    /\ \A i \in workRead + 1 .. Len(work) : ~IsBarrier(work[i]) =>
          content[work[i].slot] = published[work[i].nth].block
    /\ wPc = "write" => content[wDesc.slot] = published[wDesc.nth].block
    /\ rtPc = "publish" => content[rtSlot] = captured

(* Where the worker stands in the work ring.                               *)
PositionInv ==
    /\ wPc \in {"barrier", "write", "release"} => workRead > 0 /\ wDesc = work[workRead]
    /\ wPc = "finalize" => WorkEmpty /\ guardPc # "running"

(* The worker is in its loop; the segment it has open after k barriers.    *)
AtWork == wPc \notin {"failing", "exited"}
OpenWriter(k) == IF k = 0 THEN NoWriter ELSE [seq |-> k, rate |-> RateOf(k)]

(* What the worker has taken, opened and written.                          *)
WorkerInv ==
    orphaned = {} /\ AtWork =>
        /\ controlRead = Barriers(workRead) - Handling + (IF draining THEN 1 ELSE 0)
        /\ writer = OpenWriter(Barriers(workRead) - Handling)
        /\ Len(recorded) = Audio(workRead) - (IF wPc = "write" THEN 1 ELSE 0)

WrittenInv ==
    orphaned = {} =>
        /\ Len(recorded) <= Audio(workRead)
        /\ \A k \in 1 .. Len(recorded) : recorded[k] = published[k]

(* The end.                                                                *)
EndInv ==
    /\ wPc = "exited" <=> wResult # "none"
    /\ failedFlag => ~AtWork /\ wResult # "ok"
    /\ wResult = "ok" => guardPc # "running"
    /\ wResult = "ok" /\ orphaned = {} => Len(recorded) = Len(published)
    /\ captured = Len(published) + overruns + suppressed + Filling
    /\ suppressed > 0 => failedFlag
    /\ outcome \in {"Success", "SuccessWithLoss"} => wResult = "ok"
    /\ outcome # "none" => guardPc = "done"
    /\ outcome = "Success" => overruns = 0

OrderInv == ControlLog /\ BarrierLog /\ RateInv /\ AudioLog /\ SlotsHold
            /\ PositionInv /\ WorkerInv /\ WrittenInv /\ EndInv

LEMMA OrderInit == Init => OrderInv
<1> SUFFICES ASSUME Init PROVE OrderInv
  OBVIOUS
<1> USE CapacityAssumption DEF Init
<1>1. ControlLog BY SMT DEF ControlLog
<1>2. BarrierLog BY SMT DEF BarrierLog, BarrierDue
<1>3. RateInv BY SMT DEF RateInv
<1>4. AudioLog BY SMT DEF AudioLog
<1>5. SlotsHold BY SMT DEF SlotsHold
<1>6. PositionInv BY SMT DEF PositionInv
<1>7. WorkerInv BY SMT DEF WorkerInv, OpenWriter, Barriers, Audio, Handling
<1>8. WrittenInv BY SMT DEF WrittenInv, Audio
<1>9. EndInv BY SMT DEF EndInv, AtWork, Filling
<1> QED BY <1>1, <1>2, <1>3, <1>4, <1>5, <1>6, <1>7, <1>8, <1>9 DEF OrderInv

(* Which action changes what.                                              *)
LEMMA Frames ==
  ASSUME [Next]_vars
  PROVE  /\ PushMetadata \/ UNCHANGED <<nextSeq, barrierSeq>>
         /\ PushMetadata \/ PushStreamStop \/ UNCHANGED control
         /\ PushBarrier \/ Publish \/ UNCHANGED work
         /\ Publish \/ UNCHANGED published
         /\ FillPlanar \/ UNCHANGED content
         /\ PopWork \/ UNCHANGED workRead
         /\ WriteBlock \/ UNCHANGED recorded
         /\ PeekControl \/ FinalizeCapture \/ UNCHANGED orphaned
         /\ PeekControl \/ UNCHANGED draining
         /\ PeekControl \/ FinalizeCapture \/ HandleControlBarrier \/ UNCHANGED controlRead
         /\ FinalizeCapture \/ HandleControlBarrier \/ WriteBlock \/ UNCHANGED writer
         /\ PopWork \/ Release \/ UNCHANGED wDesc
         /\ FinalizeCapture \/ ExitFailed \/ UNCHANGED wResult
         /\ RaiseFailure \/ UNCHANGED failedFlag
         /\ Worker \/ UNCHANGED wPc
         /\ StopLoop \/ Teardown \/ UNCHANGED guardPc
         /\ DropControl \/ UNCHANGED controlAbandoned
         /\ DropWork \/ UNCHANGED workAbandoned
         /\ Join \/ UNCHANGED outcome
         /\ RealTime \/ StopLoop \/ UNCHANGED rtPc
         /\ RecordAudio \/ Publish \/ UNCHANGED <<rtSlot, overruns, suppressed, captured>>
         /\ RecordAudio \/ UNCHANGED <<suppressed, captured>>
         /\ StartCallback \/ UNCHANGED hostRate
         /\ PushMetadata \/ PushBarrier \/ Reconnect \/ UNCHANGED <<metaSent, metaRate>>
<1> USE DEF freeVars, workVars, ctlVars, aliveVars, senderVars, metaVars, rtVars, workerVars,
        guardVars, countVars, logVars
<1>1. CASE RealTime
  BY <1>1 DEF RealTime, StartCallback, SkipMetadata, PushMetadata, PushBarrier, SkipAudio,
     RecordAudio, FillPlanar, Publish, Reconnect
<1>2. CASE Worker
  BY <1>2 DEF Worker, PopWork, HandleControlBarrier, WriteBlock, Release, PeekControl,
     CheckTerminal, FinalizeCapture, RaiseFailure, ExitFailed, Fail
<1>3. CASE StopLoop BY <1>3 DEF StopLoop
<1>4. CASE Teardown
  BY <1>4 DEF Teardown, BeginTeardown, PushStreamStop, DropControl, DropWork, Join
<1>5. CASE UNCHANGED vars BY <1>5 DEF vars
<1> QED BY <1>1, <1>2, <1>3, <1>4, <1>5 DEF Next, Terminated

(* The logs only grow.                                                     *)
LEMMA LogsGrow ==
  ASSUME TypeOK, [Next]_vars
  PROVE  /\ control' = control \/ \E m \in Messages : control' = Append(control, m)
         /\ work' = work \/ \E d \in Descriptors : work' = Append(work, d)
         /\ published' = published \/ \E t \in Takes : published' = Append(published, t)
         /\ Len(control') >= Len(control) /\ \A i \in 1 .. Len(control) : control'[i] = control[i]
         /\ Len(work') >= Len(work) /\ \A i \in 1 .. Len(work) : work'[i] = work[i]
         /\ Len(published') >= Len(published)
         /\ \A i \in 1 .. Len(published) : published'[i] = published[i]
<1> USE RateAssumption
<1>1. control' = control \/ \E m \in Messages : control' = Append(control, m)
  <2>1. Metadata(nextSeq, hostRate) \in Messages /\ StreamStop \in Messages
    BY SMT DEF TypeOK, CallbackTypes, Metadata, Messages, StreamStop
  <2>2. PushMetadata \/ PushStreamStop \/ UNCHANGED control BY Frames
  <2> QED BY <2>1, <2>2, Zenon DEF PushMetadata, PushStreamStop
<1>2. work' = work \/ \E d \in Descriptors : work' = Append(work, d)
  <2>1. PushBarrier \/ Publish \/ UNCHANGED work BY Frames
  <2>2. [slot |-> CONTROL_BARRIER_SLOT, seq |-> barrierSeq, nth |-> Len(published)] \in Descriptors
    BY SMT DEF TypeOK, CallbackTypes, HistoryTypes, Descriptors
  <2>3. Publish => [slot |-> rtSlot, seq |-> barrierSeq, nth |-> Len(published) + 1] \in Descriptors
    BY SMT DEF TypeOK, CallbackTypes, HistoryTypes, Descriptors, Publish
  <2> QED BY <2>1, <2>2, <2>3, Zenon DEF PushBarrier, Publish
<1>3. published' = published \/ \E t \in Takes : published' = Append(published, t)
  <2>1. Publish \/ UNCHANGED published BY Frames
  <2>2. [block |-> captured, seq |-> barrierSeq, rate |-> hostRate] \in Takes
    BY SMT DEF TypeOK, CallbackTypes, HistoryTypes, Takes
  <2> QED BY <2>1, <2>2, Zenon DEF Publish
<1>4. control \in Seq(Messages) /\ work \in Seq(Descriptors) /\ published \in Seq(Takes)
  BY DEF TypeOK, RingTypes, HistoryTypes
<1>5. Len(control') >= Len(control) /\ \A i \in 1 .. Len(control) : control'[i] = control[i]
  <2>1. CASE control' = control BY <2>1, <1>4, SMT
  <2>2. ASSUME NEW m \in Messages, control' = Append(control, m) PROVE <1>5!:
    BY <2>2, <1>4, SMT
  <2> QED BY <1>1, <2>1, <2>2
<1>6. Len(work') >= Len(work) /\ \A i \in 1 .. Len(work) : work'[i] = work[i]
  <2>1. CASE work' = work BY <2>1, <1>4, SMT
  <2>2. ASSUME NEW d \in Descriptors, work' = Append(work, d) PROVE <1>6!:
    BY <2>2, <1>4, SMT
  <2> QED BY <1>2, <2>1, <2>2
<1>7. Len(published') >= Len(published) /\ \A i \in 1 .. Len(published) : published'[i] = published[i]
  <2>1. CASE published' = published BY <2>1, <1>4, SMT
  <2>2. ASSUME NEW t \in Takes, published' = Append(published, t) PROVE <1>7!:
    BY <2>2, <1>4, SMT
  <2> QED BY <1>3, <2>1, <2>2
<1> QED BY <1>1, <1>2, <1>3, <1>5, <1>6, <1>7

LEMMA ControlLogStep ==
  ASSUME TypeOK, TypeOK', RingInv, ControlLog, [Next]_vars
  PROVE  ControlLog'
<1> USE DEF freeVars, workVars, ctlVars, aliveVars, senderVars, metaVars, rtVars, workerVars,
        guardVars, countVars, logVars
<1>1. /\ nextSeq \in Nat \ {0} /\ nextSeq' \in Nat \ {0}
      /\ control \in Seq(Messages) /\ control' \in Seq(Messages)
      /\ controlRead \in 0 .. Len(control) /\ controlRead' \in 0 .. Len(control')
      /\ draining \in BOOLEAN
  BY DEF TypeOK, RingTypes, CallbackTypes, WorkerTypes
<1>2. /\ Len(control) \in Nat /\ Len(control') \in Nat
      /\ Len(control') >= Len(control) /\ \A i \in 1 .. Len(control) : control'[i] = control[i]
  BY <1>1, LogsGrow, SMT
<1>3. /\ \A i \in 1 .. nextSeq' - 1 : control'[i].kind = "meta" /\ control'[i].seq = i
      /\ Len(control') \in {nextSeq' - 1, nextSeq'}
      /\ Len(control') = nextSeq' => control'[nextSeq'] = StreamStop
      /\ Len(control') = nextSeq' => guardPc' \notin {"running", "stopped", "push_stop"}
  <2>1. CASE PushMetadata /\ ~UNCHANGED <<control, nextSeq>>
    <3>1. /\ control' = Append(control, Metadata(nextSeq, hostRate)) /\ nextSeq' = nextSeq + 1
          /\ rtPc = "meta" /\ guardPc' = guardPc
      BY <2>1 DEF PushMetadata
    <3>2. Len(control) = nextSeq - 1
      BY <3>1, <1>1 DEF ControlLog, TypeOK, GuardTypes
    <3>3. Metadata(nextSeq, hostRate) \in Messages
      BY RateAssumption, SMT DEF TypeOK, CallbackTypes, Metadata, Messages
    <3>4. Len(control') = nextSeq /\ control'[nextSeq] = Metadata(nextSeq, hostRate)
      BY <1>1, <1>2, <3>1, <3>2, <3>3, AppendIsSeq, SMT
    <3>5. control'[nextSeq].kind = "meta" /\ control'[nextSeq].seq = nextSeq
      BY <3>4 DEF Metadata
    <3> QED BY <1>1, <1>2, <3>1, <3>2, <3>4, <3>5, SMT DEF ControlLog
  <2>2. CASE PushStreamStop /\ ~UNCHANGED control
    <3>1. /\ control' = Append(control, StreamStop) /\ nextSeq' = nextSeq
          /\ guardPc = "push_stop" /\ guardPc' = "drop_control"
      BY <2>2 DEF PushStreamStop
    <3>2. Len(control) = nextSeq - 1 BY <3>1 DEF ControlLog
    <3>3. StreamStop \in Messages BY SMT DEF Messages, StreamStop
    <3>4. Len(control') = nextSeq /\ control'[nextSeq] = StreamStop
      BY <1>1, <1>2, <3>1, <3>2, <3>3, AppendIsSeq, SMT
    <3> QED BY <1>1, <1>2, <3>1, <3>2, <3>4, SMT DEF ControlLog
  <2>3. CASE UNCHANGED <<control, nextSeq>>
    <3>1. guardPc \notin {"running", "stopped", "push_stop"} =>
             guardPc' \notin {"running", "stopped", "push_stop"}
      <4>1. StopLoop \/ Teardown \/ UNCHANGED guardPc BY Frames
      <4> QED BY <4>1
              DEF StopLoop, Teardown, BeginTeardown, PushStreamStop, DropControl, DropWork, Join
    <3> QED BY <2>3, <3>1 DEF ControlLog
  <2> QED BY <2>1, <2>2, <2>3, Frames
<1>4. controlAbandoned' \/ workAbandoned' \/ draining' => guardPc' # "running"
  <2>1. guardPc # "running" => guardPc' # "running"
    <3>1. StopLoop \/ Teardown \/ UNCHANGED guardPc BY Frames
    <3> QED BY <3>1
            DEF StopLoop, Teardown, BeginTeardown, PushStreamStop, DropControl, DropWork, Join
  <2>2. DropControl \/ DropWork => guardPc # "running" BY DEF DropControl, DropWork
  <2>3. PeekControl /\ draining' /\ ~draining => guardPc # "running"
    <3> SUFFICES ASSUME PeekControl, draining', ~draining PROVE guardPc # "running"
      OBVIOUS
    <3>1. StopAtHead BY DEF PeekControl
    <3>2. controlRead + 1 \in 1 .. Len(control) /\ control[controlRead + 1].kind = "stop"
      BY <1>1, <1>2, <3>1, SMT DEF StopAtHead, ControlEmpty
    <3> QED BY <1>1, <3>2, SMT DEF ControlLog
  <2> QED BY <2>1, <2>2, <2>3, Frames DEF ControlLog
<1>5. draining' => Len(control') = nextSeq' /\ controlRead' = nextSeq'
  <2> SUFFICES ASSUME draining' PROVE Len(control') = nextSeq' /\ controlRead' = nextSeq'
    OBVIOUS
  <2>1. CASE draining
    <3>1. Len(control) = nextSeq /\ controlRead = nextSeq /\ guardPc \notin {"running", "stopped", "push_stop"}
      BY <2>1 DEF ControlLog
    <3>2. ~PushMetadata /\ ~PushStreamStop
      BY <3>1 DEF PushMetadata, PushStreamStop, TypeOK, GuardTypes
    <3>3. UNCHANGED <<control, nextSeq>> BY <3>2, Frames
    <3>4. controlRead' = nextSeq
      <4>1. PeekControl \/ FinalizeCapture => controlRead' = Len(control)
        <5>1. ControlEmpty BY <3>1 DEF ControlEmpty
        <5> QED BY <5>1, <3>1 DEF PeekControl, FinalizeCapture, StopAtHead, MetadataAtHead
      <4>2. HandleControlBarrier => controlRead' = Len(control)
        <5> SUFFICES ASSUME HandleControlBarrier PROVE controlRead' = Len(control)
          OBVIOUS
        <5>1. PICK p \in controlRead .. Len(control) :
                controlRead' = p \/ (p < Len(control) /\ controlRead' = p + 1)
          BY Zenon DEF HandleControlBarrier, Popped
        <5> QED BY <5>1, <1>1, <1>2, <3>1, SMT
      <4> QED BY <3>1, <4>1, <4>2, Frames
    <3> QED BY <3>1, <3>3, <3>4
  <2>2. CASE ~draining
    <3>1. PeekControl BY <2>2, Frames
    <3>2. StopAtHead /\ controlRead' = controlRead + 1 /\ UNCHANGED <<control, nextSeq>>
      BY <2>2, <3>1 DEF PeekControl, Popped
    <3>3. controlRead + 1 \in 1 .. Len(control) /\ control[controlRead + 1].kind = "stop"
      BY <1>1, <1>2, <3>2, SMT DEF StopAtHead, ControlEmpty
    <3>4. controlRead + 1 \notin 1 .. nextSeq - 1
      BY <3>3 DEF ControlLog
    <3> QED BY <1>1, <3>2, <3>3, <3>4, SMT DEF ControlLog
  <2> QED BY <1>1, <2>1, <2>2
<1> QED BY <1>3, <1>4, <1>5 DEF ControlLog

LEMMA BarrierLogStep ==
  ASSUME RingsSized, TypeOK, TypeOK', RingInv, RingInv', RateInv, BarrierLog, [Next]_vars
  PROVE  BarrierLog'
<1>1. /\ nextSeq \in Nat \ {0} /\ nextSeq' \in Nat \ {0} /\ work \in Seq(Descriptors)
      /\ barrierSeq = nextSeq - 1
  BY DEF TypeOK, CallbackTypes, RingTypes, RingInv, SenderInv
<1>2. Len(work) \in Nat /\ Len(work') >= Len(work) /\ \A i \in 1 .. Len(work) : work'[i] = work[i]
  BY <1>1, LogsGrow, SMT
<1>3. CASE PushBarrier
  <2> DEFINE desc == [slot |-> CONTROL_BARRIER_SLOT, seq |-> barrierSeq, nth |-> Len(published)]
  <2>1. work' = Append(work, desc) /\ rtPc = "barrier" /\ rtPc' = "audio" /\ nextSeq' = nextSeq
    BY <1>3, RingRoom DEF PushBarrier, PushesNeverFail
  <2>2. desc \in Descriptors /\ IsBarrier(desc) /\ desc.seq = nextSeq - 1
    BY <1>1, SMT DEF TypeOK, CallbackTypes, HistoryTypes, Descriptors, IsBarrier
  <2> HIDE DEF desc
  <2>3. Len(work') = Len(work) + 1 /\ work'[Len(work) + 1] = desc
    BY <2>1, <2>2, <1>1, AppendIsSeq
  <2>4. BarrierDue = 1 /\ BarrierDue' = 0 BY <2>1 DEF BarrierDue
  <2>5. Len(work) + 1 \in 1 .. Len(work') BY <1>2, <2>3, SMT
  <2>6. ASSUME NEW s \in 1 .. nextSeq' - 1 - BarrierDue'
        PROVE  \E i \in 1 .. Len(work') : IsBarrier(work[i])' /\ work'[i].seq = s
    <3>1. CASE s = nextSeq - 1 BY <3>1, <2>2, <2>3, <2>5, Zenon DEF IsBarrier
    <3>2. CASE s # nextSeq - 1
      <4>1. s \in 1 .. nextSeq - 1 - BarrierDue BY <1>1, <2>1, <2>4, <3>2, SMT
      <4>2. PICK i \in 1 .. Len(work) : IsBarrier(work[i]) /\ work[i].seq = s
        BY <4>1 DEF BarrierLog
      <4>3. i \in 1 .. Len(work') BY <1>2, <2>3, SMT
      <4> QED BY <4>2, <4>3, <1>2, Zenon DEF IsBarrier
    <3> QED BY <3>1, <3>2
  <2>7. \A i \in 1 .. Len(work') : work'[i].seq > 0
    <3>1. desc.seq > 0 BY <2>1, <2>2, <1>1, SMT DEF RateInv
    <3> QED BY <3>1, <1>2, <2>3, SMT DEF BarrierLog
  <2> QED BY <2>6, <2>7, Zenon DEF BarrierLog
<1>4. CASE ~PushBarrier
  <2>1. nextSeq' - 1 - BarrierDue' = nextSeq - 1 - BarrierDue
    <3>1. BarrierDue \in {0, 1} /\ BarrierDue' \in {0, 1} BY DEF BarrierDue
    <3>2. CASE PushMetadata /\ nextSeq' # nextSeq
      <4>1. rtPc = "meta" /\ rtPc' = "barrier" /\ nextSeq' = nextSeq + 1
        BY <3>2 DEF PushMetadata
      <4> QED BY <1>1, <4>1, SMT DEF BarrierDue
    <3>3. CASE PushMetadata /\ nextSeq' = nextSeq
      <4>1. ~RetriesBarrier BY DEF RetriesBarrier, RingInv, SenderInv
      <4>2. rtPc = "meta" /\ rtPc' = "audio"
        BY <3>3, <4>1, <1>1, SMT DEF PushMetadata
      <4> QED BY <3>3, <4>2 DEF BarrierDue
    <3>4. CASE ~PushMetadata
      <4>1. nextSeq' = nextSeq BY <3>4, Frames
      <4>2. rtPc = "barrier" <=> rtPc' = "barrier"
        <5>1. RealTime \/ StopLoop \/ UNCHANGED rtPc BY Frames
        <5> QED BY <5>1, <1>4, <3>4 DEF RealTime, StartCallback, SkipMetadata, SkipAudio, RecordAudio,
              FillPlanar, Publish, Reconnect, StopLoop, rtVars
      <4> QED BY <4>1, <4>2 DEF BarrierDue
    <3> QED BY <3>2, <3>3, <3>4
  <2>2. \A s \in 1 .. nextSeq' - 1 - BarrierDue' : \E i \in 1 .. Len(work') : IsBarrier(work[i])' /\ work'[i].seq = s
    <3> TAKE s \in 1 .. nextSeq' - 1 - BarrierDue'
    <3>1. PICK i \in 1 .. Len(work) : IsBarrier(work[i]) /\ work[i].seq = s
      BY <2>1 DEF BarrierLog
    <3>2. i \in 1 .. Len(work') BY <1>2, LogsGrow, SMT
    <3> QED BY <3>1, <3>2, <1>2, Zenon DEF IsBarrier
  <2>3. \A i \in 1 .. Len(work') : work'[i].seq > 0
    <3>1. CASE Publish
      <4>1. work' = work \/ work' = Append(work, [slot |-> rtSlot, seq |-> barrierSeq, nth |-> Len(published) + 1])
        BY <3>1 DEF Publish
      <4>2. [slot |-> rtSlot, seq |-> barrierSeq, nth |-> Len(published) + 1] \in Descriptors
        BY <3>1, SMT DEF Publish, TypeOK, CallbackTypes, HistoryTypes, Descriptors
      <4>3. barrierSeq > 0 BY <3>1, <1>1, SMT DEF RateInv, Publish
      <4> QED BY <4>1, <4>2, <4>3, <1>1, SMT DEF BarrierLog
    <3>2. CASE UNCHANGED work BY <3>2 DEF BarrierLog
    <3> QED BY <3>1, <3>2, <1>4, Frames
  <2> QED BY <2>2, <2>3, Zenon DEF BarrierLog
<1> QED BY <1>3, <1>4

LEMMA RateOfStable ==
  ASSUME TypeOK, ControlLog, [Next]_vars
  PROVE  \A s \in 1 .. nextSeq - 1 : RateOf(s)' = RateOf(s)
<1>1. nextSeq \in Nat \ {0} /\ Len(control) \in Nat
  BY SMT DEF TypeOK, CallbackTypes, RingTypes
<1>2. \A s \in 1 .. nextSeq - 1 : s \in 1 .. Len(control)
  BY <1>1, SMT DEF ControlLog
<1> QED BY <1>2, LogsGrow, Zenon DEF RateOf

LEMMA RateInvStep ==
  ASSUME RingsSized, TypeOK, TypeOK', RingInv, ControlLog, RateInv, [Next]_vars
  PROVE  RateInv'
<1> USE DEF freeVars, workVars, ctlVars, aliveVars, senderVars, metaVars, rtVars, workerVars,
        guardVars, countVars, logVars
<1>1. /\ nextSeq \in Nat \ {0} /\ control \in Seq(Messages)
      /\ pendingBarrier = NoBarrier /\ barrierSeq = nextSeq - 1
  BY DEF TypeOK, CallbackTypes, RingTypes, RingInv, SenderInv
<1>2. \A s \in 1 .. nextSeq - 1 : RateOf(s)' = RateOf(s) BY RateOfStable
<1>3. nextSeq > 1 => control'[nextSeq - 1].rate = control[nextSeq - 1].rate
  <2>1. nextSeq > 1 => nextSeq - 1 \in 1 .. nextSeq - 1 BY <1>1, SMT
  <2> QED BY <2>1, <1>2 DEF RateOf
<1>4. CASE PushMetadata
  <2>1. ~RetriesBarrier /\ rtPc = "meta" BY <1>1, <1>4 DEF RetriesBarrier, PushMetadata
  <2>2. metaSent' = FALSE /\ rtPc' \in {"audio", "barrier"} BY <1>4 DEF PushMetadata
  <2>3. ASSUME rtPc' = "barrier" PROVE nextSeq' > 1 /\ control'[nextSeq' - 1].rate = hostRate'
    <3>1. /\ control' = Append(control, Metadata(nextSeq, hostRate))
          /\ nextSeq' = nextSeq + 1 /\ hostRate' = hostRate
      BY <1>4, <2>1, <2>3 DEF PushMetadata
    <3>2. Len(control) = nextSeq - 1
      BY <2>1, <1>1 DEF ControlLog, TypeOK, GuardTypes
    <3>3. Metadata(nextSeq, hostRate) \in Messages
      BY RateAssumption, SMT DEF TypeOK, CallbackTypes, Metadata, Messages
    <3>4. control'[Len(control) + 1] = Metadata(nextSeq, hostRate)
      BY <1>1, <3>1, <3>3, AppendIsSeq
    <3>5. nextSeq' - 1 = Len(control) + 1 /\ nextSeq' > 1 BY <1>1, <3>1, <3>2, SMT
    <3> QED BY <3>1, <3>4, <3>5 DEF Metadata
  <2> QED BY <2>2, <2>3, Zenon DEF RateInv, RateOf
<1>5. CASE PushBarrier
  <2>1. /\ rtPc = "barrier" /\ rtPc' = "audio" /\ metaSent' = TRUE /\ metaRate' = hostRate
        /\ UNCHANGED <<nextSeq, hostRate>>
    BY <1>5, RingRoom DEF PushBarrier, PushesNeverFail
  <2>2. nextSeq > 1 /\ control[nextSeq - 1].rate = hostRate BY <2>1 DEF RateInv, RateOf
  <2>3. control'[nextSeq' - 1].rate = hostRate BY <1>3, <2>1, <2>2
  <2> QED BY <2>1, <2>2, <2>3, Zenon DEF RateInv, RateOf
<1>6. CASE ~PushMetadata /\ ~PushBarrier
  <2>1. UNCHANGED nextSeq BY <1>6, Frames
  <2>2. nextSeq > 1 => control'[nextSeq' - 1].rate = control[nextSeq - 1].rate
    BY <1>3, <2>1
  <2>3. rtPc' # "barrier" \/ (rtPc = "barrier" /\ UNCHANGED <<hostRate, metaSent, metaRate>>)
    <3>1. CASE RealTime
      BY <3>1, <1>6 DEF RealTime, StartCallback, SkipMetadata, SkipAudio, RecordAudio, FillPlanar,
         Publish, Reconnect
    <3>2. CASE StopLoop BY <3>2 DEF StopLoop
    <3>3. CASE UNCHANGED rtPc /\ ~RealTime
      BY <3>3, Frames DEF RealTime
    <3> QED BY <3>1, <3>2, <3>3, Frames
  <2>4. metaSent' => metaSent /\ metaRate' = metaRate
    BY <1>6, Frames, Zenon DEF Reconnect
  <2>5. rtPc' = "audio" /\ metaSent' => failedFlag' \/ metaRate' = hostRate'
    <3>1. failedFlag => failedFlag' BY Frames, Zenon DEF RaiseFailure
    <3>2. CASE RealTime
      <4> SUFFICES ASSUME rtPc' = "audio", metaSent' PROVE failedFlag' \/ metaRate' = hostRate'
        OBVIOUS
      <4>1. SkipMetadata
        BY <3>2, <1>6 DEF RealTime, StartCallback, SkipAudio, RecordAudio, FillPlanar,
           Publish, Reconnect, TypeOK, GuardTypes
      <4> QED BY <4>1, <3>1 DEF SkipMetadata, MetadataCurrent
    <3>3. CASE ~RealTime
      <4>1. rtPc' = rtPc \/ rtPc' = "stopped" BY <3>3, Frames, Zenon DEF StopLoop
      <4>2. UNCHANGED hostRate BY <3>3, Frames DEF RealTime
      <4> QED BY <2>4, <3>1, <4>1, <4>2, Zenon DEF RateInv
    <3> QED BY <3>2, <3>3
  <2>6. rtPc' \in {"fill", "publish"} => metaSent' /\ metaRate' = hostRate'
    <3>1. CASE RealTime
      <4> SUFFICES ASSUME rtPc' \in {"fill", "publish"} PROVE metaSent' /\ metaRate' = hostRate'
        OBVIOUS
      <4>1. RecordAudio \/ FillPlanar
        BY <3>1, <1>6 DEF RealTime, StartCallback, SkipMetadata, SkipAudio,
           Publish, Reconnect
      <4>2. CASE RecordAudio
        BY <4>2 DEF RecordAudio, RateInv
      <4>3. CASE FillPlanar
        BY <4>3 DEF FillPlanar, RateInv
      <4> QED BY <4>1, <4>2, <4>3
    <3>2. CASE ~RealTime
      <4>1. rtPc' = rtPc \/ rtPc' = "stopped" BY <3>2, Frames, Zenon DEF StopLoop
      <4>2. UNCHANGED <<hostRate, metaSent, metaRate>> BY <3>2, Frames DEF RealTime
      <4> QED BY <4>1, <4>2, Zenon DEF RateInv
    <3> QED BY <3>1, <3>2
  <2>7. rtPc' = "barrier" => nextSeq' > 1 /\ control'[nextSeq' - 1].rate = hostRate'
    BY <2>1, <2>2, <2>3, Zenon DEF RateInv, RateOf
  <2>8. metaSent' => nextSeq' > 1 /\ metaRate' = control'[nextSeq' - 1].rate
    BY <2>1, <2>2, <2>4, Zenon DEF RateInv, RateOf
  <2> QED BY <2>5, <2>6, <2>7, <2>8, Zenon DEF RateInv, RateOf
<1> QED BY <1>4, <1>5, <1>6

(* What a descriptor counts is within the logs.                            *)
LEMMA DescriptorRange ==
  ASSUME TypeOK, RingInv, NEW i \in 1 .. Len(work)
  PROVE  /\ work[i] \in Descriptors /\ work[i].seq \in Nat /\ work[i].nth \in Nat
         /\ Barriers(i) = work[i].seq /\ Audio(i) = work[i].nth
         /\ work[i].seq <= nextSeq - 1 /\ work[i].nth <= Len(published)
<1>1. work \in Seq(Descriptors) BY DEF TypeOK, RingTypes
<1>2. work[i] \in Descriptors BY <1>1, ElementInSet
<1>3. work[i].seq \in Nat /\ work[i].nth \in Nat BY <1>2 DEF Descriptors
<1>4. /\ i # 0 /\ i <= Len(work) /\ i \in 0 .. Len(work) /\ Len(work) \in 0 .. Len(work)
      /\ i \in Nat
  BY <1>1, SMT
<1>5. Barriers(i) = work[i].seq /\ Audio(i) = work[i].nth BY <1>4, Zenon DEF Barriers, Audio
<1>6. Barriers(i) <= Barriers(Len(work)) /\ Audio(i) <= Audio(Len(work))
  BY <1>4, Zenon DEF RingInv, WorkInv, WorkCounts
<1>7. BarrierDue \in {0, 1} /\ Barriers(Len(work)) = nextSeq - 1 - BarrierDue /\ Audio(Len(work)) = Len(published)
  BY Zenon DEF RingInv, WorkInv, BarrierDue
<1>8. nextSeq \in Nat BY DEF TypeOK, CallbackTypes
<1>9. work[i].seq <= nextSeq - 1 BY <1>3, <1>5, <1>6, <1>7, <1>8, SMT
<1> QED BY <1>2, <1>3, <1>5, <1>6, <1>7, <1>9, Zenon

LEMMA CountsStable ==
  ASSUME TypeOK, [Next]_vars
  PROVE  \A i \in 0 .. Len(work) : Barriers(i)' = Barriers(i) /\ Audio(i)' = Audio(i)
<1>1. work \in Seq(Descriptors) BY DEF TypeOK, RingTypes
<1> TAKE i \in 0 .. Len(work)
<1>2. i # 0 => i \in 1 .. Len(work) BY <1>1, SMT
<1> QED BY <1>2, LogsGrow, Zenon DEF Barriers, Audio

LEMMA AudioLogStep ==
  ASSUME RingsSized, TypeOK, TypeOK', RingInv, ControlLog, BarrierLog, RateInv, AudioLog, [Next]_vars
  PROVE  AudioLog'
<1> USE DEF freeVars, workVars, ctlVars, aliveVars, senderVars, metaVars, rtVars, workerVars,
        guardVars, countVars, logVars
<1>1. /\ nextSeq \in Nat \ {0} /\ work \in Seq(Descriptors) /\ published \in Seq(Takes)
      /\ barrierSeq = nextSeq - 1
  BY DEF TypeOK, CallbackTypes, RingTypes, HistoryTypes, RingInv, SenderInv
<1>0. PICK L \in Nat : L = Len(work) BY <1>1, SMT
<1> DEFINE Good(i) == ~IsBarrier(work[i]) =>
             /\ work[i].nth > 0
             /\ published[work[i].nth].seq = work[i].seq
             /\ published[work[i].nth].rate = RateOf(work[i].seq)
<1>2. ASSUME NEW i \in 1 .. Len(work) PROVE Good(i)'
  <2> SUFFICES ASSUME ~IsBarrier(work'[i]) PROVE Good(i)'
    BY DEF IsBarrier
  <2>1. work'[i] = work[i] BY LogsGrow
  <2>2. /\ work[i].nth > 0 /\ published[work[i].nth].seq = work[i].seq
        /\ published[work[i].nth].rate = RateOf(work[i].seq)
    BY <2>1, Zenon DEF AudioLog, IsBarrier
  <2>3. work[i].nth \in 1 .. Len(published) /\ work[i].seq \in 1 .. nextSeq - 1
    BY <1>1, <2>2, DescriptorRange, SMT DEF BarrierLog
  <2>4. published'[work[i].nth] = published[work[i].nth] BY <2>3, LogsGrow
  <2>5. RateOf(work[i].seq) = control'[work[i].seq].rate
    BY <2>3, RateOfStable, Zenon DEF RateOf
  <2> QED BY <2>1, <2>2, <2>4, <2>5, Zenon DEF RateOf
<1>3. ASSUME Publish, work' # work PROVE Len(work') = L + 1 /\ Good(L + 1)'
  <2>1. /\ work' = Append(work, [slot |-> rtSlot, seq |-> barrierSeq, nth |-> Len(published) + 1])
        /\ published' = Append(published, [block |-> captured, seq |-> barrierSeq, rate |-> hostRate])
        /\ rtPc = "publish" /\ UNCHANGED control
    BY <1>3 DEF Publish
  <2>2. [block |-> captured, seq |-> barrierSeq, rate |-> hostRate] \in Takes
    BY <1>1, RateAssumption, SMT DEF TypeOK, CallbackTypes, HistoryTypes, Takes
  <2>3. [slot |-> rtSlot, seq |-> barrierSeq, nth |-> Len(published) + 1] \in Descriptors
    BY <2>1, <1>1, SMT DEF TypeOK, CallbackTypes, HistoryTypes, Descriptors
  <2>4. /\ Len(published) + 1 > 0
        /\ published'[Len(published) + 1] = [block |-> captured, seq |-> barrierSeq, rate |-> hostRate]
    BY <1>1, <2>1, <2>2, AppendIsSeq, SMT
  <2>5. work'[Len(work) + 1] = [slot |-> rtSlot, seq |-> barrierSeq, nth |-> Len(published) + 1]
    BY <1>1, <2>1, <2>3, AppendIsSeq
  <2>6. hostRate = control[barrierSeq].rate BY <1>1, <2>1 DEF RateInv, RateOf
  <2>7. Len(work') = Len(work) + 1 BY <1>1, <2>1, <2>3, AppendIsSeq
  <2>8. /\ work'[L + 1].nth = Len(published) + 1 /\ work'[L + 1].seq = barrierSeq
        /\ published'[Len(published) + 1].seq = barrierSeq
        /\ published'[Len(published) + 1].rate = control'[barrierSeq].rate
    BY <1>0, <2>1, <2>4, <2>5, <2>6
  <2> QED BY <1>0, <2>4, <2>7, <2>8, Zenon DEF RateOf
<1>4. ASSUME PushBarrier, work' # work PROVE Len(work') = L + 1 /\ Good(L + 1)'
  <2> DEFINE desc == [slot |-> CONTROL_BARRIER_SLOT, seq |-> barrierSeq, nth |-> Len(published)]
  <2>1. work' = Append(work, desc) BY <1>4 DEF PushBarrier
  <2>2. desc \in Descriptors /\ IsBarrier(desc)
    BY <1>1, SMT DEF TypeOK, CallbackTypes, HistoryTypes, Descriptors, IsBarrier
  <2> HIDE DEF desc
  <2>3. Len(work') = L + 1 /\ work'[L + 1] = desc BY <1>0, <1>1, <2>1, <2>2, AppendIsSeq
  <2> QED BY <2>2, <2>3, Zenon DEF IsBarrier
<1>5. \A i \in 1 .. Len(work') : Good(i)'
  <2>1. Len(work') = L \/ (Len(work') = L + 1 /\ Good(L + 1)')
    BY <1>0, <1>3, <1>4, Frames
  <2>2. \A i \in 1 .. L : Good(i)' BY <1>0, <1>2
  <2> HIDE DEF Good
  <2>3. 1 .. (L + 1) = (1 .. L) \union {L + 1} BY <1>0, SMT
  <2> QED BY <2>1, <2>2, <2>3
<1> QED BY <1>5, Zenon DEF AudioLog

LEMMA PositionStep ==
  ASSUME TypeOK, TypeOK', ControlLog, ControlLog', PositionInv, [Next]_vars
  PROVE  PositionInv'
<1> USE DEF freeVars, workVars, ctlVars, aliveVars, senderVars, metaVars, rtVars, workerVars,
        guardVars, countVars, logVars
<1>1. /\ work \in Seq(Descriptors) /\ workRead \in 0 .. Len(work)
      /\ rtPc = "stopped" <=> guardPc # "running"
  BY DEF TypeOK, RingTypes, GuardTypes
<1>2. Len(work) \in Nat /\ \A i \in 1 .. Len(work) : work'[i] = work[i]
  BY <1>1, LogsGrow, SMT
<1>3. wPc' \in {"barrier", "write", "release"} => workRead' > 0 /\ wDesc' = work'[workRead']
  <2> SUFFICES ASSUME wPc' \in {"barrier", "write", "release"}
               PROVE  workRead' > 0 /\ wDesc' = work'[workRead']
    OBVIOUS
  <2>1. CASE PopWork
    <3>1. workRead' = workRead + 1 /\ wDesc' = work[workRead + 1] /\ ~WorkEmpty /\ work' = work
      BY <2>1 DEF PopWork, Popped
    <3> QED BY <1>1, <3>1, SMT
  <2>2. CASE ~PopWork
    <3>1. wPc \in {"barrier", "write", "release"} /\ ~Release
      <4>1. CASE Worker
        BY <4>1, <2>2 DEF Worker, HandleControlBarrier, WriteBlock, Release, PeekControl,
           CheckTerminal, FinalizeCapture, RaiseFailure, ExitFailed, Fail, AfterStreamStop
      <4>2. CASE ~Worker BY <4>2, Frames DEF Worker
      <4> QED BY <4>1, <4>2
    <3>2. UNCHANGED <<workRead, wDesc>> BY <2>2, <3>1, Frames
    <3>3. workRead > 0 /\ wDesc = work[workRead] BY <3>1 DEF PositionInv
    <3>4. workRead \in 1 .. Len(work) BY <1>1, <3>3, SMT
    <3> QED BY <1>2, <3>2, <3>3, <3>4
  <2> QED BY <2>1, <2>2
<1>4. wPc' = "finalize" => WorkEmpty' /\ guardPc' # "running"
  <2> SUFFICES ASSUME wPc' = "finalize" PROVE WorkEmpty' /\ guardPc' # "running"
    OBVIOUS
  <2>1. WorkEmpty /\ guardPc # "running"
    <3>1. CASE PopWork
      BY <3>1 DEF PopWork, ControlLog
    <3>2. CASE CheckTerminal
      BY <3>2 DEF CheckTerminal, FullyDrained, Abandoned, ControlLog
    <3>3. CASE ~PopWork /\ ~CheckTerminal
      <4>1. wPc = "finalize"
        <5>1. CASE Worker
          BY <5>1, <3>3 DEF Worker, HandleControlBarrier, WriteBlock, Release, PeekControl,
             FinalizeCapture, RaiseFailure, ExitFailed, Fail, AfterStreamStop
        <5>2. CASE ~Worker BY <5>2, Frames
        <5> QED BY <5>1, <5>2
      <4> QED BY <4>1 DEF PositionInv
    <3> QED BY <3>1, <3>2, <3>3
  <2>2. ~PushBarrier /\ ~Publish BY <2>1, <1>1 DEF PushBarrier, Publish
  <2>3. UNCHANGED work BY <2>2, Frames
  <2>4. UNCHANGED workRead BY <2>1, Frames, Zenon DEF PopWork
  <2>5. guardPc' # "running"
    <3>1. StopLoop \/ Teardown \/ UNCHANGED guardPc BY Frames
    <3> QED BY <2>1, <3>1
            DEF StopLoop, Teardown, BeginTeardown, PushStreamStop, DropControl, DropWork, Join
  <2> QED BY <2>1, <2>3, <2>4, <2>5 DEF WorkEmpty
<1> QED BY <1>3, <1>4, Zenon DEF PositionInv

LEMMA SlotsHoldStep ==
  ASSUME TypeOK, TypeOK', SlotOwnership, RingInv, AudioLog, PositionInv, SlotsHold, [Next]_vars
  PROVE  SlotsHold'
<1> USE DEF freeVars, workVars, ctlVars, aliveVars, senderVars, metaVars, rtVars, workerVars,
        guardVars, countVars, logVars
<1>1. /\ work \in Seq(Descriptors) /\ workRead \in 0 .. Len(work) /\ published \in Seq(Takes)
      /\ content \in [Slots -> Nat] /\ captured \in Nat
  BY DEF TypeOK, RingTypes, HistoryTypes
<1>2. /\ Len(work) \in Nat /\ workRead \in Nat
      /\ \A i \in 1 .. Len(work) : work'[i] = work[i]
  BY <1>1, LogsGrow, SMT
<1>0. PICK L \in Nat : L = Len(work) BY <1>2
(* The block an earlier descriptor stands for stays what it was.           *)
<1>3. ASSUME NEW i \in 1 .. Len(work), ~IsBarrier(work[i])
      PROVE  published'[work[i].nth] = published[work[i].nth]
  <2>1. work[i].nth \in 1 .. Len(published)
    BY <1>1, <1>3, DescriptorRange, SMT DEF AudioLog
  <2> QED BY <2>1, LogsGrow
(* No slot in flight is written to.                                        *)
<1>4. ASSUME NEW s \in Slots, FillPlanar => s # rtSlot
      PROVE  content'[s] = content[s]
  <2>1. CASE FillPlanar BY <2>1, <1>1, <1>4, SMT DEF FillPlanar
  <2>2. CASE ~FillPlanar BY <2>2, Frames
  <2> QED BY <2>1, <2>2
<1>5. ASSUME NEW i \in (workRead + 1) .. Len(work), ~IsBarrier(work[i])
      PROVE  content'[work[i].slot] = published'[work[i].nth].block
  <2>1. i \in 1 .. Len(work) BY <1>2, SMT
  <2>2. work[i].slot \in Slots
    BY <1>1, <1>5, <2>1, DescriptorRange DEF Descriptors, IsBarrier
  <2>3. work[i].slot # rtSlot BY <2>1, <1>5, Zenon DEF SlotOwnership, InWork
  <2>4. content'[work[i].slot] = content[work[i].slot] BY <1>4, <2>2, <2>3
  <2> QED BY <1>3, <1>5, <2>1, <2>4 DEF SlotsHold
<1>6. ASSUME wPc = "write"
      PROVE  content'[wDesc.slot] = published'[wDesc.nth].block
  <2>1. workRead \in 1 .. Len(work) /\ wDesc = work[workRead]
    BY <1>1, <1>6, SMT DEF PositionInv
  <2>2. wDesc.slot \in Slots BY <1>6 DEF TypeOK, WorkerTypes
  <2>3. ~IsBarrier(work[workRead])
    BY CapacityAssumption, <2>1, <2>2, SMT DEF IsBarrier, Slots
  <2>4. FillPlanar => wDesc.slot # rtSlot
    BY DEF FillPlanar, SlotOwnership, TypeOK, CallbackTypes
  <2>5. content'[wDesc.slot] = content[wDesc.slot] BY <1>4, <2>2, <2>4
  <2> QED BY <1>3, <1>6, <2>1, <2>3, <2>5 DEF SlotsHold
<1>7. rtPc' = "publish" => content'[rtSlot'] = captured'
  <2>1. CASE FillPlanar
    <3>1. rtSlot \in Slots BY <2>1 DEF FillPlanar, TypeOK, CallbackTypes
    <3> QED BY <2>1, <3>1, <1>1, SMT DEF FillPlanar
  <2>2. CASE ~FillPlanar
    <3>1. rtPc' = "publish" => rtPc = "publish" /\ ~RecordAudio /\ ~Publish
      <4>1. RealTime \/ StopLoop \/ UNCHANGED rtPc BY Frames
      <4> QED BY <4>1, <2>2 DEF RealTime, StartCallback, SkipMetadata, PushMetadata, PushBarrier,
              SkipAudio, RecordAudio, Publish, Reconnect, StopLoop
    <3>2. rtPc' = "publish" => UNCHANGED <<rtSlot, captured, content>>
      BY <2>2, <3>1, Frames
    <3> QED BY <3>1, <3>2 DEF SlotsHold
  <2> QED BY <2>1, <2>2
(* A block that is published, and one that is popped.                      *)
<1>8. ASSUME Publish, work' # work
      PROVE  Len(work') = L + 1 /\ content'[work'[L + 1].slot] = published'[work'[L + 1].nth].block
  <2> DEFINE desc == [slot |-> rtSlot, seq |-> barrierSeq, nth |-> Len(published) + 1]
             take == [block |-> captured, seq |-> barrierSeq, rate |-> hostRate]
  <2>1. /\ work' = Append(work, desc) /\ published' = Append(published, take)
        /\ rtPc = "publish" /\ UNCHANGED content
    BY <1>8 DEF Publish
  <2>2. desc \in Descriptors /\ take \in Takes
    BY <2>1, RateAssumption, SMT DEF TypeOK, CallbackTypes, HistoryTypes, Descriptors, Takes
  <2>3. desc.slot = rtSlot /\ desc.nth = Len(published) + 1 /\ take.block = captured OBVIOUS
  <2> HIDE DEF desc, take
  <2>4. Len(work') = L + 1 /\ work'[L + 1] = desc /\ published'[Len(published) + 1] = take
    BY <1>0, <1>1, <2>1, <2>2, AppendIsSeq
  <2> QED BY <2>1, <2>3, <2>4 DEF SlotsHold
<1>9. wPc' = "write" => content'[wDesc'.slot] = published'[wDesc'.nth].block
  <2>1. CASE PopWork
    <3> SUFFICES ASSUME wPc' = "write" PROVE content'[wDesc'.slot] = published'[wDesc'.nth].block
      OBVIOUS
    <3>1. ~WorkEmpty /\ wDesc' = work[workRead + 1] /\ ~IsBarrier(work[workRead + 1])
      BY <2>1 DEF PopWork
    <3>2. workRead + 1 \in (workRead + 1) .. Len(work)
      BY <1>1, <3>1, SMT DEF WorkEmpty
    <3> QED BY <3>1, <3>2, <1>5
  <2>2. CASE ~PopWork
    <3>1. wPc' = "write" => wPc = "write"
      <4>1. CASE Worker
        BY <4>1, <2>2 DEF Worker, HandleControlBarrier, WriteBlock, Release, PeekControl,
           CheckTerminal, FinalizeCapture, RaiseFailure, ExitFailed, Fail, AfterStreamStop
      <4>2. CASE ~Worker BY <4>2, Frames
      <4> QED BY <4>1, <4>2
    <3>2. wPc' = "write" => UNCHANGED wDesc BY <2>2, <3>1, Frames, Zenon DEF Release
    <3> QED BY <1>6, <3>1, <3>2
  <2> QED BY <2>1, <2>2
<1>10. \A i \in (workRead' + 1) .. Len(work') : ~IsBarrier(work[i])' =>
          content'[work'[i].slot] = published'[work'[i].nth].block
  <2> SUFFICES ASSUME NEW i \in (workRead' + 1) .. Len(work'), ~(work'[i].slot = CONTROL_BARRIER_SLOT)
               PROVE  content'[work'[i].slot] = published'[work'[i].nth].block
    BY DEF IsBarrier
  <2>0. workRead' \in {workRead, workRead + 1}
    BY Frames, Zenon DEF PopWork, Popped
  <2>1. workRead' \in Nat /\ workRead' >= workRead /\ Len(work') \in Nat
    BY <2>0, <1>2, SMT DEF TypeOK, RingTypes
  <2>4. i \in Nat /\ i > workRead' /\ i <= Len(work')
    <3>1. \A a, b \in Nat : \A k \in (a + 1) .. b : k \in Nat /\ k > a /\ k <= b BY SMT
    <3> QED BY <2>1, <3>1
  <2>2. CASE i \in 1 .. L
    <3>0. i > workRead /\ i <= L BY <2>1, <2>2, <2>4, <1>2, SMT
    <3>1. i \in (workRead + 1) .. Len(work) BY <3>0, <2>4, <1>0, <1>2, SMT
    <3>2. work'[i] = work[i] BY <2>2, <1>0, <1>2
    <3>3. ~IsBarrier(work[i]) BY <3>2 DEF IsBarrier
    <3> QED BY <3>1, <3>2, <3>3, <1>5
  <2>3. CASE i \notin 1 .. L
    <3>1. i \in Nat /\ i > L /\ i <= Len(work') /\ Len(work') \in Nat
      BY <2>1, <2>3, <2>4, SMT
    <3>2. work' # work BY <3>1, <1>0, SMT
    <3>3. CASE Publish
      <4>1. i = L + 1 BY <3>1, <3>2, <3>3, <1>8, SMT
      <4> QED BY <4>1, <3>2, <3>3, <1>8
    <3>4. CASE PushBarrier
      <4> DEFINE desc == [slot |-> CONTROL_BARRIER_SLOT, seq |-> barrierSeq, nth |-> Len(published)]
      <4>1. work' = Append(work, desc) BY <3>2, <3>4 DEF PushBarrier
      <4>2. desc \in Descriptors /\ desc.slot = CONTROL_BARRIER_SLOT
        BY SMT DEF TypeOK, CallbackTypes, HistoryTypes, Descriptors
      <4> HIDE DEF desc
      <4>3. Len(work') = L + 1 /\ work'[L + 1] = desc BY <1>0, <1>1, <4>1, <4>2, AppendIsSeq
      <4>4. i = L + 1 BY <3>1, <4>3, SMT
      <4> QED BY <4>2, <4>3, <4>4
    <3> QED BY <3>2, <3>3, <3>4, Frames
  <2> QED BY <2>2, <2>3
<1> QED BY <1>7, <1>9, <1>10, Zenon DEF SlotsHold

(* A barrier in the worker's hand is that of the metadata at the head.     *)
LEMMA BarrierFound ==
  ASSUME TypeOK, RingInv, ControlLog, BarrierLog, PositionInv, WorkerInv,
         wPc = "barrier", orphaned = {}
  PROVE  /\ ~draining /\ wDesc.seq = Barriers(workRead) /\ Barriers(workRead) = controlRead + 1
         /\ controlRead + 1 \in 1 .. nextSeq - 1 /\ controlRead < Len(control)
         /\ control[controlRead + 1].kind = "meta" /\ control[controlRead + 1].seq = wDesc.seq
<1>1. /\ nextSeq \in Nat \ {0} /\ work \in Seq(Descriptors) /\ workRead \in 0 .. Len(work)
      /\ controlRead \in Nat /\ Len(control) \in Nat /\ draining \in BOOLEAN
  BY SMT DEF TypeOK, CallbackTypes, RingTypes, WorkerTypes
<1>2. workRead \in 1 .. Len(work) /\ wDesc = work[workRead]
  BY <1>1, SMT DEF PositionInv
<1>3. /\ wDesc.seq = Barriers(workRead) /\ wDesc.seq \in Nat /\ wDesc.seq <= nextSeq - 1
      /\ wDesc.seq > 0
  BY <1>2, DescriptorRange DEF BarrierLog
<1>4. Handling = 1 BY DEF Handling
<1>5. controlRead = wDesc.seq - 1 + (IF draining THEN 1 ELSE 0)
  BY <1>3, <1>4, Zenon DEF WorkerInv, AtWork
<1>6. ~draining
  <2> SUFFICES ASSUME draining PROVE FALSE
    OBVIOUS
  <2>1. controlRead = nextSeq BY DEF ControlLog
  <2> QED BY <2>1, <1>1, <1>3, <1>5, SMT
<1>7. controlRead + 1 = wDesc.seq BY <1>1, <1>3, <1>5, <1>6, SMT
<1>8. controlRead + 1 \in 1 .. nextSeq - 1 BY <1>1, <1>3, <1>7, SMT
<1>9. controlRead < Len(control) BY <1>1, <1>8, SMT DEF ControlLog
<1>10. control[controlRead + 1].kind = "meta" /\ control[controlRead + 1].seq = wDesc.seq
  BY <1>7, <1>8 DEF ControlLog
<1> QED BY <1>3, <1>6, <1>7, <1>8, <1>9, <1>10

(* so that handle_control_barrier discards nothing and takes that one.     *)
LEMMA BarrierMatches ==
  ASSUME TypeOK, RingInv, ControlLog, BarrierLog, PositionInv, WorkerInv,
         wPc = "barrier", orphaned = {},
         NEW p \in controlRead .. Len(control), PastSuperseded(p, wDesc.seq)
  PROVE  p = controlRead /\ Matches(control[p + 1], wDesc.seq) /\ p < Len(control)
<1>1. controlRead \in Nat /\ Len(control) \in Nat BY SMT DEF TypeOK, RingTypes
<1>2. Matches(control[controlRead + 1], wDesc.seq) BY BarrierFound DEF Matches
<1>3. p = controlRead
  <2> SUFFICES ASSUME p # controlRead PROVE FALSE
    OBVIOUS
  <2>1. controlRead + 1 \in (controlRead + 1) .. p BY <1>1, SMT
  <2>2. Superseded(control[controlRead + 1], wDesc.seq) BY <2>1 DEF PastSuperseded
  <2> QED BY <2>2, <1>2 DEF Superseded
<1> QED BY <1>2, <1>3, BarrierFound

(* The values and the lengths that the arithmetic of the proofs needs.     *)
LEMMA Lengths ==
  ASSUME TypeOK
  PROVE  /\ nextSeq \in Nat \ {0} /\ work \in Seq(Descriptors) /\ workRead \in 0 .. Len(work)
         /\ workRead \in Nat /\ Len(work) \in Nat
         /\ controlRead \in Nat /\ Len(control) \in Nat /\ draining \in BOOLEAN
         /\ recorded \in Seq(Takes) /\ Len(recorded) \in Nat
         /\ published \in Seq(Takes) /\ Len(published) \in Nat
<1>1. /\ work \in Seq(Descriptors) /\ control \in Seq(Messages)
      /\ recorded \in Seq(Takes) /\ published \in Seq(Takes)
      /\ workRead \in 0 .. Len(work) /\ controlRead \in 0 .. Len(control)
      /\ draining \in BOOLEAN /\ nextSeq \in Nat \ {0}
  BY DEF TypeOK, CallbackTypes, RingTypes, WorkerTypes, HistoryTypes
<1>2. /\ Len(work) \in Nat /\ Len(control) \in Nat
      /\ Len(recorded) \in Nat /\ Len(published) \in Nat
  BY <1>1, SMT
<1>3. workRead \in Nat /\ controlRead \in Nat BY <1>1, <1>2, SMT
<1> QED BY <1>1, <1>2, <1>3

(* What the worker has taken, opened and written keeps step with what it   *)
(* has read, unless it discards a metadata whose barrier is in the ring.   *)
LEMMA WorkerInvStep ==
  ASSUME RingsSized, TypeOK, TypeOK', RingInv, ControlLog, BarrierLog, PositionInv, WorkerInv,
         [Next]_vars
  PROVE  WorkerInv'
<1> SUFFICES ASSUME orphaned' = {}, AtWork'
             PROVE  /\ controlRead' = Barriers(workRead)' - Handling' + (IF draining' THEN 1 ELSE 0)
                    /\ writer' = OpenWriter(Barriers(workRead) - Handling)'
                    /\ Len(recorded') = Audio(workRead)' - (IF wPc' = "write" THEN 1 ELSE 0)
  BY Zenon DEF WorkerInv
<1> USE DEF freeVars, workVars, ctlVars, aliveVars, senderVars, metaVars, rtVars, workerVars,
        guardVars, countVars, logVars
<1>1. /\ nextSeq \in Nat \ {0} /\ work \in Seq(Descriptors) /\ workRead \in 0 .. Len(work)
      /\ workRead \in Nat /\ Len(work) \in Nat
      /\ controlRead \in Nat /\ Len(control) \in Nat /\ draining \in BOOLEAN
      /\ recorded \in Seq(Takes) /\ Len(recorded) \in Nat
  BY Lengths
<1>2. AtWork
  <2>1. CASE Worker
    BY <2>1 DEF AtWork, Worker, PopWork, HandleControlBarrier, WriteBlock, Release, PeekControl,
       CheckTerminal, FinalizeCapture, RaiseFailure, ExitFailed, Fail
  <2>2. CASE ~Worker BY <2>2, Frames DEF AtWork
  <2> QED BY <2>1, <2>2
<1>3. orphaned = {}
  <2>1. PeekControl \/ FinalizeCapture \/ UNCHANGED orphaned BY Frames
  <2> QED BY <2>1, Zenon DEF PeekControl, FinalizeCapture
<1> DEFINE b == Barriers(workRead)
           a == Audio(workRead)
           k == b - Handling
<1>4. /\ controlRead = b - Handling + (IF draining THEN 1 ELSE 0)
      /\ writer = OpenWriter(k)
      /\ Len(recorded) = a - (IF wPc = "write" THEN 1 ELSE 0)
  BY <1>2, <1>3 DEF WorkerInv
<1>5. b \in Nat /\ a \in Nat /\ b <= nextSeq - 1
  <2>1. BarrierDue \in {0, 1} BY DEF BarrierDue
  <2> QED BY <2>1, RingNumbers, SMTT(60)
<1>6. Handling \in {0, 1} /\ (wPc # "barrier" => Handling = 0) /\ (wPc = "barrier" => Handling = 1)
  BY DEF Handling
<1>7. k \in Nat /\ k <= nextSeq - 1
  <2>1. wPc = "barrier" => b = controlRead + 1 BY <1>3, BarrierFound
  <2> HIDE DEF b
  <2> QED BY <2>1, <1>1, <1>5, <1>6, SMT
<1>8. \A i \in 0 .. Len(work) : Barriers(i)' = Barriers(i) /\ Audio(i)' = Audio(i)
  BY CountsStable
<1> HIDE DEF b, a, k
(* What the numbered metadata say does not change.                         *)
<1>9. ASSUME NEW n \in Nat, n <= nextSeq - 1 PROVE OpenWriter(n)' = OpenWriter(n)
  <2>1. n # 0 => n \in 1 .. nextSeq - 1 BY <1>1, <1>9, SMT
  <2> QED BY <2>1, RateOfStable, Zenon DEF OpenWriter
<1>10. ASSUME UNCHANGED workRead
       PROVE  Barriers(workRead)' = b /\ Audio(workRead)' = a
  BY <1>1, <1>8, <1>10, Zenon DEF b, a, Barriers, Audio
<1>11. ASSUME NEW n \in Nat, n <= nextSeq - 1, n = Barriers(workRead)' - Handling'
       PROVE  OpenWriter(Barriers(workRead) - Handling)' = OpenWriter(n)
  BY <1>9, <1>11, Zenon DEF OpenWriter
<1> DEFINE Goal == /\ controlRead' = Barriers(workRead)' - Handling' + (IF draining' THEN 1 ELSE 0)
                   /\ writer' = OpenWriter(Barriers(workRead) - Handling)'
                   /\ Len(recorded') = Audio(workRead)' - (IF wPc' = "write" THEN 1 ELSE 0)
<1>12. CASE PopWork /\ ~WorkEmpty
  <2>1. /\ wPc = "pop" /\ wPc' = IF IsBarrier(work[workRead + 1]) THEN "barrier" ELSE "write"
        /\ workRead' = workRead + 1 /\ UNCHANGED <<controlRead, draining, writer, recorded, work>>
    BY <1>12 DEF PopWork, Popped
  <2>2. workRead + 1 \in 1 .. Len(work) /\ workRead + 1 - 1 = workRead
    BY <1>1, <1>12, SMT DEF WorkEmpty
  <2>3. /\ Barriers(workRead)' = Barriers(workRead + 1) /\ Audio(workRead)' = Audio(workRead + 1)
    BY <2>1, Zenon DEF Barriers, Audio
  <2>4. /\ IsBarrier(work[workRead + 1]) => Audio(workRead + 1) = a
        /\ ~IsBarrier(work[workRead + 1]) => Barriers(workRead + 1) = b
        /\ Barriers(workRead + 1) + Audio(workRead + 1) = workRead + 1
        /\ b + a = workRead
        /\ Barriers(workRead + 1) \in Nat /\ Audio(workRead + 1) \in Nat
    <3> DEFINE j == workRead + 1
    <3>1. j \in 1 .. Len(work) /\ j \in 0 .. Len(work) /\ j - 1 = workRead BY <2>2, <1>1, SMT
    <3>2. WorkCounts BY DEF RingInv, WorkInv
    <3> HIDE DEF j
    <3>3. /\ IsBarrier(work[j]) => Audio(j) = Audio(j - 1)
          /\ ~IsBarrier(work[j]) => Barriers(j) = Barriers(j - 1)
          /\ Barriers(j) + Audio(j) = j
          /\ Barriers(workRead) + Audio(workRead) = workRead
          /\ Barriers(j) \in Nat /\ Audio(j) \in Nat
      BY <3>1, <3>2, <1>1, Zenon DEF WorkCounts
    <3> QED BY <3>1, <3>3 DEF b, a, j
  <2>5. CASE IsBarrier(work[workRead + 1])
    <3>1. wPc' = "barrier" /\ Handling' = 1 /\ Handling = 0 BY <2>1, <2>5 DEF Handling
    <3>2. Barriers(workRead + 1) = b + 1 /\ Audio(workRead + 1) = a
      BY <2>4, <2>5, <1>1, <1>5, SMT
    <3>3. Barriers(workRead)' - Handling' = b /\ k = b
      BY <2>3, <3>1, <3>2, <1>5, SMT DEF k
    <3>4. OpenWriter(Barriers(workRead) - Handling)' = OpenWriter(b) BY <3>3, <1>5, <1>11
    <3> QED BY <2>1, <2>3, <3>1, <3>2, <3>3, <3>4, <1>4, <1>5, SMT
  <2>6. CASE ~IsBarrier(work[workRead + 1])
    <3>1. wPc' = "write" /\ Handling' = 0 /\ Handling = 0 BY <2>1, <2>6 DEF Handling
    <3>2. Barriers(workRead + 1) = b /\ Audio(workRead + 1) = a + 1
      BY <2>4, <2>6, <1>1, <1>5, SMT
    <3>3. Barriers(workRead)' - Handling' = b /\ k = b
      BY <2>3, <3>1, <3>2, <1>5, SMT DEF k
    <3>4. OpenWriter(Barriers(workRead) - Handling)' = OpenWriter(b) BY <3>3, <1>5, <1>11
    <3> QED BY <2>1, <2>3, <3>1, <3>2, <3>3, <3>4, <1>4, <1>5, SMT
  <2> QED BY <2>5, <2>6
<1>13. CASE HandleControlBarrier
  <2>1. PICK p \in controlRead .. Len(control) :
          /\ PastSuperseded(p, wDesc.seq)
          /\ \/ /\ p < Len(control) /\ Matches(control[p + 1], wDesc.seq)
                /\ controlRead' = Popped(p)
                /\ \/ /\ writer' = [seq |-> control[p + 1].seq, rate |-> control[p + 1].rate]
                      /\ wPc' = "release"
                   \/ Fail(1)
             \/ ~(p < Len(control) /\ Matches(control[p + 1], wDesc.seq))
    BY <1>13, Zenon DEF HandleControlBarrier
  <2>2. /\ wPc = "barrier" /\ UNCHANGED <<work, workRead, control, recorded, draining>>
    BY <1>13 DEF HandleControlBarrier
  <2>3. p = controlRead /\ Matches(control[p + 1], wDesc.seq) /\ p < Len(control)
    BY <2>1, <2>2, <1>3, BarrierMatches
  <2>4. /\ controlRead' = controlRead + 1 /\ wPc' = "release"
        /\ writer' = [seq |-> control[controlRead + 1].seq, rate |-> control[controlRead + 1].rate]
    BY <2>1, <2>3 DEF Popped, Fail, AtWork
  <2>5. /\ ~draining /\ b = controlRead + 1 /\ control[controlRead + 1].seq = b
        /\ b \in 1 .. nextSeq - 1
    BY <2>2, <1>3, BarrierFound DEF b
  <2>6. writer' = OpenWriter(b)
    <3>1. b # 0 BY <2>5, <1>1, SMT
    <3>2. control[controlRead + 1].rate = control[b].rate BY <2>5
    <3> QED BY <2>4, <2>5, <3>1, <3>2 DEF OpenWriter, RateOf
  <2>7. Handling' = 0 /\ Barriers(workRead)' = b /\ Audio(workRead)' = a
    BY <2>2, <2>4, <1>10 DEF Handling
  <2>8. OpenWriter(Barriers(workRead) - Handling)' = OpenWriter(b)
    <3>1. Barriers(workRead)' - Handling' = b BY <2>7, <1>5, SMT
    <3> QED BY <3>1, <1>5, <1>11
  <2> QED BY <2>2, <2>4, <2>5, <2>6, <2>7, <2>8, <1>1, <1>4, <1>5, SMT
<1>14. CASE WriteBlock
  <2>1. /\ wPc = "write" /\ wPc' = "release"
        /\ UNCHANGED <<work, workRead, control, controlRead, draining, wDesc>>
    BY <1>14 DEF WriteBlock, Fail, AtWork
  <2>2. k > 0
    <3>1. workRead \in 1 .. Len(work) BY <2>1, <1>1, SMT DEF PositionInv
    <3>2. b > 0 BY <3>1, DescriptorRange DEF b, BarrierLog
    <3> QED BY <2>1, <3>2, <1>5, <1>6, SMT DEF k
  <2>3. writer # NoWriter
    <3>1. writer = [seq |-> k, rate |-> RateOf(k)] BY <2>2, <1>7, <1>4, SMT DEF OpenWriter
    <3>2. writer.seq = k BY <3>1
    <3>3. NoWriter.seq = 0 BY DEF NoWriter
    <3> QED BY <2>2, <3>2, <3>3, <1>7, SMT
  <2>4. /\ writer' = writer
        /\ recorded' = Append(recorded, [block |-> content[wDesc.slot], seq |-> writer.seq, rate |-> writer.rate])
    BY <1>14, <2>1, <2>3 DEF WriteBlock, Fail
  <2>5. Len(recorded') = Len(recorded) + 1
    <3>1. content[wDesc.slot] \in Nat /\ writer.seq \in Nat /\ writer.rate \in Nat
      BY <2>1, SMT DEF TypeOK, RingTypes, WorkerTypes, Headers
    <3>2. [block |-> content[wDesc.slot], seq |-> writer.seq, rate |-> writer.rate] \in Takes
      BY <3>1 DEF Takes
    <3> QED BY <2>4, <3>2, <1>1, AppendIsSeq
  <2>6. Handling' = 0 /\ Handling = 0 /\ Barriers(workRead)' = b /\ Audio(workRead)' = a
    BY <2>1, <1>10 DEF Handling
  <2>7. OpenWriter(Barriers(workRead) - Handling)' = OpenWriter(b) /\ k = b
    <3>1. Barriers(workRead)' - Handling' = b /\ k = b BY <2>6, <1>5, SMT DEF k
    <3> QED BY <3>1, <1>5, <1>11
  <2> QED BY <2>1, <2>4, <2>5, <2>6, <2>7, <1>1, <1>4, <1>5, SMT
<1>15. CASE PeekControl
  <2>1. /\ wPc = "peek" /\ wPc' \notin {"barrier", "write"}
        /\ UNCHANGED <<work, workRead, control, writer, recorded>>
    BY <1>15 DEF PeekControl, AfterStreamStop
  <2>2. Handling' = 0 /\ Handling = 0 /\ Barriers(workRead)' = b /\ Audio(workRead)' = a
    BY <2>1, <1>10 DEF Handling
  <2>3. OpenWriter(Barriers(workRead) - Handling)' = OpenWriter(b) /\ k = b
    <3>1. Barriers(workRead)' - Handling' = b /\ k = b BY <2>2, <1>5, SMT DEF k
    <3> QED BY <3>1, <1>5, <1>11
  <2>4. Len(recorded') = Audio(workRead)' - (IF wPc' = "write" THEN 1 ELSE 0)
    BY <2>1, <2>2, <1>4
  <2>5. controlRead' = b + (IF draining' THEN 1 ELSE 0)
    <3>1. controlRead = b + (IF draining THEN 1 ELSE 0) BY <1>4, <1>5, <2>2, SMT
    <3>2. CASE StopAtHead
      <4>1. controlRead' = controlRead + 1 /\ draining'
        BY <1>15, <3>2, <2>1 DEF PeekControl, Popped, StopAtHead, MetadataAtHead, AfterStreamStop
      <4>2. ~draining
        <5> SUFFICES ASSUME draining PROVE FALSE
          OBVIOUS
        <5>1. controlRead = Len(control) BY DEF ControlLog
        <5> QED BY <5>1, <3>2 DEF StopAtHead, ControlEmpty
      <4> QED BY <3>1, <4>1, <4>2, <1>5, SMT
    <3>3. CASE MetadataAtHead /\ Abandoned
      <4> DEFINE h == controlRead + 1
      <4>1. orphaned' = orphaned \union ({control[h].seq} \intersect ConfirmedSeqs)
        BY <1>15, <3>3, <2>1 DEF PeekControl, StopAtHead, MetadataAtHead
      <4>2. ~ControlEmpty /\ control[h].kind = "meta" BY <3>3 DEF MetadataAtHead
      <4>3. h \in 1 .. Len(control) /\ controlRead < Len(control)
        BY <4>2, <1>1, SMT DEF ControlEmpty, TypeOK, RingTypes
      <4>4. guardPc # "running" BY <3>3 DEF Abandoned, ControlLog
      <4>5. h \in 1 .. nextSeq - 1
        <5>1. h # nextSeq
          BY <4>2, <4>3, <1>1, SMT DEF ControlLog, StreamStop
        <5> QED BY <4>3, <5>1, <1>1, SMT DEF ControlLog
      <4>6. control[h].seq = h BY <4>5 DEF ControlLog
      <4>7. ~draining
        <5> SUFFICES ASSUME draining PROVE FALSE
          OBVIOUS
        <5>1. controlRead = Len(control) BY DEF ControlLog
        <5> QED BY <5>1, <4>3, <1>1, SMT
      <4>8. h = b + 1 BY <3>1, <4>7, <1>5, SMT
      <4>9. BarrierDue = 0 BY <4>4 DEF BarrierDue, TypeOK, GuardTypes
      <4>10. PICK i \in 1 .. Len(work) : IsBarrier(work[i]) /\ work[i].seq = h
        <5>1. h \in 1 .. nextSeq - 1 - BarrierDue BY <4>5, <4>9, <1>1, SMT
        <5> QED BY <5>1 DEF BarrierLog
      <4>11. i \in (workRead + 1) .. Len(work)
        <5> SUFFICES ASSUME i <= workRead PROVE FALSE
          BY <1>1, SMT
        <5>1. i \in 0 .. Len(work) BY SMT
        <5>2. Barriers(i) <= b
          BY <5>1, <1>1, Zenon DEF RingInv, WorkInv, WorkCounts, b
        <5>3. Barriers(i) = h BY <4>10, DescriptorRange
        <5> QED BY <5>2, <5>3, <4>8, <1>5, SMT
      <4>12. h \in ConfirmedSeqs BY <4>10, <4>11, Zenon DEF ConfirmedSeqs
      <4>13. h \in orphaned' BY <4>1, <4>6, <4>12
      <4> QED BY <4>13
    <3>4. CASE ~StopAtHead /\ ~(MetadataAtHead /\ Abandoned)
      <4>1. UNCHANGED <<controlRead, draining>> BY <1>15, <3>4 DEF PeekControl
      <4> QED BY <3>1, <4>1
    <3> QED BY <3>2, <3>3, <3>4
  <2>6. controlRead' = Barriers(workRead)' - Handling' + (IF draining' THEN 1 ELSE 0)
    BY <2>2, <2>5, <1>5, SMT
  <2> QED BY <2>1, <2>2, <2>3, <2>4, <2>6, <1>4
<1>16. CASE /\ ~HandleControlBarrier /\ ~WriteBlock /\ ~PeekControl
            /\ ~(PopWork /\ ~WorkEmpty)
  <2>1. UNCHANGED <<workRead, controlRead, writer, recorded, draining>>
    <3>1. ~FinalizeCapture BY DEF FinalizeCapture, AtWork, Fail
    <3>2. UNCHANGED <<controlRead, writer, recorded, draining>> BY <3>1, <1>16, Frames
    <3>3. UNCHANGED workRead BY <1>16, Frames, Zenon DEF PopWork
    <3> QED BY <3>2, <3>3
  <2>2. (wPc' = "barrier" <=> wPc = "barrier") /\ (wPc' = "write" <=> wPc = "write")
    <3>1. CASE Worker
      BY <3>1, <1>16 DEF Worker, PopWork, Release, CheckTerminal, FinalizeCapture,
         RaiseFailure, ExitFailed, Fail, AtWork
    <3>2. CASE ~Worker BY <3>2, Frames DEF Worker
    <3> QED BY <3>1, <3>2
  <2>3. Handling' = Handling /\ Barriers(workRead)' = b /\ Audio(workRead)' = a
    BY <2>1, <2>2, <1>10 DEF Handling
  <2>4. OpenWriter(Barriers(workRead) - Handling)' = OpenWriter(k)
    <3>1. Barriers(workRead)' - Handling' = k BY <2>3 DEF k
    <3> QED BY <3>1, <1>7, <1>11
  <2> QED BY <2>1, <2>2, <2>3, <2>4, <1>4
<1> QED BY <1>12, <1>13, <1>14, <1>15, <1>16

LEMMA WrittenInvStep ==
  ASSUME TypeOK, TypeOK', RingInv, BarrierLog, AudioLog, SlotsHold, PositionInv, WorkerInv,
         WrittenInv, [Next]_vars
  PROVE  WrittenInv'
<1> SUFFICES ASSUME orphaned' = {}
             PROVE  /\ Len(recorded') <= Audio(workRead)'
                    /\ \A k \in 1 .. Len(recorded') : recorded'[k] = published'[k]
  BY Zenon DEF WrittenInv
<1>1. /\ work \in Seq(Descriptors) /\ workRead \in 0 .. Len(work) /\ workRead \in Nat
      /\ Len(work) \in Nat /\ published \in Seq(Takes) /\ recorded \in Seq(Takes)
      /\ Len(recorded) \in Nat /\ Len(published) \in Nat /\ nextSeq \in Nat
  BY Lengths
<1>2. orphaned = {}
  <2>1. PeekControl \/ FinalizeCapture \/ UNCHANGED orphaned BY Frames
  <2> QED BY <2>1, Zenon DEF PeekControl, FinalizeCapture
<1> DEFINE a == Audio(workRead)
<1>3. /\ Len(recorded) <= a /\ \A k \in 1 .. Len(recorded) : recorded[k] = published[k]
      /\ a \in Nat /\ a <= Len(published)
  BY <1>2, RingNumbers DEF WrittenInv
<1>4. Audio(workRead)' >= a /\ Audio(workRead)' \in Nat
  <2>1. ASSUME UNCHANGED workRead PROVE Audio(workRead)' = a
    BY <1>1, <2>1, CountsStable, Zenon DEF Audio
  <2>2. ASSUME PopWork, ~WorkEmpty PROVE Audio(workRead)' >= a /\ Audio(workRead)' \in Nat
    <3> DEFINE j == workRead + 1
    <3>1. workRead' = j /\ work' = work BY <2>2 DEF PopWork, Popped, workVars
    <3>2. j \in 1 .. Len(work) /\ j \in 0 .. Len(work) /\ workRead <= j
      BY <1>1, <2>2, SMT DEF WorkEmpty
    <3> HIDE DEF j
    <3>3. Audio(j) >= a /\ Audio(j) \in Nat
      <4>1. Audio(workRead) <= Audio(j) /\ Audio(j) \in Nat
        BY <1>1, <3>2, Zenon DEF RingInv, WorkInv, WorkCounts
      <4> QED BY <4>1, <1>3, SMT
    <3>4. Audio(workRead)' = Audio(j) BY <3>1, Zenon DEF Audio
    <3> QED BY <3>3, <3>4
  <2>3. UNCHANGED workRead \/ (PopWork /\ ~WorkEmpty) BY Frames, Zenon DEF PopWork
  <2> QED BY <1>3, <2>1, <2>2, <2>3, SMT
<1> HIDE DEF a
<1>5. \A k \in 1 .. Len(published) : published'[k] = published[k] BY LogsGrow
<1>6. CASE UNCHANGED recorded
  <2>1. \A k \in 1 .. Len(recorded) : k \in 1 .. Len(published) BY <1>1, <1>3, SMT
  <2>2. \A k \in 1 .. Len(recorded') : recorded'[k] = published'[k]
    BY <1>3, <1>5, <1>6, <2>1
  <2>3. Len(recorded') <= Audio(workRead)' BY <1>1, <1>3, <1>4, <1>6, SMT
  <2> QED BY <2>2, <2>3
<1>7. CASE ~UNCHANGED recorded
  <2> DEFINE take == [block |-> content[wDesc.slot], seq |-> writer.seq, rate |-> writer.rate]
             n == Len(recorded) + 1
  <2>1. /\ wPc = "write" /\ writer # NoWriter /\ recorded' = Append(recorded, take)
        /\ UNCHANGED workVars
    BY <1>7, Frames, Zenon DEF WriteBlock
  <2>2. workRead \in 1 .. Len(work) /\ wDesc = work[workRead]
    BY <1>1, <2>1, SMT DEF PositionInv
  <2>3. ~IsBarrier(work[workRead])
    <3>1. wDesc.slot \in Slots BY <2>1 DEF TypeOK, WorkerTypes
    <3> QED BY CapacityAssumption, <2>2, <3>1, SMT DEF IsBarrier, Slots
  <2>4. /\ work[workRead].nth = a /\ work[workRead].seq = Barriers(workRead)
        /\ work[workRead].seq > 0
    BY <2>2, DescriptorRange DEF a, BarrierLog
  <2>5. n = a
    <3>1. Len(recorded) = a - 1 BY <1>2, <2>1, Zenon DEF WorkerInv, AtWork, a
    <3> QED BY <3>1, <1>1, <1>3, SMT
  <2>6. writer.seq = Barriers(workRead) /\ writer.rate = RateOf(Barriers(workRead))
    <3>1. writer = OpenWriter(Barriers(workRead) - Handling) /\ Handling = 0
      BY <1>2, <2>1, Zenon DEF WorkerInv, AtWork, Handling
    <3>2. Barriers(workRead) - Handling = Barriers(workRead) BY <3>1, RingNumbers, SMT
    <3>3. writer = [seq |-> Barriers(workRead), rate |-> RateOf(Barriers(workRead))]
      BY <2>1, <3>1, <3>2 DEF OpenWriter
    <3> QED BY <3>3
  <2>7. /\ content[wDesc.slot] = published[a].block /\ published[a].seq = writer.seq
        /\ published[a].rate = writer.rate
    BY <2>1, <2>2, <2>3, <2>4, <2>6 DEF SlotsHold, AudioLog
  <2>8. a \in 1 .. Len(published)
    <3>1. a > 0 BY <2>2, <2>3, <2>4 DEF AudioLog
    <3> QED BY <3>1, <1>1, <1>3, SMT
  <2>9. published[a] = take
    <3>1. published[a] \in Takes BY <2>8, <1>1, ElementInSet
    <3> QED BY <3>1, <2>7, SMT DEF Takes
  <2>10. take \in Takes BY <2>8, <2>9, <1>1, ElementInSet
  <2> HIDE DEF take
  <2>11. Len(recorded') = n /\ recorded'[n] = take /\ \A k \in 1 .. Len(recorded) : recorded'[k] = recorded[k]
    BY <2>1, <2>10, <1>1, AppendIsSeq
  <2>12. \A k \in 1 .. Len(recorded') : recorded'[k] = published'[k]
    <3> TAKE k \in 1 .. Len(recorded')
    <3>1. CASE k = n BY <3>1, <2>5, <2>8, <2>9, <2>11, <1>5
    <3>2. CASE k # n
      <4>1. k \in 1 .. Len(recorded) /\ k \in 1 .. Len(published)
        BY <3>2, <2>11, <1>1, <1>3, SMT
      <4> QED BY <4>1, <2>11, <1>3, <1>5
    <3> QED BY <3>1, <3>2
  <2>13. Len(recorded') <= Audio(workRead)' BY <2>5, <2>11, <1>3, <1>4, SMT
  <2> QED BY <2>12, <2>13
<1> QED BY <1>6, <1>7

LEMMA EndInvStep ==
  ASSUME RingsSized, TypeOK, TypeOK', RingInv, ControlLog, PositionInv, WorkerInv, EndInv, [Next]_vars
  PROVE  EndInv'
<1> USE DEF freeVars, workVars, ctlVars, aliveVars, senderVars, metaVars, rtVars, workerVars,
        guardVars, countVars, logVars
<1>1. /\ wResult' = wResult \/ FinalizeCapture \/ ExitFailed
      /\ wPc' = "exited" <=> wResult' # "none"
  <2>1. CASE Worker
    BY <2>1 DEF Worker, PopWork, HandleControlBarrier, WriteBlock, Release, PeekControl,
       CheckTerminal, FinalizeCapture, RaiseFailure, ExitFailed, Fail, AfterStreamStop, EndInv
  <2>2. CASE ~Worker
    BY <2>2, Frames DEF EndInv, Worker
  <2> QED BY <2>1, <2>2
<1>2. failedFlag' => ~AtWork' /\ wResult' # "ok"
  <2>1. CASE Worker
    BY <2>1 DEF Worker, PopWork, HandleControlBarrier, WriteBlock, Release, PeekControl,
       CheckTerminal, FinalizeCapture, RaiseFailure, ExitFailed, Fail, EndInv, AtWork
  <2>2. CASE ~Worker BY <2>2, Frames DEF EndInv, Worker, AtWork
  <2> QED BY <2>1, <2>2
<1>3. guardPc # "running" => guardPc' # "running" /\ rtPc = "stopped" /\ rtPc' = "stopped"
  <2>1. StopLoop \/ Teardown \/ UNCHANGED guardPc BY Frames
  <2> QED BY <2>1 DEF TypeOK, GuardTypes,
           StopLoop, Teardown, BeginTeardown, PushStreamStop, DropControl, DropWork, Join
<1>4. wResult' = "ok" => wResult = "ok" \/ FinalizeCapture BY <1>1 DEF ExitFailed
<1>5. FinalizeCapture => WorkEmpty /\ guardPc # "running" /\ AtWork /\ wPc = "finalize"
  BY DEF FinalizeCapture, PositionInv, AtWork
<1>6. wResult' = "ok" => guardPc # "running" /\ guardPc' # "running"
  BY <1>3, <1>4, <1>5 DEF EndInv
<1>7. guardPc # "running" => UNCHANGED <<published, captured, suppressed, overruns, rtSlot>>
  BY <1>3, Frames DEF RecordAudio, Publish
<1>8. wResult' = "ok" /\ orphaned' = {} => Len(recorded') = Len(published')
  <2> SUFFICES ASSUME wResult' = "ok", orphaned' = {} PROVE Len(recorded') = Len(published')
    OBVIOUS
  <2>1. orphaned = {}
    <3>1. PeekControl \/ FinalizeCapture \/ UNCHANGED orphaned BY Frames
    <3> QED BY <3>1, Zenon DEF PeekControl, FinalizeCapture
  <2>2. UNCHANGED published BY <1>6, <1>7
  <2>3. CASE wResult = "ok"
    <3>1. Len(recorded) = Len(published) /\ wPc = "exited" BY <2>1, <2>3 DEF EndInv
    <3>2. UNCHANGED recorded BY <3>1, Frames, Zenon DEF WriteBlock
    <3> QED BY <2>2, <3>1, <3>2
  <2>4. CASE FinalizeCapture
    <3>1. UNCHANGED recorded BY <2>4 DEF FinalizeCapture
    <3>2. Len(recorded) = Audio(workRead) - 0
      BY <1>5, <2>1, <2>4, Zenon DEF WorkerInv
    <3>3. workRead = Len(work) BY <1>5, <2>4 DEF WorkEmpty
    <3>4. Audio(workRead) = Len(published) BY <3>3 DEF RingInv, WorkInv
    <3> QED BY <2>2, <3>1, <3>2, <3>4, RingNumbers, SMT
  <2> QED BY <1>4, <2>3, <2>4
<1>9. captured' = Len(published') + overruns' + suppressed' + Filling'
  <2>1. captured \in Nat /\ overruns \in Nat /\ suppressed \in Nat /\ Len(published) \in Nat
    BY SMT DEF TypeOK, CallbackTypes, HistoryTypes
  <2>2. captured = Len(published) + overruns + suppressed + Filling BY DEF EndInv
  <2>3. CASE RecordAudio
    <3>1. /\ captured' = captured + 1 /\ UNCHANGED published /\ rtPc = "audio"
          /\ \/ overruns' = overruns + 1 /\ UNCHANGED <<suppressed, rtSlot>>
             \/ suppressed' = suppressed + 1 /\ UNCHANGED <<overruns, rtSlot>>
             \/ UNCHANGED <<suppressed, overruns>> /\ rtPc' = "fill"
      BY <2>3 DEF RecordAudio
    <3>2. rtSlot = NoSlot /\ (rtPc' = "fill" => rtSlot' # NoSlot)
      BY <3>1 DEF TypeOK, CallbackTypes
    <3>3. Filling = 0 BY <3>2 DEF Filling
    <3>4. CASE UNCHANGED rtSlot
      BY <2>1, <2>2, <3>1, <3>2, <3>3, <3>4, SMT DEF Filling
    <3>5. CASE UNCHANGED <<suppressed, overruns>> /\ rtPc' = "fill"
      BY <2>1, <2>2, <3>1, <3>2, <3>3, <3>5, SMT DEF Filling
    <3> QED BY <3>1, <3>4, <3>5
  <2>4. CASE Publish
    <3> DEFINE take == [block |-> captured, seq |-> barrierSeq, rate |-> hostRate]
    <3>1. /\ rtPc = "publish" /\ rtSlot' = NoSlot /\ captured' = captured /\ suppressed' = suppressed
          /\ \/ published' = Append(published, take) /\ overruns' = overruns
             \/ published' = published /\ overruns' = overruns + 1
      BY <2>4 DEF Publish
    <3>2. Filling = 1 /\ Filling' = 0 BY <3>1 DEF Filling, TypeOK, CallbackTypes
    <3>3. take \in Takes /\ published \in Seq(Takes)
      BY RateAssumption, SMT DEF TypeOK, CallbackTypes, HistoryTypes, Takes
    <3> HIDE DEF take
    <3>4. CASE published' = Append(published, take) /\ overruns' = overruns
      <4>1. Len(published') = Len(published) + 1 BY <3>3, <3>4, AppendIsSeq
      <4> QED BY <2>1, <2>2, <3>1, <3>2, <3>4, <4>1, SMT
    <3>5. CASE published' = published /\ overruns' = overruns + 1
      <4>1. Len(published') = Len(published) BY <3>5
      <4> QED BY <2>1, <2>2, <3>1, <3>2, <3>5, <4>1, SMT
    <3> QED BY <3>1, <3>4, <3>5
  <2>5. CASE ~RecordAudio /\ ~Publish
    BY <2>2, <2>5, Frames DEF Filling
  <2> QED BY <2>3, <2>4, <2>5
<1>10. suppressed' > 0 => failedFlag'
  <2>1. failedFlag => failedFlag' BY Frames, Zenon DEF RaiseFailure
  <2> QED BY <2>1, Frames, Zenon DEF RecordAudio, EndInv
<1>11. outcome' # "none" => guardPc' = "done"
  <2>1. CASE Join BY <2>1 DEF Join
  <2>2. CASE ~Join
    <3>1. guardPc = "done" => guardPc' = "done"
      <4>1. StopLoop \/ Teardown \/ UNCHANGED guardPc BY Frames
      <4> QED BY <4>1, <2>2 DEF StopLoop, Teardown, BeginTeardown, PushStreamStop, DropControl, DropWork
    <3> QED BY <2>2, <3>1, Frames DEF EndInv
  <2> QED BY <2>1, <2>2
<1>12. outcome' \in {"Success", "SuccessWithLoss"} => wResult' = "ok"
  <2>1. wResult = "ok" => wResult' = "ok"
    BY <1>1 DEF EndInv, FinalizeCapture, ExitFailed
  <2>2. CASE Join
    BY <2>1, <2>2 DEF Join, EndInv, TypeOK, WorkerTypes
  <2>3. CASE ~Join BY <2>1, <2>3, Frames DEF EndInv
  <2> QED BY <2>2, <2>3
<1>13. outcome' = "Success" => overruns' = 0
  <2>1. CASE Join
    <3>1. UNCHANGED overruns BY <2>1 DEF Join
    <3>2. outcome' = "Success" => ~CaptureLost
      BY <2>1 DEF Join, EndInv, TypeOK, WorkerTypes
    <3> QED BY <3>1, <3>2, SMT DEF CaptureLost, TypeOK, CallbackTypes
  <2>2. CASE ~Join
    <3>1. UNCHANGED outcome BY <2>2, Frames
    <3>2. outcome = "Success" => overruns = 0 /\ guardPc # "running" BY DEF EndInv
    <3> QED BY <3>1, <3>2, <1>7
  <2> QED BY <2>1, <2>2
<1> QED BY <1>1, <1>2, <1>6, <1>8, <1>9, <1>10, <1>11, <1>12, <1>13 DEF EndInv

LEMMA OrderStep ==
  ASSUME RingsSized, TypeOK, TypeOK', SlotOwnership, RingInv, RingInv', OrderInv, [Next]_vars
  PROVE  OrderInv'
<1> USE DEF OrderInv
<1>1. ControlLog' BY ControlLogStep
<1>2. BarrierLog' BY BarrierLogStep
<1>3. RateInv' BY RateInvStep
<1>4. AudioLog' BY AudioLogStep
<1>5. SlotsHold' BY SlotsHoldStep
<1>6. PositionInv' BY <1>1, PositionStep
<1>7. WorkerInv' BY WorkerInvStep
<1>8. WrittenInv' BY WrittenInvStep
<1>9. EndInv' BY EndInvStep
<1> QED BY <1>1, <1>2, <1>3, <1>4, <1>5, <1>6, <1>7, <1>8, <1>9

(* The whole inductive invariant.                                          *)
CaptureInv == TypeOK /\ SlotOwnership /\ RingInv /\ OrderInv

LEMMA CaptureInvariant ==
  ASSUME RingsSized
  PROVE  Spec => []CaptureInv
<1>1. Init => CaptureInv
  BY TypeInit, OwnershipInit, RingInit, OrderInit DEF CaptureInv
<1>2. CaptureInv /\ [Next]_vars => CaptureInv'
  BY TypeStep, OwnershipStep, RingStep, OrderStep DEF CaptureInv
<1> QED BY <1>1, <1>2, PTL DEF Spec

LEMMA BarrierMet ==
  ASSUME CaptureInv
  PROVE  BarrierFindsItsMetadata
<1> SUFFICES ASSUME wPc = "barrier", orphaned = {}
             PROVE  /\ ~ControlEmpty
                    /\ control[controlRead + 1].kind = "meta"
                    /\ control[controlRead + 1].seq = wDesc.seq
  BY DEF BarrierFindsItsMetadata
<1> USE DEF CaptureInv, OrderInv
<1>1. /\ controlRead < Len(control) /\ control[controlRead + 1].kind = "meta"
      /\ control[controlRead + 1].seq = wDesc.seq
  BY BarrierFound
<1>2. ~ControlEmpty BY <1>1, Lengths, SMT DEF ControlEmpty
<1> QED BY <1>1, <1>2

LEMMA InOrder ==
  ASSUME CaptureInv
  PROVE  RecordedInOrder
<1> SUFFICES ASSUME orphaned = {}
             PROVE  /\ Len(recorded) <= Len(published)
                    /\ \A k \in 1 .. Len(recorded) : recorded[k] = published[k]
  BY DEF RecordedInOrder
<1>1. /\ Len(recorded) <= Audio(workRead)
      /\ \A k \in 1 .. Len(recorded) : recorded[k] = published[k]
  BY DEF CaptureInv, OrderInv, WrittenInv
<1>2. /\ Audio(workRead) \in Nat /\ Audio(workRead) <= Len(published)
      /\ Len(recorded) \in Nat /\ Len(published) \in Nat
  BY RingNumbers, Lengths DEF CaptureInv
<1> QED BY <1>1, <1>2, SMT

LEMMA Honest ==
  ASSUME CaptureInv
  PROVE  OutcomeIsHonest
<1> SUFFICES ASSUME orphaned = {}, outcome \in {"Success", "SuccessWithLoss"}
             PROVE  /\ captured = Len(recorded) + overruns
                    /\ outcome = "Success" => overruns = 0
  <2>1. captured = Len(recorded) + overruns /\ overruns = 0 => captured = Len(recorded)
    BY Lengths, SMT DEF CaptureInv
  <2> QED BY <2>1 DEF OutcomeIsHonest
<1> USE DEF CaptureInv, OrderInv, EndInv
<1>1. wResult = "ok" /\ guardPc = "done" OBVIOUS
<1>2. Len(recorded) = Len(published) BY <1>1
<1>3. ~failedFlag BY <1>1
<1>4. suppressed = 0
  BY <1>3, SMT DEF TypeOK, HistoryTypes
<1>5. Filling = 0
  <2>1. rtPc = "stopped" BY <1>1 DEF TypeOK, GuardTypes
  <2> QED BY <2>1 DEF TypeOK, CallbackTypes, Filling
<1>6. overruns \in Nat /\ Len(published) \in Nat
  BY Lengths DEF TypeOK, CallbackTypes
<1>7. captured = Len(published) + overruns + suppressed + Filling OBVIOUS
<1>8. captured = Len(recorded) + overruns
  BY <1>2, <1>4, <1>5, <1>6, <1>7, SMT
<1> QED BY <1>8

(* With the rings dimensioned as RecordingPool::new does, for every size   *)
(* and every interleaving: a barrier that the worker takes finds its own   *)
(* metadata at the head of the control ring (handle_control_barrier never  *)
(* discards one, never falls through), unless the stop discarded it.       *)
THEOREM BarriersFindTheirMetadata ==
  ASSUME RingsSized
  PROVE  Spec => []BarrierFindsItsMetadata
BY CaptureInvariant, BarrierMet, PTL

(* What the worker has written is a prefix of what the callback published: *)
(* the same blocks in the same order, each read from its slot before the   *)
(* callback could fill it again, and each in the segment of the metadata   *)
(* that was confirmed, at the rate of the host, when it was captured.      *)
THEOREM RecordingKeepsOrder ==
  ASSUME RingsSized
  PROVE  Spec => []RecordedInOrder
BY CaptureInvariant, InOrder, PTL

(* What join_recording_io reports is true: after Success the segments hold *)
(* every quantum captured, after SuccessWithLoss all but the overruns.     *)
THEOREM OutcomesAreHonest ==
  ASSUME RingsSized
  PROVE  Spec => []OutcomeIsHonest
BY CaptureInvariant, Honest, PTL

=============================================================================
