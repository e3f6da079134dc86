--------------------------- MODULE DataProtocols_proofs ---------------------------
(***************************************************************************)
(* What TLAPS proves of the protocols that carry data between threads      *)
(* without a lock: the latency snapshot, the ring of PipeWire's log and    *)
(* the path from capture to playback.  ControlPlane_proofs carries the     *)
(* results over to the behaviours of ControlPlane.                         *)
(***************************************************************************)
EXTENDS LatencySnapshot, LogRing, PlaybackPath, FiniteSetTheorems, TLAPS

-----------------------------------------------------------------------------
(* The latency snapshot: the sequence lock never lets a mixture through.   *)

Writing == writer.step \in {"store", "leave"}
Reading == reader.step \in Stages \cup {"validate"}

(* The sequence is odd exactly while a latency may change.                 *)
Parity == Even(sequence) <=> ~Writing

(* A reader holds an even sequence that was in force.                      *)
HoldsEven == Reading => (Even(reader.sequence) /\ reader.sequence <= sequence)

(* While the sequence has not moved, what was read so far is in force.     *)
Settled(s) == reader.seen[s] = appliedLatency[s]
SeenSoFar ==
    (Reading /\ sequence = reader.sequence) =>
        /\ reader.step \in {"cabsim", "oversample", "validate"} => Settled("resampler")
        /\ reader.step \in {"oversample", "validate"} => Settled("cabsim")
        /\ reader.step = "validate" => Settled("oversample")

SnapshotInv == CallbackTypeOK /\ ReaderTypeOK /\ Parity /\ HoldsEven /\ SeenSoFar

LEMMA ParityAlternates ==
  ASSUME NEW n \in Nat
  PROVE  Even(n + 1) <=> ~Even(n)
  BY DEF Even

LEMMA BeginHasItsType ==
  Begin \in [step : Steps, rate : HostRates \cup {Unset}, host : HostRates,
             sequence : Nat, seen : [Stages -> Latencies]]
<1>1. NoLatency \in [Stages -> Latencies]
  BY LatencyAssumption DEF NoLatency
<1> QED BY <1>1, RateAssumption DEF Begin, Steps

LEMMA SnapshotInitHolds == LatencyInit => SnapshotInv
<1> SUFFICES ASSUME LatencyInit PROVE SnapshotInv
  OBVIOUS
<1>1. NoLatency \in [Stages -> Latencies]
  BY LatencyAssumption DEF NoLatency
<1>2. CallbackTypeOK
  <2>1. writer \in [step : {"idle", "enter", "store", "leave", "model", "host"},
                    stage : Stages, rate : HostRates]
    BY RateAssumption DEF LatencyInit, Resting, Stages
  <2> QED BY <1>1, <2>1, RateAssumption DEF LatencyInit, CallbackTypeOK
<1>3. ReaderTypeOK
  BY BeginHasItsType DEF LatencyInit, ReaderTypeOK
<1>4. Parity
  BY DEF LatencyInit, Parity, Writing, Resting, Even
<1>5. HoldsEven /\ SeenSoFar
  BY DEF LatencyInit, HoldsEven, SeenSoFar, Reading, Begin, Stages
<1> QED BY <1>2, <1>3, <1>4, <1>5 DEF SnapshotInv

-----------------------------------------------------------------------------
(* The callback: the reader is left alone, and a latency changes only      *)
(* under an odd sequence.                                                  *)

LEMMA SwapKeepsTypes ==
  ASSUME SnapshotInv, NegotiateRate \/ TakeNegotiated \/ InstallEngine
  PROVE  CallbackTypeOK'
<1>1. CASE NegotiateRate \/ TakeNegotiated
  BY <1>1 DEF NegotiateRate, TakeNegotiated, SnapshotInv, CallbackTypeOK
<1>2. CASE InstallEngine
  <2>1. PICK s \in Stages, l \in Latencies, r \in HostRates, m \in ModelRates :
            /\ engines' = [engines EXCEPT ![s] = l]
            /\ engineRate' = m
            /\ writer' = [step |-> "enter", stage |-> s, rate |-> r]
    BY <1>2 DEF InstallEngine
  <2>2. engines' \in [Stages -> Latencies] /\ engineRate' \in ModelRates
    BY <2>1 DEF SnapshotInv, CallbackTypeOK
  <2>3. writer' \in [step : {"idle", "enter", "store", "leave", "model", "host"},
                     stage : Stages, rate : HostRates]
    BY <2>1
  <2> QED BY <1>2, <2>2, <2>3 DEF InstallEngine, SnapshotInv, CallbackTypeOK
<1> QED BY <1>1, <1>2

LEMMA WriteKeepsTypes ==
  ASSUME SnapshotInv, Write
  PROVE  CallbackTypeOK'
<1> USE DEF SnapshotInv, CallbackTypeOK
<1>r. Resting \in [step : {"idle", "enter", "store", "leave", "model", "host"},
                   stage : Stages, rate : HostRates]
  BY RateAssumption DEF Resting, Stages
<1>1. CASE EnterWrite
  BY <1>1 DEF EnterWrite, BumpSequence
<1>2. CASE StoreLatency
  BY <1>2 DEF StoreLatency
<1>3. CASE LeaveWrite
  BY <1>3, <1>r DEF LeaveWrite, BumpSequence
<1>4. CASE StoreModelRate
  BY <1>4 DEF StoreModelRate
<1>5. CASE StoreHostRate
  BY <1>5, <1>r DEF StoreHostRate
<1> QED BY <1>1, <1>2, <1>3, <1>4, <1>5 DEF Write

LEMMA CallbackStep ==
  ASSUME SnapshotInv, NegotiateRate \/ TakeNegotiated \/ InstallEngine \/ Write
  PROVE  SnapshotInv'
<1>1. reader' = reader
  BY DEF NegotiateRate, TakeNegotiated, InstallEngine, Write, EnterWrite, StoreLatency,
         LeaveWrite, StoreModelRate, StoreHostRate
<1>2. CallbackTypeOK'
  BY SwapKeepsTypes, WriteKeepsTypes
<1>3. ReaderTypeOK'
  BY <1>1 DEF SnapshotInv, ReaderTypeOK
<1>t. /\ sequence \in Nat
      /\ Reading => reader.sequence \in Nat
      /\ writer \in [step : {"idle", "enter", "store", "leave", "model", "host"},
                     stage : Stages, rate : HostRates]
  BY DEF SnapshotInv, CallbackTypeOK, ReaderTypeOK
<1>e. Even(sequence + 1) <=> ~Even(sequence)
  BY <1>t, ParityAlternates
<1>4. CASE NegotiateRate \/ TakeNegotiated \/ InstallEngine \/ StoreModelRate \/ StoreHostRate
  <2>1. sequence' = sequence /\ appliedLatency' = appliedLatency
    BY <1>4 DEF NegotiateRate, TakeNegotiated, InstallEngine, StoreModelRate, StoreHostRate
  <2>2. (~Writing /\ ~Writing') \/ writer' = writer
    BY <1>4, <1>t DEF NegotiateRate, TakeNegotiated, InstallEngine, StoreModelRate,
       StoreHostRate, Writing, Resting
  <2>3. Parity'
    BY <2>1, <2>2 DEF SnapshotInv, Parity, Writing, Even
  <2>4. HoldsEven' /\ SeenSoFar'
    BY <1>1, <2>1 DEF SnapshotInv, HoldsEven, SeenSoFar, Reading, Settled, Even
  <2> QED BY <1>2, <1>3, <2>3, <2>4 DEF SnapshotInv
<1>5. CASE EnterWrite
  <2>1. sequence' = sequence + 1 /\ appliedLatency' = appliedLatency
    BY <1>5 DEF EnterWrite, BumpSequence
  <2>2. ~Writing /\ Writing'
    BY <1>5, <1>t DEF EnterWrite, Writing
  <2>3. Parity'
    BY <1>e, <2>1, <2>2 DEF SnapshotInv, Parity, Even
  <2>4. HoldsEven'
    BY <1>1, <1>t, <2>1 DEF SnapshotInv, HoldsEven, Reading, Even
  <2>5. SeenSoFar'
    <3>1. Reading => reader.sequence <= sequence
      BY DEF SnapshotInv, HoldsEven
    <3>2. Reading => sequence' # reader.sequence
      BY <1>t, <2>1, <3>1
    <3> QED BY <1>1, <3>2 DEF SeenSoFar, Reading
  <2> QED BY <1>2, <1>3, <2>3, <2>4, <2>5 DEF SnapshotInv
<1>6. CASE StoreLatency
  <2>1. sequence' = sequence
    BY <1>6 DEF StoreLatency
  <2>2. Writing /\ Writing'
    BY <1>6, <1>t DEF StoreLatency, Writing
  <2>3. Parity' /\ HoldsEven'
    BY <1>1, <2>1, <2>2 DEF SnapshotInv, Parity, HoldsEven, Reading, Even
  <2>4. SeenSoFar'
    <3>1. Reading => sequence # reader.sequence
      BY <2>2 DEF SnapshotInv, Parity, HoldsEven
    <3> QED BY <1>1, <2>1, <3>1 DEF SeenSoFar, Reading
  <2> QED BY <1>2, <1>3, <2>3, <2>4 DEF SnapshotInv
<1>7. CASE LeaveWrite
  <2>1. sequence' = sequence + 1
    BY <1>7 DEF LeaveWrite, BumpSequence
  <2>2. Writing /\ ~Writing'
    BY <1>7, <1>t DEF LeaveWrite, Writing, Resting
  <2>3. Parity'
    BY <1>e, <2>1, <2>2 DEF SnapshotInv, Parity, Even
  <2>4. HoldsEven'
    BY <1>1, <1>t, <2>1 DEF SnapshotInv, HoldsEven, Reading, Even
  <2>5. SeenSoFar'
    <3>1. Reading => reader.sequence <= sequence
      BY DEF SnapshotInv, HoldsEven
    <3>2. Reading => sequence' # reader.sequence
      BY <1>t, <2>1, <3>1
    <3> QED BY <1>1, <3>2 DEF SeenSoFar, Reading
  <2> QED BY <1>2, <1>3, <2>3, <2>4, <2>5 DEF SnapshotInv
<1> QED BY <1>4, <1>5, <1>6, <1>7 DEF Write

-----------------------------------------------------------------------------
(* The control loop: the callback's state is left alone.                   *)

LEMMA CallbackFrame ==
  ASSUME SnapshotInv, UNCHANGED rtVars
  PROVE  CallbackTypeOK' /\ Parity'
<1>1. CallbackTypeOK'
  BY DEF rtVars, SnapshotInv, CallbackTypeOK
<1>2. Parity'
  BY DEF rtVars, SnapshotInv, Parity, Writing, Even
<1> QED BY <1>1, <1>2

LEMMA ReadStep ==
  ASSUME SnapshotInv, Read
  PROVE  SnapshotInv'
<1> USE DEF Stages
<1>0. UNCHANGED rtVars
  BY DEF Read, ReadHostRate, ReadNegotiated, ReadSequence, ReadField, Validate, Publish
<1>1. CallbackTypeOK' /\ Parity'
  BY <1>0, CallbackFrame
<1>2. sequence' = sequence /\ appliedLatency' = appliedLatency
  BY <1>0 DEF rtVars
<1>t. /\ reader \in [step : Steps, rate : HostRates \cup {Unset}, host : HostRates,
                     sequence : Nat, seen : [Stages -> Latencies]]
      /\ sequence \in Nat /\ appliedLatency \in [Stages -> Latencies]
      /\ activeRate \in HostRates \cup {Unset} /\ negotiated \in HostRates \cup {Unset}
  BY DEF SnapshotInv, CallbackTypeOK, ReaderTypeOK
<1>3. CASE ReadHostRate
  <2>1. ReaderTypeOK'
    BY <1>3, <1>t DEF ReadHostRate, ReaderTypeOK, Steps
  <2>2. ~Reading'
    BY <1>3, <1>t DEF ReadHostRate, Reading
  <2> QED BY <1>1, <2>1, <2>2 DEF SnapshotInv, HoldsEven, SeenSoFar
<1>4. CASE ReadNegotiated
  <2>1. HostRate(Unset, negotiated) \in HostRates
    BY <1>t, RateAssumption DEF HostRate
  <2>2. ReaderTypeOK'
    BY <1>4, <1>t, <2>1 DEF ReadNegotiated, ReaderTypeOK, Steps
  <2>3. ~Reading'
    BY <1>4, <1>t DEF ReadNegotiated, Reading
  <2> QED BY <1>1, <2>2, <2>3 DEF SnapshotInv, HoldsEven, SeenSoFar
<1>5. CASE ReadSequence
  <2>1. ReaderTypeOK'
    BY <1>5, <1>t DEF ReadSequence, ReaderTypeOK, Steps
  <2>2. reader'.step = "resampler" /\ reader'.sequence = sequence /\ Even(sequence)
    BY <1>5, <1>t DEF ReadSequence
  <2>3. HoldsEven'
    BY <1>2, <1>t, <2>2 DEF HoldsEven, Even
  <2>4. SeenSoFar'
    BY <2>2 DEF SeenSoFar
  <2> QED BY <1>1, <2>1, <2>3, <2>4 DEF SnapshotInv
<1>6. CASE ReadField
  <2>1. reader.step \in Stages /\ appliedLatency[reader.step] \in Latencies
    BY <1>6, <1>t DEF ReadField
  <2>2. /\ reader'.step = FieldAfter[reader.step]
        /\ reader'.sequence = reader.sequence
        /\ reader'.seen = [reader.seen EXCEPT ![reader.step] = appliedLatency[reader.step]]
    BY <1>6, <1>t DEF ReadField
  <2>3. FieldAfter[reader.step] \in Steps
    BY <2>1 DEF FieldAfter, Steps
  <2>4. ReaderTypeOK'
    BY <1>6, <1>t, <2>1, <2>3 DEF ReadField, ReaderTypeOK
  <2>5. HoldsEven'
    BY <1>2, <2>1, <2>2 DEF SnapshotInv, HoldsEven, Reading, Even
  <2>6. SeenSoFar'
    <3>1. CASE reader.step = "resampler"
      BY <1>2, <1>t, <2>2, <3>1 DEF SeenSoFar, Settled, FieldAfter
    <3>2. CASE reader.step = "cabsim"
      BY <1>2, <1>t, <2>2, <3>2 DEF SnapshotInv, SeenSoFar, Reading, Settled, FieldAfter
    <3>3. CASE reader.step = "oversample"
      BY <1>2, <1>t, <2>2, <3>3 DEF SnapshotInv, SeenSoFar, Reading, Settled, FieldAfter
    <3> QED BY <2>1, <3>1, <3>2, <3>3
  <2> QED BY <1>1, <2>4, <2>5, <2>6 DEF SnapshotInv
<1>7. CASE Validate
  <2>1. reader'.step \in {"publish", "sequence"}
    BY <1>7, <1>t DEF Validate, Advance
  <2>2. ReaderTypeOK'
    BY <1>7, <1>t DEF Validate, Advance, ReaderTypeOK, Steps
  <2> QED BY <1>1, <2>1, <2>2 DEF SnapshotInv, HoldsEven, SeenSoFar, Reading
<1>8. CASE Publish
  <2>1. reader' = Begin
    BY <1>8 DEF Publish
  <2>2. ReaderTypeOK'
    BY <2>1, BeginHasItsType DEF ReaderTypeOK
  <2> QED BY <1>1, <2>1, <2>2 DEF SnapshotInv, HoldsEven, SeenSoFar, Reading, Begin
<1> QED BY <1>3, <1>4, <1>5, <1>6, <1>7, <1>8 DEF Read

LEMMA ReconnectStep ==
  ASSUME SnapshotInv, Reconnect
  PROVE  SnapshotInv'
<1>1. reader' = reader /\ reader.step = "rate" /\ sequence' = sequence /\ writer' = writer
  BY DEF Reconnect
<1>2. CallbackTypeOK'
  BY DEF Reconnect, SnapshotInv, CallbackTypeOK
<1>3. ReaderTypeOK' /\ Parity'
  BY <1>1 DEF SnapshotInv, ReaderTypeOK, Parity, Writing, Even
<1>4. HoldsEven' /\ SeenSoFar'
  BY <1>1 DEF HoldsEven, SeenSoFar, Reading, Stages
<1> QED BY <1>2, <1>3, <1>4 DEF SnapshotInv

LEMMA SnapshotInductive == SnapshotInv /\ [LatencyNext]_latencyVars => SnapshotInv'
<1> SUFFICES ASSUME SnapshotInv, [LatencyNext]_latencyVars PROVE SnapshotInv'
  OBVIOUS
<1>1. CASE LatencyNext
  BY <1>1, CallbackStep, ReadStep, ReconnectStep DEF LatencyNext
<1>2. CASE UNCHANGED latencyVars
  <2>1. UNCHANGED rtVars /\ reader' = reader
    BY <1>2 DEF latencyVars
  <2>2. CallbackTypeOK' /\ Parity'
    BY <2>1, CallbackFrame
  <2>3. ReaderTypeOK' /\ HoldsEven' /\ SeenSoFar'
    BY <2>1 DEF rtVars, SnapshotInv, ReaderTypeOK, HoldsEven, SeenSoFar, Reading, Settled, Even
  <2> QED BY <2>2, <2>3 DEF SnapshotInv
<1> QED BY <1>1, <1>2

-----------------------------------------------------------------------------

LEMMA ValidatedIsCoherent ==
  ASSUME SnapshotInv, LatencyNext, reader.step = "validate", reader'.step = "publish"
  PROVE  reader.seen = appliedLatency
<1> USE DEF Stages
<1>1. Validate
  <2>1. reader' # reader
    OBVIOUS
  <2>2. ~(NegotiateRate \/ TakeNegotiated \/ InstallEngine \/ Write \/ Reconnect)
    BY <2>1 DEF NegotiateRate, TakeNegotiated, InstallEngine, Write, EnterWrite, StoreLatency,
       LeaveWrite, StoreModelRate, StoreHostRate, Reconnect
  <2>3. ~(ReadHostRate \/ ReadNegotiated \/ ReadSequence \/ ReadField \/ Publish)
    BY DEF ReadHostRate, ReadNegotiated, ReadSequence, ReadField, Publish
  <2> QED BY <2>2, <2>3 DEF LatencyNext, Read
<1>2. sequence = reader.sequence
  BY <1>1 DEF Validate, Advance, Undisturbed, SnapshotInv, ReaderTypeOK
<1>3. \A s \in Stages : reader.seen[s] = appliedLatency[s]
  BY <1>2 DEF SnapshotInv, SeenSoFar, Reading, Settled
<1>4. reader.seen \in [Stages -> Latencies] /\ appliedLatency \in [Stages -> Latencies]
  BY DEF SnapshotInv, ReaderTypeOK, CallbackTypeOK
<1> QED BY <1>3, <1>4

-----------------------------------------------------------------------------
(* What the graph is told is a number of samples.                          *)
GraphInv == advertised \in [Streams -> Nat] /\ refused \in BOOLEAN
LatencyInv == SnapshotInv /\ GraphInv

LEMMA CeilingIsNatural ==
  ASSUME NEW n \in Nat, NEW r \in Nat, NEW m \in Nat \ {0}
  PROVE  (n * r + m - 1) \div m \in Nat
<1> DEFINE x == n * r + m - 1
<1>1. n * r \in Nat
  OBVIOUS
<1>2. x \in Nat
  BY <1>1
<1> HIDE DEF x
<1>3. x \div m \in Nat
  BY <1>2
<1> QED BY <1>3 DEF x

LEMMA TotalIsNatural ==
  ASSUME NEW l \in [Stages -> Latencies], NEW r \in HostRates, NEW m \in ModelRates
  PROVE  Total(l, r, m) \in Nat
<1>1. /\ l["cabsim"] \in Nat /\ l["resampler"] \in Nat /\ l["oversample"] \in Nat
      /\ r \in Nat /\ m \in Nat \ {0}
  BY LatencyAssumption, RateAssumption DEF Stages
<1> DEFINE h == ToHost(l["oversample"], r, m)
<1>2. h \in Nat
  BY <1>1, CeilingIsNatural DEF ToHost
<1> HIDE DEF h
<1>3. l["cabsim"] + l["resampler"] + h \in Nat
  BY <1>1, <1>2
<1> QED BY <1>3 DEF Total, h

LEMMA GraphStep ==
  ASSUME LatencyInv, [LatencyNext]_latencyVars
  PROVE  GraphInv'
<1>t. GraphInv /\ CallbackTypeOK /\ ReaderTypeOK
  BY DEF LatencyInv, SnapshotInv
<1>1. CASE UNCHANGED graphVars
  BY <1>1, <1>t DEF graphVars, GraphInv
<1>2. CASE Publish
  <2> DEFINE samples == Total(reader.seen, reader.host, appliedModelRate)
  <2>1. samples \in Nat
    BY <1>t, TotalIsNatural DEF ReaderTypeOK, CallbackTypeOK
  <2>2. UpdateStreamLatency(samples) \/ UNCHANGED graphVars
    BY <1>2 DEF Publish
  <2> HIDE DEF samples
  <2>3. UpdateStreamLatency(samples) => advertised' \in [Streams -> Nat]
    BY <1>t, <2>1 DEF UpdateStreamLatency, GraphInv
  <2>4. UpdateStreamLatency(samples) => refused' \in BOOLEAN
    BY <1>t, Zenon DEF UpdateStreamLatency, GraphInv
  <2> QED BY <1>1, <2>2, <2>3, <2>4 DEF GraphInv
<1>3. CASE Reconnect
  <2>1. Total(engines, NominalRate, engineRate) \in Nat
    BY <1>t, TotalIsNatural, RateAssumption DEF CallbackTypeOK
  <2>2. advertised' = [s \in Streams |-> Total(engines, NominalRate, engineRate)]
        /\ refused' = FALSE
    BY <1>3 DEF Reconnect
  <2>3. refused' \in BOOLEAN
    BY <2>2, Zenon
  <2> QED BY <2>1, <2>2, <2>3 DEF GraphInv
<1>4. CASE NegotiateRate \/ TakeNegotiated \/ InstallEngine \/ Write
  BY <1>1, <1>4 DEF NegotiateRate, TakeNegotiated, InstallEngine, Write, EnterWrite,
     StoreLatency, LeaveWrite, StoreModelRate, StoreHostRate
<1>5. CASE ReadHostRate \/ ReadNegotiated \/ ReadSequence \/ ReadField \/ Validate
  BY <1>1, <1>5 DEF ReadHostRate, ReadNegotiated, ReadSequence, ReadField, Validate
<1>6. CASE UNCHANGED latencyVars
  BY <1>1, <1>6 DEF latencyVars
<1> QED BY <1>2, <1>3, <1>4, <1>5, <1>6 DEF LatencyNext, Read

LEMMA LatencyInitHolds == LatencyInit => LatencyInv
<1>1. LatencyInit => GraphInv
  <2>1. LatencyInit => advertised \in [Streams -> Nat]
    BY DEF LatencyInit
  <2>2. LatencyInit => refused \in BOOLEAN
    BY Zenon DEF LatencyInit
  <2> QED BY <2>1, <2>2 DEF GraphInv
<1> QED BY <1>1, SnapshotInitHolds DEF LatencyInv

LEMMA LatencyInductive == LatencyInv /\ [LatencyNext]_latencyVars => LatencyInv'
  BY SnapshotInductive, GraphStep DEF LatencyInv

LEMMA LatencyTypesFollow == LatencyInv => LatencyTypeOK
  BY DEF LatencyInv, SnapshotInv, GraphInv, LatencyTypeOK

-----------------------------------------------------------------------------
(* The log's ring.                                                         *)

LogSteps == {"unborn", "idle", "dead", "consult", "sync", "push", "commit", "count"}
LogThread == [step : LogSteps, marked : BOOLEAN, begun : 0 .. Events]

LogTypes ==
    /\ dataThread \in [Threads -> LogThread]
    /\ instance \in 0 .. MaxThreads
    /\ replaying \in {<<>>} \cup {<<r>> : r \in Records}
    /\ logRing \in Seq(Records) /\ emitted \in Seq(Records)
    /\ contained \subseteq Records /\ dropped \subseteq Records

(* The routing is on only behind the drainer and the producer.             *)
SwitchInv ==
    /\ routed \in BOOLEAN /\ installed \in BOOLEAN /\ producer \in BOOLEAN
    /\ installer \in {"fresh", "spawn", "publish", "route", "done", "again"}
    /\ routed => installed
    /\ installer \in {"spawn", "publish", "route"} => installed /\ ~routed
    /\ installed /\ installer \in {"fresh", "done", "again"} => producer
    /\ installer = "route" => producer

Living(t) == dataThread[t].step \notin {"unborn", "dead"}
Busy(t) == dataThread[t].step \notin {"unborn", "idle", "dead"}

(* Only the thread of the latest instance lives, and while it does the     *)
(* routing stands still.                                                   *)
SoleInv ==
    \A t \in Threads :
        /\ t > instance => dataThread[t] = Unborn
        /\ Living(t) => t = instance /\ installer = "done"
        /\ Busy(t) => dataThread[t].begun # 0
        /\ dataThread[t].step = "commit" => Len(logRing) < LogCapacity

(* What left a thread left it before the event it is busy with.            *)
Left(r) ==
    /\ r[2] <= dataThread[r[1]].begun
    /\ Busy(r[1]) => r[2] < dataThread[r[1]].begun
PastInv == \A r \in Emitted \cup Replayed \cup InRing \cup dropped : Left(r)

(* A living thread has records on their way only since it was marked.      *)
ModeInv ==
    /\ \A t \in Threads : /\ dataThread[t].step = "sync" => ~Consulted(t)
                          /\ dataThread[t].step \in {"push", "commit", "count"} => Consulted(t)
    /\ \A r \in Replayed \cup InRing : Living(r[1]) => Consulted(r[1])

Items(q) == {q[i] : i \in DOMAIN q}
Ascending(q) == \A i, j \in DOMAIN q : i < j /\ q[i][1] = q[j][1] => q[i][2] < q[j][2]
Before(A, B) == \A a \in A : \A b \in B : a[1] = b[1] => a[2] < b[2]

(* The log, the record in hand and the ring are one queue.                 *)
QueueInv ==
    /\ Len(logRing) <= LogCapacity
    /\ Ascending(emitted) /\ Ascending(logRing)
    /\ Before(Emitted, Replayed) /\ Before(Emitted, InRing) /\ Before(Replayed, InRing)

(* An event is where its fate left it, or its thread is busy with it.      *)
Fated == InRing \cup Emitted \cup Replayed \cup contained \cup dropped
FateInv ==
    /\ \A t \in Threads : \A n \in 1 .. dataThread[t].begun :
           <<t, n>> \in Fated \/ (Busy(t) /\ n = dataThread[t].begun)
    /\ IsFiniteSet(dropped) /\ logDropped = Cardinality(dropped)

LogInv ==
    /\ LogTypes /\ SwitchInv /\ SoleInv /\ PastInv /\ ModeInv /\ QueueInv /\ FateInv

-----------------------------------------------------------------------------
LEMMA ItemsAppend ==
  ASSUME NEW R, NEW q \in Seq(R), NEW r \in R
  PROVE  Append(q, r) \in Seq(R) /\ Items(Append(q, r)) = Items(q) \cup {r}
         /\ Len(Append(q, r)) = Len(q) + 1
<1>1. /\ Append(q, r) \in Seq(R) /\ Len(Append(q, r)) = Len(q) + 1 /\ Len(q) \in Nat
      /\ DOMAIN q = 1 .. Len(q) /\ DOMAIN Append(q, r) = 1 .. Len(q) + 1
      /\ \A i \in 1 .. Len(q) : Append(q, r)[i] = q[i]
      /\ Append(q, r)[Len(q) + 1] = r
  OBVIOUS
<1>2. \A i \in 1 .. Len(q) + 1 : i \in 1 .. Len(q) \/ i = Len(q) + 1 BY <1>1
<1>3. Len(q) + 1 \in 1 .. Len(q) + 1 /\ \A i \in 1 .. Len(q) : i \in 1 .. Len(q) + 1 BY <1>1
<1>4. \A x \in Items(Append(q, r)) : x \in Items(q) \cup {r} BY <1>1, <1>2, Zenon DEF Items
<1>5. \A x \in Items(q) \cup {r} : x \in Items(Append(q, r)) BY <1>1, <1>3, Zenon DEF Items
<1> QED BY <1>1, <1>4, <1>5, Zenon

LEMMA AscendingAppend ==
  ASSUME NEW R, NEW q \in Seq(R), NEW r \in R, Ascending(q), Before(Items(q), {r})
  PROVE  Ascending(Append(q, r))
<1>1. /\ Len(q) \in Nat
      /\ DOMAIN q = 1 .. Len(q) /\ DOMAIN Append(q, r) = 1 .. Len(q) + 1
      /\ \A i \in 1 .. Len(q) : Append(q, r)[i] = q[i]
      /\ Append(q, r)[Len(q) + 1] = r
  OBVIOUS
<1>2. ASSUME NEW i \in 1 .. Len(q) + 1, NEW j \in 1 .. Len(q) + 1, i < j
      PROVE  i \in 1 .. Len(q) /\ (j \in 1 .. Len(q) \/ j = Len(q) + 1)
  BY <1>1, <1>2
<1>3. \A i \in 1 .. Len(q) : q[i][1] = r[1] => q[i][2] < r[2]
  BY <1>1, Zenon DEF Before, Items
<1> QED BY <1>1, <1>2, <1>3, Zenon DEF Ascending

LEMMA ItemsTail ==
  ASSUME NEW R, NEW q \in Seq(R), q # <<>>
  PROVE  /\ Tail(q) \in Seq(R) /\ Head(q) \in R /\ Len(Tail(q)) = Len(q) - 1
         /\ Items(q) = Items(Tail(q)) \cup {Head(q)}
<1>1. /\ Tail(q) \in Seq(R) /\ Head(q) \in R /\ Len(Tail(q)) = Len(q) - 1 /\ Len(q) \in Nat \ {0}
      /\ DOMAIN q = 1 .. Len(q) /\ DOMAIN Tail(q) = 1 .. Len(q) - 1
      /\ \A i \in 1 .. Len(q) - 1 : Tail(q)[i] = q[i + 1]
      /\ Head(q) = q[1]
  OBVIOUS
<1>2. ASSUME NEW i \in 1 .. Len(q)
      PROVE  q[i] \in Items(Tail(q)) \cup {Head(q)}
  <2>1. i = 1 \/ (i - 1 \in 1 .. Len(q) - 1 /\ i - 1 + 1 = i) BY <1>1
  <2> QED BY <1>1, <2>1 DEF Items
<1>3. ASSUME NEW i \in 1 .. Len(q) - 1
      PROVE  Tail(q)[i] \in Items(q)
  <2>1. i + 1 \in 1 .. Len(q) BY <1>1
  <2> QED BY <1>1, <2>1 DEF Items
<1>4. Head(q) \in Items(q)
  <2>1. 1 \in 1 .. Len(q) BY <1>1
  <2> QED BY <1>1, <2>1 DEF Items
<1>5. ASSUME NEW x \in Items(q) PROVE x \in Items(Tail(q)) \cup {Head(q)}
  <2>1. PICK i \in 1 .. Len(q) : x = q[i] BY <1>1 DEF Items
  <2> QED BY <1>2, <2>1
<1>6. \A x \in Items(Tail(q)) \cup {Head(q)} : x \in Items(q)
  BY <1>1, <1>3, <1>4, Zenon DEF Items
<1> QED BY <1>1, <1>5, <1>6, Zenon

LEMMA AscendingTail ==
  ASSUME NEW R, NEW q \in Seq(R), q # <<>>, Ascending(q)
  PROVE  Ascending(Tail(q)) /\ Before({Head(q)}, Items(Tail(q)))
<1>1. /\ Len(q) \in Nat \ {0}
      /\ DOMAIN q = 1 .. Len(q) /\ DOMAIN Tail(q) = 1 .. Len(q) - 1
      /\ \A i \in 1 .. Len(q) - 1 : Tail(q)[i] = q[i + 1]
      /\ Head(q) = q[1]
  OBVIOUS
<1>2. /\ \A i \in 1 .. Len(q) - 1 : i + 1 \in 1 .. Len(q) /\ 1 < i + 1
      /\ 1 \in 1 .. Len(q)
  BY <1>1
<1>5. ASSUME NEW i \in 1 .. Len(q) - 1, NEW j \in 1 .. Len(q) - 1, i < j PROVE i + 1 < j + 1
  BY <1>1, <1>5
<1>3. ASSUME NEW i \in 1 .. Len(q) - 1, NEW j \in 1 .. Len(q) - 1, i < j,
             Tail(q)[i][1] = Tail(q)[j][1]
      PROVE  Tail(q)[i][2] < Tail(q)[j][2]
  <2>1. /\ i + 1 \in DOMAIN q /\ j + 1 \in DOMAIN q /\ i + 1 < j + 1
        /\ q[i + 1] = Tail(q)[i] /\ q[j + 1] = Tail(q)[j]
    BY <1>1, <1>2, <1>3, <1>5
  <2> QED BY <2>1, <1>3, Zenon DEF Ascending
<1>4. ASSUME NEW j \in 1 .. Len(q) - 1, q[1][1] = Tail(q)[j][1]
      PROVE  q[1][2] < Tail(q)[j][2]
  <2>1. 1 \in DOMAIN q /\ j + 1 \in DOMAIN q /\ 1 < j + 1 /\ q[j + 1] = Tail(q)[j]
    BY <1>1, <1>2
  <2> QED BY <2>1, <1>4, Zenon DEF Ascending
<1>6. Ascending(Tail(q)) BY <1>1, <1>3, Zenon DEF Ascending
<1>7. Before({Head(q)}, Items(Tail(q))) BY <1>1, <1>4, Zenon DEF Before, Items
<1> QED BY <1>6, <1>7

LEMMA LogInitHolds == LogInit => LogInv
<1> SUFFICES ASSUME LogInit PROVE LogInv
  OBVIOUS
<1> USE LogAssumption DEF LogInit
<1>1. Emitted = {} /\ Replayed = {} /\ InRing = {} /\ dropped = {} /\ contained = {}
  BY DEF Emitted, Replayed, InRing
<1>2. \A t \in Threads : dataThread[t] = Unborn /\ dataThread[t].begun = 0
                         /\ dataThread[t].step = "unborn"
  BY DEF Unborn
<1>3. LogTypes
  <2>1. Unborn \in LogThread BY DEF Unborn, LogThread, LogSteps
  <2>2. dataThread \in [Threads -> LogThread] BY <2>1
  <2>3. <<>> \in Seq(Records) OBVIOUS
  <2> QED BY <2>2, <2>3 DEF LogTypes
<1>4. SwitchInv BY DEF SwitchInv
<1>5. SoleInv BY <1>2 DEF SoleInv, Living, Busy
<1>6. PastInv /\ ModeInv BY <1>1, <1>2 DEF PastInv, ModeInv
<1>7. QueueInv BY <1>1 DEF QueueInv, Before, Ascending
<1>8. FateInv
  <2>1. IsFiniteSet({}) /\ Cardinality({}) = 0 BY FS_EmptySet
  <2> QED BY <1>2, <2>1 DEF FateInv
<1> QED BY <1>3, <1>4, <1>5, <1>6, <1>7, <1>8 DEF LogInv

-----------------------------------------------------------------------------
(* The switches move while no thread lives.                                *)
LEMMA SwitchStep ==
  ASSUME LogInv, InstallStep \/ RestoreDeactivate
  PROVE  LogInv'
<1>1. UNCHANGED <<replaying, threadVars, recordVars>>
  BY DEF InstallStep, InstallRefused, Install, SpawnDrainer, PublishProducer, EnableRouting,
         RestoreDeactivate
<1>2. \A t \in Threads : ~Living(t)
  <2>1. CASE InstallStep
    <3>1. installer # "done"
      BY <2>1 DEF InstallStep, InstallRefused, Install, SpawnDrainer, PublishProducer,
                  EnableRouting
    <3> QED BY <3>1 DEF LogInv, SoleInv
  <2>2. CASE RestoreDeactivate
    BY <2>2 DEF RestoreDeactivate, ThreadJoined, ThreadAt, LogInv, SoleInv, Living
  <2> QED BY <2>1, <2>2
<1>3. SwitchInv'
  <2>1. SwitchInv BY DEF LogInv
  <2>2. CASE InstallRefused BY <2>1, <2>2, Zenon DEF InstallRefused, SwitchInv
  <2>3. CASE Install
    <3>1. installer \in {"fresh", "again"} /\ producer' = producer BY <2>3 DEF Install
    <3>2. CASE installed
      <4>1. producer /\ routed' = TRUE /\ installer' = "done" /\ installed' = installed
        BY <2>1, <2>3, <3>1, <3>2, Zenon DEF Install, SwitchInv
      <4> QED BY <2>1, <3>1, <3>2, <4>1, Zenon DEF SwitchInv
    <3>3. CASE ~installed
      <4>1. installed' = TRUE /\ routed' = routed /\ installer' = "spawn" /\ ~routed
        BY <2>1, <2>3, <3>3, Zenon DEF Install, SwitchInv
      <4> QED BY <2>1, <3>1, <4>1, Zenon DEF SwitchInv
    <3> QED BY <3>2, <3>3
  <2>4. CASE SpawnDrainer
    <3>1. installer = "spawn" /\ producer' = producer BY <2>4 DEF SpawnDrainer
    <3>2. CASE installer' = "publish" /\ UNCHANGED <<routed, installed>>
      BY <2>1, <3>1, <3>2, Zenon DEF SwitchInv
    <3>3. CASE routed' = FALSE /\ installed' = FALSE /\ installer' = "done"
      BY <2>1, <3>1, <3>3, Zenon DEF SwitchInv
    <3> QED BY <2>4, <3>2, <3>3, Zenon DEF SpawnDrainer
  <2>5. CASE PublishProducer BY <2>1, <2>5, Zenon DEF PublishProducer, SwitchInv
  <2>6. CASE EnableRouting BY <2>1, <2>6, Zenon DEF EnableRouting, SwitchInv
  <2>7. CASE RestoreDeactivate BY <2>1, <2>7, Zenon DEF RestoreDeactivate, SwitchInv
  <2> QED BY <2>2, <2>3, <2>4, <2>5, <2>6, <2>7 DEF InstallStep
<1> USE <1>1 DEF threadVars, recordVars
<1>4. LogTypes' BY DEF LogInv, LogTypes
<1>5. SoleInv' BY <1>2 DEF LogInv, SoleInv, Living, Busy
<1>6. PastInv' BY DEF LogInv, PastInv, Left, Busy, Emitted, Replayed, InRing
<1>7. ModeInv'
  <2>1. \A t \in Threads : dataThread[t].step \in {"unborn", "dead"} BY <1>2 DEF Living
  <2>2. \A r \in Replayed \cup InRing : r[1] \in Threads
    BY DEF LogInv, LogTypes, Replayed, InRing, Records
  <2> QED BY <2>1, <2>2 DEF ModeInv, Living, Replayed, InRing
<1>8. QueueInv' BY DEF LogInv, QueueInv, Emitted, Replayed, InRing
<1>9. FateInv' BY DEF LogInv, FateInv, Fated, Busy, Emitted, Replayed, InRing
<1> QED BY <1>3, <1>4, <1>5, <1>6, <1>7, <1>8, <1>9 DEF LogInv
-----------------------------------------------------------------------------
(* A step of the living thread t.                                          *)
Became(t, s, m, n) ==
    /\ dataThread' \in [Threads -> LogThread]
    /\ dataThread'[t].step = s /\ dataThread'[t].marked = m /\ dataThread'[t].begun = n
    /\ \A u \in Threads : u # t => dataThread'[u] = dataThread[u]

LEMMA StepBecomes ==
  ASSUME LogTypes, NEW t \in Threads, NEW s \in LogSteps,
         SetThread(t, [dataThread[t] EXCEPT !.step = s])
  PROVE  Became(t, s, dataThread[t].marked, dataThread[t].begun)
  BY DEF LogTypes, LogThread, SetThread, Became

LEMMA EndBecomes ==
  ASSUME LogTypes, NEW t \in Threads, NEW s \in LogSteps, NEW m \in BOOLEAN,
         SetThread(t, [dataThread[t] EXCEPT !.step = s, !.marked = m])
  PROVE  Became(t, s, m, dataThread[t].begun)
  BY DEF LogTypes, LogThread, SetThread, Became

LEMMA MarkBecomes ==
  ASSUME LogTypes, NEW t \in Threads, NEW m \in BOOLEAN,
         SetThread(t, [dataThread[t] EXCEPT !.marked = m])
  PROVE  Became(t, dataThread[t].step, m, dataThread[t].begun)
  BY DEF LogTypes, LogThread, SetThread, Became

LEMMA BeginBecomes ==
  ASSUME LogTypes, NEW t \in Threads, NEW s \in LogSteps, NEW n \in 0 .. Events,
         SetThread(t, [dataThread[t] EXCEPT !.begun = n, !.step = s])
  PROVE  Became(t, s, dataThread[t].marked, n)
  BY DEF LogTypes, LogThread, SetThread, Became

LEMMA ThreadFields ==
  ASSUME LogTypes, NEW t \in Threads
  PROVE  /\ dataThread[t].step \in LogSteps /\ dataThread[t].marked \in BOOLEAN
         /\ dataThread[t].begun \in 0 .. Events
  BY DEF LogTypes, LogThread

LEMMA Residents ==
  ASSUME LogTypes
  PROVE  /\ \A r \in Replayed \cup InRing \cup Emitted \cup dropped \cup contained :
                r \in Records /\ r[1] \in Threads /\ r[2] \in 1 .. Events
                /\ r = <<r[1], r[2]>>
         /\ InRing = Items(logRing) /\ Emitted = Items(emitted)
<1>1. logRing \in Seq(Records) /\ emitted \in Seq(Records) /\ contained \subseteq Records
      /\ dropped \subseteq Records /\ replaying \in {<<>>} \cup {<<r>> : r \in Records}
  BY DEF LogTypes
<1>2. InRing \subseteq Records /\ Emitted \subseteq Records
  BY <1>1 DEF InRing, Emitted
<1>3. Replayed \subseteq Records
  BY <1>1 DEF Replayed
<1>4. \A r \in Records : r[1] \in Threads /\ r[2] \in 1 .. Events /\ r = <<r[1], r[2]>>
  BY DEF Records
<1>5. InRing = Items(logRing) /\ Emitted = Items(emitted) BY DEF InRing, Emitted, Items
<1> QED BY <1>1, <1>2, <1>3, <1>4, <1>5

LEMMA QuietStep ==
  ASSUME LogInv, NEW t \in Threads, NEW s \in LogSteps \ {"unborn"}, NEW m \in BOOLEAN,
         NEW n \in 0 .. Events, Became(t, s, m, n),
         UNCHANGED <<switchVars, instance, recordVars>>,
         Living(t), t = instance,
         \/ n = dataThread[t].begun /\ (Busy(t) <=> s \notin {"unborn", "idle", "dead"})
         \/ n = dataThread[t].begun + 1 /\ ~Busy(t) /\ s \notin {"unborn", "idle", "dead"},
         s = "sync" => ~(routed /\ m /\ producer),
         s \in {"push", "commit", "count"} => routed /\ m /\ producer,
         s # "dead" => (dataThread[t].marked => m),
         s = "commit" => Len(logRing) < LogCapacity
  PROVE  LogInv'
<1> DEFINE th == dataThread[t]  busy == s \notin {"unborn", "idle", "dead"}
<1>1. LogTypes /\ SwitchInv /\ SoleInv /\ PastInv /\ ModeInv /\ QueueInv /\ FateInv
  BY DEF LogInv
<1>2. /\ dataThread' \in [Threads -> LogThread]
      /\ dataThread'[t].step = s /\ dataThread'[t].marked = m /\ dataThread'[t].begun = n
      /\ \A u \in Threads : u # t => dataThread'[u] = dataThread[u]
  BY DEF Became
<1>3. /\ UNCHANGED <<routed, installed, producer, replaying, installer, instance>>
      /\ UNCHANGED <<logRing, logDropped, emitted, contained, dropped>>
      /\ InRing' = InRing /\ Emitted' = Emitted /\ Replayed' = Replayed
  BY DEF switchVars, recordVars, InRing, Emitted, Replayed
<1>4. LogTypes' BY <1>1, <1>2, <1>3 DEF LogTypes
<1>5. SwitchInv' BY <1>1, <1>3 DEF SwitchInv
<1>6. SoleInv'
  <2>1. installer = "done" /\ ~(t > instance) BY <1>1, SMT DEF SoleInv, LogTypes, Threads
  <2>3. s \notin {"unborn", "idle", "dead"} => n # 0
    <3>1. dataThread[t].begun \in 0 .. Events BY <1>1, ThreadFields
    <3> QED BY <1>1, <3>1 DEF SoleInv
  <2> SUFFICES ASSUME NEW u \in Threads
               PROVE  /\ u > instance => dataThread'[u] = Unborn
                      /\ dataThread'[u].step \notin {"unborn", "dead"} => u = instance
                      /\ dataThread'[u].step \notin {"unborn", "idle", "dead"}
                             => dataThread'[u].begun # 0
                      /\ dataThread'[u].step = "commit" => Len(logRing) < LogCapacity
    BY <1>3, <2>1 DEF SoleInv, Living, Busy
  <2> QED BY <1>1, <1>2, <2>1, <2>3 DEF SoleInv, Living, Busy
<1>7. PastInv'
  <2> SUFFICES ASSUME NEW r \in Emitted \cup Replayed \cup InRing \cup dropped
               PROVE  Left(r)'
    BY <1>3 DEF PastInv
  <2>1. Left(r) /\ r[1] \in Threads /\ r[2] \in 1 .. Events BY <1>1, Residents DEF PastInv
  <2>2. CASE r[1] # t BY <1>2, <2>1, <2>2 DEF Left, Busy
  <2>3. CASE r[1] = t
    <3>1. dataThread[t].begun \in 0 .. Events BY <1>1, ThreadFields
    <3>2. /\ r[2] <= dataThread[t].begun /\ (Busy(t) => r[2] < dataThread[t].begun)
          /\ r[2] \in Nat
      BY <2>1, <2>3 DEF Left
    <3>3. r[2] <= n /\ ((busy /\ Busy(t)) => r[2] < n) /\ ((busy /\ ~Busy(t)) => r[2] < n)
      <4>1. CASE n = dataThread[t].begun /\ (busy => Busy(t)) BY <3>2, <4>1, SMT
      <4>2. CASE n = dataThread[t].begun + 1 BY <3>1, <3>2, <4>2, SMT
      <4> QED BY <4>1, <4>2, Zenon
    <3> QED BY <1>2, <2>3, <3>3, Zenon DEF Left, Busy
  <2> QED BY <2>2, <2>3
<1>8. ModeInv'
  <2>1. ASSUME NEW u \in Threads
        PROVE  /\ (dataThread[u].step = "sync" => ~Consulted(u))'
               /\ (dataThread[u].step \in {"push", "commit", "count"} => Consulted(u))'
    <3>1. CASE u = t BY <1>2, <1>3, <3>1, Zenon DEF Consulted
    <3>2. CASE u # t BY <1>1, <1>2, <1>3, <3>2, Zenon DEF Consulted, ModeInv
    <3> QED BY <3>1, <3>2
  <2>2. ASSUME NEW r \in Replayed \cup InRing, Living(r[1])'
        PROVE  Consulted(r[1])'
    <3>1. r[1] \in Threads BY <1>1, Residents
    <3>2. CASE r[1] = t
      <4>1. Consulted(t) BY <1>1, <3>2, Zenon DEF ModeInv
      <4>2. s # "dead" BY <1>2, <2>2, <3>2 DEF Living
      <4> QED BY <1>2, <1>3, <3>2, <4>1, <4>2, Zenon DEF Consulted
    <3>3. CASE r[1] # t
      BY <1>1, <1>2, <1>3, <2>2, <3>1, <3>3, Zenon DEF Consulted, Living, ModeInv
    <3> QED BY <3>2, <3>3
  <2> QED BY <1>3, <2>1, <2>2, Zenon DEF ModeInv
<1>9. QueueInv' BY <1>1, <1>3 DEF QueueInv
<1>10. FateInv'
  <2>1. Fated' = Fated BY <1>3 DEF Fated
  <2>2. ASSUME NEW u \in Threads, NEW k \in 1 .. dataThread'[u].begun
        PROVE  <<u, k>> \in Fated \/ (Busy(u)' /\ k = dataThread'[u].begun)
    <3>1. CASE u # t BY <1>1, <1>2, <2>2, <3>1 DEF FateInv, Busy
    <3>2. CASE u = t
      <4>1. dataThread[t].begun \in 0 .. Events BY <1>1, ThreadFields
      <4>2. CASE n = dataThread[t].begun /\ (Busy(t) <=> busy)
        BY <1>1, <1>2, <2>2, <3>2, <4>1, <4>2 DEF FateInv, Busy
      <4>3. CASE n = dataThread[t].begun + 1 /\ ~Busy(t) /\ busy
        <5>1. k = n \/ k \in 1 .. dataThread[t].begun BY <1>2, <2>2, <3>2, <4>1, <4>3
        <5> QED BY <1>1, <1>2, <3>2, <4>3, <5>1 DEF FateInv, Busy
      <4> QED BY <4>2, <4>3
    <3> QED BY <3>1, <3>2
  <2> QED BY <1>1, <1>3, <2>1, <2>2, Zenon DEF FateInv
<1> QED BY <1>4, <1>5, <1>6, <1>7, <1>8, <1>9, <1>10 DEF LogInv
LEMMA QuietThreads ==
  ASSUME LogInv, NEW t \in Threads,
         MarkThread(t) \/ BeginEvent(t) \/ ConsultRouting(t) \/ Reserve(t) \/ ThreadEnds(t)
  PROVE  LogInv'
<1> DEFINE m == dataThread[t].marked  n == dataThread[t].begun
<1>1. LogTypes /\ SoleInv /\ ModeInv BY DEF LogInv
<1>2. m \in BOOLEAN /\ n \in 0 .. Events BY <1>1, ThreadFields
<1>3. /\ UNCHANGED <<switchVars, instance, recordVars>>
      /\ Living(t) /\ t = instance
  <2>1. Living(t)
    BY DEF MarkThread, BeginEvent, ConsultRouting, Reserve, ThreadEnds, ThreadAt, Living
  <2>2. t = instance BY <1>1, <2>1 DEF SoleInv
  <2> QED BY <2>1, <2>2 DEF MarkThread, BeginEvent, ConsultRouting, Reserve, ThreadEnds
<1> USE DEF LogSteps
<1>4. CASE MarkThread(t)
  <2>1. dataThread[t].step = "idle" BY <1>4 DEF MarkThread, ThreadAt
  <2>2. PICK mark \in BOOLEAN : mark = TRUE OBVIOUS
  <2>3. SetThread(t, [dataThread[t] EXCEPT !.marked = mark]) BY <1>4, <2>2 DEF MarkThread
  <2>4. Became(t, "idle", mark, n) BY <1>1, <2>1, <2>3, MarkBecomes
  <2>5. ~Busy(t) /\ (dataThread[t].marked => mark) BY <2>1, <2>2 DEF Busy
  <2>6. dataThread[t].begun = n /\ "idle" \in LogSteps \ {"unborn"} OBVIOUS
  <2> HIDE DEF n
  <2> QED BY <1>2, <1>3, <2>4, <2>5, <2>6, QuietStep
<1>5. CASE BeginEvent(t)
  <2>1. dataThread[t].step = "idle" /\ n + 1 \in 0 .. Events
    BY <1>2, <1>5, LogAssumption DEF BeginEvent, ThreadAt
  <2>2. Became(t, "consult", m, n + 1) BY <1>1, <1>5, <2>1, BeginBecomes DEF BeginEvent
  <2>3. ~Busy(t) BY <2>1 DEF Busy
  <2> QED BY <1>2, <1>3, <2>1, <2>2, <2>3, QuietStep
<1>6. CASE ConsultRouting(t)
  <2> DEFINE s == IF Consulted(t) THEN "push" ELSE "sync"
  <2>1. dataThread[t].step = "consult" /\ s \in {"push", "sync"}
    BY <1>6 DEF ConsultRouting, ThreadAt
  <2>2. (s = "sync" => ~Consulted(t)) /\ (s = "push" => Consulted(t)) OBVIOUS
  <2>3. SetThread(t, [dataThread[t] EXCEPT !.step = s]) BY <1>6 DEF ConsultRouting
  <2> HIDE DEF s
  <2>4. Became(t, s, m, n) BY <1>1, <2>1, <2>3, StepBecomes
  <2>5. Busy(t) BY <2>1 DEF Busy
  <2> QED BY <1>2, <1>3, <2>1, <2>2, <2>4, <2>5, QuietStep DEF Consulted
<1>7. CASE Reserve(t)
  <2> DEFINE s == IF Len(logRing) < LogCapacity THEN "commit" ELSE "count"
  <2>1. dataThread[t].step = "push" /\ s \in {"commit", "count"}
    BY <1>7 DEF Reserve, ThreadAt
  <2>2. s = "commit" => Len(logRing) < LogCapacity OBVIOUS
  <2>3. SetThread(t, [dataThread[t] EXCEPT !.step = s]) BY <1>7 DEF Reserve
  <2> HIDE DEF s
  <2>4. Became(t, s, m, n) BY <1>1, <2>1, <2>3, StepBecomes
  <2>5. Busy(t) /\ Consulted(t) BY <1>1, <2>1 DEF Busy, ModeInv
  <2> QED BY <1>2, <1>3, <2>1, <2>2, <2>4, <2>5, QuietStep DEF Consulted
<1>8. CASE ThreadEnds(t)
  <2>1. dataThread[t].step = "idle" BY <1>8 DEF ThreadEnds, ThreadAt
  <2>2. PICK mark \in BOOLEAN : mark = FALSE OBVIOUS
  <2>3. SetThread(t, [dataThread[t] EXCEPT !.step = "dead", !.marked = mark])
    BY <1>8, <2>2 DEF ThreadEnds
  <2>4. Became(t, "dead", mark, n) BY <1>1, <2>3, EndBecomes
  <2>5. ~Busy(t) BY <2>1 DEF Busy
  <2> QED BY <1>2, <1>3, <2>2, <2>4, <2>5, QuietStep
<1> QED BY <1>4, <1>5, <1>6, <1>7, <1>8

(* StartInstance gives birth to the one thread that lives from then on.    *)
LEMMA InstanceStep ==
  ASSUME LogInv, StartInstance \/ StopInstance
  PROVE  LogInv'
<1>1. LogTypes /\ SwitchInv /\ SoleInv /\ PastInv /\ ModeInv /\ QueueInv /\ FateInv
  BY DEF LogInv
<1>2. /\ UNCHANGED <<routed, installed, producer, replaying, installer>>
      /\ UNCHANGED <<logRing, logDropped, emitted, contained, dropped>>
      /\ InRing' = InRing /\ Emitted' = Emitted /\ Replayed' = Replayed
  BY DEF StartInstance, StopInstance, switchVars, recordVars, InRing, Emitted, Replayed
<1>3. CASE StopInstance
  <2>1. UNCHANGED <<instance, dataThread>> BY <1>3 DEF StopInstance
  <2>2. LogTypes' BY <1>1, <1>2, <2>1 DEF LogTypes
  <2>3. SwitchInv' BY <1>1, <1>2 DEF SwitchInv
  <2>4. SoleInv' BY <1>1, <1>2, <2>1 DEF SoleInv, Living, Busy
  <2>5. PastInv' BY <1>1, <1>2, <2>1 DEF PastInv, Left, Busy
  <2>6. ModeInv' BY <1>1, <1>2, <2>1 DEF ModeInv, Consulted, Living
  <2>7. QueueInv' BY <1>1, <1>2 DEF QueueInv
  <2>8. FateInv' BY <1>1, <1>2, <2>1 DEF FateInv, Fated, Busy
  <2> QED BY <2>2, <2>3, <2>4, <2>5, <2>6, <2>7, <2>8 DEF LogInv
<1>4. CASE StartInstance
  <2> DEFINE t == instance + 1
  <2>1. installer = "done" /\ ThreadJoined /\ t \in Threads /\ instance' = t /\ instance \in Nat
    BY <1>1, <1>4, LogAssumption DEF StartInstance, LogTypes
  <2>2. dataThread' = [dataThread EXCEPT ![t] = [Unborn EXCEPT !.step = "idle"]]
    BY <1>4 DEF StartInstance, SetThread
  <2>3. /\ dataThread[t] = Unborn /\ dataThread[t].begun = 0 /\ Unborn.step = "unborn"
    <3>1. t > instance BY <2>1, SMT
    <3> QED BY <1>1, <2>1, <3>1 DEF SoleInv, Unborn
  <2>5. Became(t, "idle", FALSE, 0)
    <3>1. SetThread(t, [dataThread[t] EXCEPT !.step = "idle"]) BY <2>2, <2>3 DEF SetThread
    <3>2. dataThread[t].marked = FALSE BY <2>3 DEF Unborn
    <3> QED BY <1>1, <2>1, <2>3, <3>1, <3>2, StepBecomes DEF LogSteps
  <2>6. /\ dataThread' \in [Threads -> LogThread]
        /\ dataThread'[t].step = "idle" /\ dataThread'[t].begun = 0
        /\ \A u \in Threads : u # t => dataThread'[u] = dataThread[u]
    BY <2>5 DEF Became
  <2>7. \A u \in Threads : ~Living(u)
    <3>1. ~Living(t) BY <2>3 DEF Living
    <3>2. instance \in Threads => ~Living(instance)
      BY <2>1 DEF ThreadJoined, ThreadAt, Living
    <3> QED BY <1>1, <3>2 DEF SoleInv
  <2>8. \A r \in Replayed \cup InRing \cup Emitted \cup dropped :
            r[1] \in Threads /\ r[1] # t /\ r[2] \in 1 .. Events
    <3>1. ASSUME NEW r \in Emitted \cup Replayed \cup InRing \cup dropped PROVE r[1] # t
      <4>1. r[2] \in 1 .. Events /\ r[2] <= dataThread[r[1]].begun
        BY <1>1, Residents DEF PastInv, Left
      <4> QED BY <2>3, <4>1
    <3> QED BY <1>1, <3>1, Residents
  <2> HIDE DEF t
  <2>9. LogTypes' BY <1>1, <1>2, <2>1, <2>6 DEF LogTypes, Threads
  <2>10. SwitchInv' BY <1>1, <1>2 DEF SwitchInv
  <2>11. SoleInv'
    <3> SUFFICES ASSUME NEW u \in Threads
                 PROVE  /\ u > t => dataThread'[u] = Unborn
                        /\ dataThread'[u].step \notin {"unborn", "dead"} => u = t
                        /\ dataThread'[u].step \in {"unborn", "idle", "dead"}
                        /\ dataThread'[u].step = "commit" => Len(logRing) < LogCapacity
      BY <1>2, <2>1 DEF SoleInv, Living, Busy
    <3>1. CASE u = t BY <2>6, <3>1, <2>1 DEF Threads
    <3>2. CASE u # t
      <4>1. u > t => u > instance BY <2>1, SMT DEF t, Threads
      <4> QED BY <1>1, <2>6, <2>7, <3>2, <4>1 DEF SoleInv, Living
    <3> QED BY <3>1, <3>2
  <2>12. PastInv' BY <1>1, <1>2, <2>6, <2>8 DEF PastInv, Left, Busy
  <2>13. ModeInv'
    <3>1. \A u \in Threads : dataThread'[u].step \notin {"sync", "push", "commit", "count"}
      BY <2>6, <2>7 DEF Living
    <3>2. \A r \in Replayed \cup InRing : ~Living(r[1])' BY <2>6, <2>7, <2>8 DEF Living
    <3> QED BY <1>2, <3>1, <3>2, Zenon DEF ModeInv
  <2>14. QueueInv' BY <1>1, <1>2 DEF QueueInv
  <2>15. FateInv'
    <3>1. \A u \in Threads : \A k \in 1 .. dataThread'[u].begun : u # t BY <2>6
    <3> QED BY <1>1, <1>2, <2>6, <3>1 DEF FateInv, Fated, Busy
  <2> QED BY <2>9, <2>10, <2>11, <2>12, <2>13, <2>14, <2>15 DEF LogInv
<1> QED BY <1>3, <1>4
-----------------------------------------------------------------------------
(* The event of the thread comes to its place.                             *)
LEMMA PlacedStep ==
  ASSUME LogInv, NEW t \in Threads, Busy(t),
         Became(t, "idle", dataThread[t].marked, dataThread[t].begun),
         UNCHANGED <<switchVars, instance, contained>>,
         logRing' \in Seq(Records), emitted' \in Seq(Records), dropped' \subseteq Records,
         InRing \subseteq InRing', Emitted \subseteq Emitted', dropped \subseteq dropped',
         InRing' \cup Emitted' \cup dropped' = InRing \cup Emitted \cup dropped \cup {Record(t)}
  PROVE  /\ LogTypes' /\ SwitchInv' /\ SoleInv' /\ PastInv' /\ Replayed' = Replayed
         /\ \A u \in Threads : \A n \in 1 .. dataThread'[u].begun :
                <<u, n>> \in Fated' \/ (Busy(u)' /\ n = dataThread'[u].begun)
         /\ \A u \in Threads : /\ dataThread'[u].step = "sync" => ~Consulted(u)'
                               /\ dataThread'[u].step \in {"push", "commit", "count"}
                                      => Consulted(u)'
         /\ \A u \in Threads : Living(u)' <=> Living(u)
         /\ \A u \in Threads : Consulted(u)' <=> Consulted(u)
<1>1. LogTypes /\ SwitchInv /\ SoleInv /\ PastInv /\ ModeInv /\ FateInv
  BY DEF LogInv
<1>2. /\ dataThread' \in [Threads -> LogThread]
      /\ dataThread'[t].step = "idle" /\ dataThread'[t].marked = dataThread[t].marked
      /\ dataThread'[t].begun = dataThread[t].begun
      /\ \A u \in Threads : u # t => dataThread'[u] = dataThread[u]
  BY DEF Became
<1>3. /\ UNCHANGED <<routed, installed, producer, replaying, installer, instance, contained>>
      /\ Replayed' = Replayed
  BY DEF switchVars, Replayed
<1>4. LogTypes' BY <1>1, <1>2, <1>3 DEF LogTypes
<1>5. SwitchInv' BY <1>1, <1>3 DEF SwitchInv
<1>6. t = instance /\ installer = "done" /\ Living(t) BY <1>1 DEF SoleInv, Living, Busy
<1>7. SoleInv'
  <2> SUFFICES ASSUME NEW u \in Threads
               PROVE  /\ u > instance => dataThread'[u] = Unborn
                      /\ dataThread'[u].step \notin {"unborn", "dead"}
                             => u = instance /\ installer = "done"
                      /\ dataThread'[u].step \in {"unborn", "idle", "dead"}
    BY <1>3 DEF SoleInv, Living, Busy
  <2>1. CASE u = t
    <3>1. ~(t > instance) BY <1>6, SMT DEF Threads
    <3> QED BY <1>2, <1>6, <2>1, <3>1
  <2>2. CASE u # t BY <1>1, <1>2, <1>6, <2>2 DEF SoleInv, Living
  <2> QED BY <2>1, <2>2
<1>8. PastInv'
  <2> SUFFICES ASSUME NEW r \in Emitted' \cup Replayed \cup InRing' \cup dropped'
               PROVE  Left(r)'
    BY <1>3 DEF PastInv
  <2>1. CASE r = Record(t)
    <3>1. r[1] = t /\ r[2] = dataThread[t].begun BY <2>1 DEF Record
    <3>2. dataThread[t].begun \in 0 .. Events BY <1>1, ThreadFields
    <3> QED BY <1>2, <3>1, <3>2 DEF Left, Busy
  <2>2. CASE r # Record(t)
    <3>1. r \in Emitted \cup Replayed \cup InRing \cup dropped BY <2>2
    <3>2. Left(r) /\ r[1] \in Threads BY <1>1, <3>1, Residents DEF PastInv
    <3>3. CASE r[1] = t BY <1>2, <3>2, <3>3 DEF Left, Busy
    <3>4. CASE r[1] # t BY <1>2, <3>2, <3>4 DEF Left, Busy
    <3> QED BY <3>3, <3>4
  <2> QED BY <2>1, <2>2
<1>9. ASSUME NEW u \in Threads, NEW n \in 1 .. dataThread'[u].begun
      PROVE  <<u, n>> \in Fated' \/ (Busy(u)' /\ n = dataThread'[u].begun)
  <2>1. Fated \cup {Record(t)} \subseteq Fated' BY <1>3 DEF Fated
  <2>2. CASE u # t BY <1>1, <1>2, <1>9, <2>1, <2>2 DEF FateInv, Busy
  <2>3. CASE u = t BY <1>1, <1>2, <1>9, <2>1, <2>3 DEF FateInv, Record
  <2> QED BY <2>2, <2>3
<1>10. ASSUME NEW u \in Threads
       PROVE  /\ dataThread'[u].step = "sync" => ~Consulted(u)'
              /\ dataThread'[u].step \in {"push", "commit", "count"} => Consulted(u)'
              /\ Living(u)' <=> Living(u)
              /\ Consulted(u)' <=> Consulted(u)
  <2>1. CASE u = t
    <3>1. Consulted(u)' <=> Consulted(u) BY <1>2, <1>3, <2>1, Zenon DEF Consulted
    <3>2. Living(u)' <=> Living(u) BY <1>2, <1>6, <2>1 DEF Living
    <3> QED BY <1>2, <2>1, <3>1, <3>2
  <2>2. CASE u # t BY <1>1, <1>2, <1>3, <2>2, Zenon DEF Consulted, Living, ModeInv
  <2> QED BY <2>1, <2>2
<1> QED BY <1>3, <1>4, <1>5, <1>7, <1>8, <1>9, <1>10, Zenon

(* What is busy in t comes behind all that t has left.                     *)
LEMMA RecordIsLast ==
  ASSUME LogInv, NEW t \in Threads, Busy(t)
  PROVE  /\ Record(t) \in Records
         /\ Before(Emitted \cup Replayed \cup InRing, {Record(t)})
         /\ Record(t) \notin dropped
<1>1. LogTypes /\ PastInv BY DEF LogInv
<1>2. \A r \in Emitted \cup Replayed \cup InRing \cup dropped :
          r[1] = t => r[2] \in 1 .. Events /\ r[2] < dataThread[t].begun
  BY <1>1, Residents DEF PastInv, Left
<1>3. dataThread[t].begun \in 0 .. Events BY <1>1, ThreadFields
<1>4. dataThread[t].begun # 0
  BY DEF LogInv, SoleInv
<1> QED BY <1>2, <1>3, <1>4 DEF Record, Records, Before
LEMMA PlacingSteps ==
  ASSUME LogInv, NEW t \in Threads, DispatchSync(t) \/ Commit(t) \/ CountDrop(t)
  PROVE  LogInv'
<1> DEFINE r == Record(t)
<1>1. LogTypes /\ SoleInv /\ ModeInv /\ QueueInv /\ FateInv BY DEF LogInv
<1>2. /\ Busy(t) /\ Living(t)
      /\ UNCHANGED <<switchVars, instance, contained>>
      /\ SetThread(t, [dataThread[t] EXCEPT !.step = "idle"])
  BY DEF DispatchSync, Commit, CountDrop, ThreadAt, Busy, Living
<1>3. Became(t, "idle", dataThread[t].marked, dataThread[t].begun)
  BY <1>1, <1>2, StepBecomes DEF LogSteps
<1>4. r \in Records /\ Before(Emitted \cup Replayed \cup InRing, {r}) /\ r \notin dropped
  BY <1>1, <1>2, RecordIsLast
<1>5. /\ emitted \in Seq(Records) /\ logRing \in Seq(Records) /\ dropped \subseteq Records
      /\ Emitted = Items(emitted) /\ Emitted' = Items(emitted')
      /\ InRing = Items(logRing) /\ InRing' = Items(logRing')
  BY <1>1, Residents DEF LogTypes, Items, Emitted, InRing
<1>r. r[1] = t BY DEF Record
<1> HIDE DEF r
<1>6. CASE DispatchSync(t)
  <2>1. /\ emitted' = Append(emitted, r) /\ logRing' = logRing /\ InRing' = InRing
        /\ dropped' = dropped /\ logDropped' = logDropped /\ dataThread[t].step = "sync"
    BY <1>6 DEF DispatchSync, ThreadAt, InRing, r
  <2>2. emitted' \in Seq(Records) /\ Emitted' = Emitted \cup {r}
    BY <1>4, <1>5, <2>1, ItemsAppend
  <2>3. /\ LogTypes' /\ SwitchInv' /\ SoleInv' /\ PastInv' /\ Replayed' = Replayed
        /\ \A u \in Threads : \A n \in 1 .. dataThread'[u].begun :
               <<u, n>> \in Fated' \/ (Busy(u)' /\ n = dataThread'[u].begun)
        /\ \A u \in Threads : /\ dataThread'[u].step = "sync" => ~Consulted(u)'
                              /\ dataThread'[u].step \in {"push", "commit", "count"}
                                     => Consulted(u)'
        /\ \A u \in Threads : Living(u)' <=> Living(u)
        /\ \A u \in Threads : Consulted(u)' <=> Consulted(u)
    BY <1>2, <1>3, <1>5, <2>1, <2>2, PlacedStep DEF r
  <2>4. \A b \in Replayed \cup InRing : b[1] # t
    BY <1>1, <1>2, <2>1, Zenon DEF ModeInv
  <2>5. QueueInv'
    <3>1. Ascending(emitted') BY <1>1, <1>4, <1>5, <2>1, AscendingAppend DEF QueueInv, Before
    <3>2. Before({r}, Replayed) /\ Before({r}, InRing) BY <2>4, <1>r, Zenon DEF Before
    <3> QED BY <1>1, <2>1, <2>2, <2>3, <3>1, <3>2 DEF QueueInv, Before
  <2>6. ModeInv'
    <3>1. \A b \in Replayed \cup InRing : b[1] \in Threads BY <1>1, Residents
    <3> QED BY <1>1, <2>1, <2>3, <3>1, Zenon DEF ModeInv
  <2>7. FateInv' BY <1>1, <2>1, <2>3, Zenon DEF FateInv
  <2> QED BY <2>3, <2>5, <2>6, <2>7 DEF LogInv
<1>7. CASE Commit(t)
  <2>1. /\ logRing' = Append(logRing, r) /\ emitted' = emitted /\ Emitted' = Emitted
        /\ dropped' = dropped /\ logDropped' = logDropped /\ dataThread[t].step = "commit"
    BY <1>7 DEF Commit, ThreadAt, Emitted, r
  <2>2. /\ logRing' \in Seq(Records) /\ InRing' = InRing \cup {r}
        /\ Len(logRing') = Len(logRing) + 1
    BY <1>4, <1>5, <2>1, ItemsAppend
  <2>3. /\ LogTypes' /\ SwitchInv' /\ SoleInv' /\ PastInv' /\ Replayed' = Replayed
        /\ \A u \in Threads : \A n \in 1 .. dataThread'[u].begun :
               <<u, n>> \in Fated' \/ (Busy(u)' /\ n = dataThread'[u].begun)
        /\ \A u \in Threads : /\ dataThread'[u].step = "sync" => ~Consulted(u)'
                              /\ dataThread'[u].step \in {"push", "commit", "count"}
                                     => Consulted(u)'
        /\ \A u \in Threads : Living(u)' <=> Living(u)
        /\ \A u \in Threads : Consulted(u)' <=> Consulted(u)
    BY <1>2, <1>3, <1>5, <2>1, <2>2, PlacedStep DEF r
  <2>4. Consulted(t) BY <1>1, <2>1 DEF ModeInv
  <2>5. QueueInv'
    <3>1. Ascending(logRing') BY <1>1, <1>4, <1>5, <2>1, AscendingAppend DEF QueueInv, Before
    <3>2. Before(Emitted, {r}) /\ Before(Replayed, {r}) BY <1>4, Zenon DEF Before
    <3>3. Len(logRing') <= LogCapacity
      <4>1. Len(logRing) < LogCapacity /\ Len(logRing) \in Nat BY <1>1, <1>5, <2>1 DEF SoleInv
      <4> QED BY <2>2, <4>1, LogAssumption
    <3> QED BY <1>1, <2>1, <2>2, <2>3, <3>1, <3>2, <3>3 DEF QueueInv, Before
  <2>6. ModeInv'
    <3>1. \A b \in Replayed \cup InRing : b[1] \in Threads BY <1>1, Residents
    <3>2. \A b \in Replayed' \cup InRing' : b \in Replayed \cup InRing \/ b = r BY <2>2, <2>3
    <3> QED BY <1>1, <1>r, <2>3, <2>4, <3>1, <3>2, Zenon DEF ModeInv
  <2>7. FateInv' BY <1>1, <2>1, <2>3, Zenon DEF FateInv
  <2> QED BY <2>3, <2>5, <2>6, <2>7 DEF LogInv
<1>8. CASE CountDrop(t)
  <2>1. /\ logRing' = logRing /\ emitted' = emitted /\ Emitted' = Emitted /\ InRing' = InRing
        /\ dropped' = dropped \cup {r} /\ logDropped' = logDropped + 1
    BY <1>8 DEF CountDrop, Emitted, InRing, r
  <2>2. dropped' \subseteq Records BY <1>4, <1>5, <2>1
  <2>3. /\ LogTypes' /\ SwitchInv' /\ SoleInv' /\ PastInv' /\ Replayed' = Replayed
        /\ \A u \in Threads : \A n \in 1 .. dataThread'[u].begun :
               <<u, n>> \in Fated' \/ (Busy(u)' /\ n = dataThread'[u].begun)
        /\ \A u \in Threads : /\ dataThread'[u].step = "sync" => ~Consulted(u)'
                              /\ dataThread'[u].step \in {"push", "commit", "count"}
                                     => Consulted(u)'
        /\ \A u \in Threads : Living(u)' <=> Living(u)
        /\ \A u \in Threads : Consulted(u)' <=> Consulted(u)
    BY <1>2, <1>3, <1>5, <2>1, <2>2, PlacedStep DEF r
  <2>4. QueueInv' BY <1>1, <2>1, <2>3 DEF QueueInv
  <2>5. ModeInv'
    <3>1. \A b \in Replayed \cup InRing : b[1] \in Threads BY <1>1, Residents
    <3> QED BY <1>1, <2>1, <2>3, <3>1, Zenon DEF ModeInv
  <2>6. IsFiniteSet(dropped') /\ Cardinality(dropped') = Cardinality(dropped) + 1
    BY <1>1, <1>4, <2>1, FS_AddElement DEF FateInv
  <2>7. FateInv'
    <3>1. logDropped' = Cardinality(dropped)' BY <1>1, <2>1, <2>6 DEF FateInv
    <3> QED BY <2>3, <2>6, <3>1, Zenon DEF FateInv
  <2> QED BY <2>3, <2>4, <2>5, <2>7 DEF LogInv
<1> QED BY <1>6, <1>7, <1>8

-----------------------------------------------------------------------------
(* The drainer moves the records along, the threads rest.                  *)
LEMMA DrainStep ==
  ASSUME LogInv, Drain
  PROVE  LogInv'
<1>1. LogTypes /\ SwitchInv /\ SoleInv /\ PastInv /\ ModeInv /\ QueueInv /\ FateInv
  BY DEF LogInv
<1>2. UNCHANGED <<routed, installed, producer, installer, threadVars, logDropped, dropped>>
  BY DEF Drain, PopRecord, EmitRecord
<1>3. /\ UNCHANGED <<dataThread, instance>>
      /\ \A u \in Threads : (Living(u)' <=> Living(u)) /\ (Busy(u)' <=> Busy(u))
                            /\ (Consulted(u)' <=> Consulted(u))
  BY <1>2 DEF threadVars, Living, Busy, Consulted
<1>4. /\ emitted \in Seq(Records) /\ logRing \in Seq(Records)
      /\ Emitted = Items(emitted) /\ Emitted' = Items(emitted')
      /\ InRing = Items(logRing) /\ InRing' = Items(logRing')
      /\ contained \subseteq Records
  BY <1>1, Residents DEF LogTypes, Items, Emitted, InRing
<1>5. \A r \in Records : Items(<<r>>) = {r}
  BY DEF Items
<1>6. /\ Replayed' \cup InRing' \subseteq Replayed \cup InRing
      /\ Emitted' \cup Replayed' \cup InRing' \subseteq Emitted \cup Replayed \cup InRing
      /\ Fated \subseteq Fated'
      /\ Len(logRing') <= Len(logRing) /\ Len(logRing) \in Nat /\ Len(logRing') \in Nat
      /\ LogTypes' /\ QueueInv'
  <2>1. CASE PopRecord
    <3>1. /\ replaying = <<>> /\ logRing # <<>> /\ replaying' = <<Head(logRing)>>
          /\ logRing' = Tail(logRing) /\ emitted' = emitted /\ contained' = contained
          /\ Emitted' = Emitted
      BY <2>1 DEF PopRecord, Emitted
    <3>2. /\ Tail(logRing) \in Seq(Records) /\ Head(logRing) \in Records
          /\ Len(Tail(logRing)) = Len(logRing) - 1 /\ Len(logRing) \in Nat
          /\ Len(Tail(logRing)) \in Nat
          /\ InRing = InRing' \cup {Head(logRing)}
      BY <1>4, <3>1, ItemsTail
    <3>3. Replayed = {} /\ Replayed' = {Head(logRing)}
      BY <1>5, <3>1, <3>2 DEF Replayed, Items
    <3>4. LogTypes' BY <1>1, <1>2, <1>3, <3>1, <3>2 DEF LogTypes
    <3>5. QueueInv'
      <4>1. Ascending(logRing') /\ Before({Head(logRing)}, InRing')
        BY <1>1, <1>4, <3>1, AscendingTail DEF QueueInv
      <4>2. Len(logRing') <= LogCapacity BY <1>1, <3>1, <3>2, LogAssumption DEF QueueInv
      <4> QED BY <1>1, <3>1, <3>2, <3>3, <4>1, <4>2 DEF QueueInv, Before
    <3>6. Fated \subseteq Fated' BY <1>2, <3>1, <3>2, <3>3 DEF Fated
    <3>7. Len(logRing') <= Len(logRing) BY <3>1, <3>2
    <3> QED BY <3>1, <3>2, <3>3, <3>4, <3>5, <3>6, <3>7
  <2>2. CASE EmitRecord
    <3>1. PICK r \in Records : replaying = <<r>>
      BY <1>1, <2>2 DEF EmitRecord, LogTypes
    <3>2. /\ replaying' = <<>> /\ logRing' = logRing /\ InRing' = InRing
          /\ \/ emitted' = emitted \o <<r>> /\ contained' = contained
             \/ contained' = contained \cup {r} /\ emitted' = emitted
      BY <2>2, <3>1 DEF EmitRecord, InRing
    <3>3. Replayed = {r} /\ Replayed' = {} BY <1>5, <3>1, <3>2 DEF Replayed, Items
    <3>4. CASE emitted' = emitted \o <<r>> /\ contained' = contained
      <4>1. emitted' = Append(emitted, r) BY <1>4, <3>4
      <4>2. emitted' \in Seq(Records) /\ Emitted' = Emitted \cup {r}
        BY <1>4, <4>1, ItemsAppend
      <4>3. LogTypes' BY <1>1, <1>2, <1>3, <3>2, <3>4, <4>2 DEF LogTypes
      <4>4. Ascending(emitted') BY <1>1, <1>4, <3>3, <4>1, AscendingAppend DEF QueueInv
      <4>5. QueueInv' BY <1>1, <3>2, <3>3, <4>2, <4>4 DEF QueueInv, Before
      <4>6. Fated \subseteq Fated' BY <1>2, <3>2, <3>3, <3>4, <4>2 DEF Fated
      <4> QED BY <1>4, <3>2, <3>3, <4>2, <4>3, <4>5, <4>6
    <3>5. CASE contained' = contained \cup {r} /\ emitted' = emitted
      <4>1. Emitted' = Emitted BY <3>5 DEF Emitted
      <4>2. LogTypes' BY <1>1, <1>2, <1>3, <3>2, <3>5 DEF LogTypes
      <4>3. QueueInv' BY <1>1, <3>2, <3>3, <3>5, <4>1 DEF QueueInv, Before
      <4>4. Fated \subseteq Fated' BY <1>2, <3>2, <3>3, <3>5, <4>1 DEF Fated
      <4> QED BY <1>4, <3>2, <3>3, <4>1, <4>2, <4>3, <4>4
    <3> QED BY <3>2, <3>4, <3>5
  <2> QED BY <2>1, <2>2 DEF Drain
<1>7. SwitchInv' BY <1>1, <1>2 DEF SwitchInv
<1>8. SoleInv'
  <2>1. Len(logRing) < LogCapacity => Len(logRing') < LogCapacity BY <1>6, LogAssumption
  <2> QED BY <1>1, <1>2, <1>3, <2>1, Zenon DEF SoleInv
<1>9. PastInv'
  <2>1. \A r \in Emitted \cup Replayed \cup InRing \cup dropped : r[1] \in Threads
    BY <1>1, Residents
  <2>2. ASSUME NEW r \in Emitted' \cup Replayed' \cup InRing' \cup dropped'
        PROVE  Left(r)'
    <3>1. r \in Emitted \cup Replayed \cup InRing \cup dropped BY <1>2, <1>6
    <3> QED BY <1>1, <1>3, <2>1, <3>1 DEF PastInv, Left
  <2> QED BY <2>2 DEF PastInv
<1>10. ModeInv'
  <2>1. \A r \in Replayed \cup InRing : r[1] \in Threads BY <1>1, Residents
  <2> QED BY <1>1, <1>3, <1>6, <2>1, Zenon DEF ModeInv
<1>11. FateInv' BY <1>1, <1>2, <1>3, <1>6, Zenon DEF FateInv
<1> QED BY <1>6, <1>7, <1>8, <1>9, <1>10, <1>11 DEF LogInv

LEMMA LogInductive == LogInv /\ [LogNext]_logVars => LogInv'
<1> SUFFICES ASSUME LogInv, [LogNext]_logVars PROVE LogInv'
  OBVIOUS
<1>1. CASE LogNext
  BY <1>1, SwitchStep, InstanceStep, QuietThreads, PlacingSteps, DrainStep
     DEF LogNext, LogEvent
<1>2. CASE UNCHANGED logVars
  BY <1>2 DEF logVars, switchVars, threadVars, recordVars, LogInv, LogTypes, SwitchInv, SoleInv,
     PastInv, ModeInv, QueueInv, FateInv, Left, Living, Busy, Consulted, Fated, Emitted,
     Replayed, InRing
<1> QED BY <1>1, <1>2

LEMMA LogInvIsEnough == LogInv => LogTypeOK /\ SingleProducer /\ EveryEventAccounted
<1> SUFFICES ASSUME LogInv PROVE LogTypeOK /\ SingleProducer /\ EveryEventAccounted
  OBVIOUS
<1>1. LogTypes /\ SwitchInv /\ SoleInv /\ QueueInv /\ FateInv BY DEF LogInv
<1>2. LogTypeOK
  <2>1. routed => installed /\ producer BY <1>1, Zenon DEF SwitchInv
  <2>2. InRing \cup Emitted \cup contained \cup dropped \subseteq Records BY <1>1, Residents
  <2>3. routed \in BOOLEAN /\ installed \in BOOLEAN /\ producer \in BOOLEAN
    BY <1>1, Zenon DEF SwitchInv
  <2> QED BY <1>1, <2>1, <2>2, <2>3 DEF LogTypeOK, QueueInv
<1>3. SingleProducer
  <2>1. Pushing \subseteq {instance} BY <1>1 DEF Pushing, SoleInv, Living
  <2>2. IsFiniteSet({instance}) /\ Cardinality({instance}) = 1 BY FS_Singleton
  <2>3. Cardinality(Pushing) <= Cardinality({instance}) BY <2>1, <2>2, FS_Subset
  <2> QED BY <2>2, <2>3 DEF SingleProducer
<1>4. EveryEventAccounted
  <2>1. Ascending(emitted) BY <1>1 DEF QueueInv
  <2>2. ASSUME NEW t \in Threads, Busy(t) PROVE <<t, dataThread[t].begun>> \in Underway
    BY <2>2 DEF Underway, Record, Busy
  <2>3. \A t \in Threads : \A n \in 1 .. dataThread[t].begun :
            <<t, n>> \in InRing \cup Emitted \cup Replayed \cup contained \cup dropped
                             \cup Underway
    BY <1>1, <2>2 DEF FateInv, Fated
  <2> QED BY <1>1, <2>1, <2>3, Zenon DEF EveryEventAccounted, Ascending, FateInv
<1> QED BY <1>2, <1>3, <1>4

-----------------------------------------------------------------------------
(* The path from capture to playback.                                      *)

Pairs == {<<l, r>> : l \in Channels, r \in Channels}

PathTypes ==
    /\ frontIndex \in {0, 1} /\ writing \in BOOLEAN /\ muted \in Mutes
    /\ bridgeGen \in Nat \ {0} /\ consumedGen \in Nat /\ lastGen \in Nat /\ played \in Nat
    /\ bridgeBuffers \in [{0, 1} -> [gen : Nat, frames : Nat]]
    /\ player \in {"idle", "dequeue", "left", "right", "stamp"}
    /\ source.gen \in Nat /\ source.frames \in Nat
    /\ captured \in {NoPair} \cup Pairs

(* The bridge is written only where the reader is not behind.              *)
BridgeInv ==
    /\ bridgeBuffers[frontIndex].gen = bridgeGen
    /\ consumedGen <= bridgeGen /\ bridgeGen <= consumedGen + 1
    /\ lastGen <= bridgeGen /\ played <= lastGen
    /\ writing => bridgeGen = consumedGen

(* The block in the hands of the playback callback stays in its buffer: at *)
(* most one block is published past it, and that one in the other buffer.  *)
Playing == player # "idle" /\ source.gen # 0
HeldInv ==
    /\ source = NoBlock \/ source.gen # 0
    /\ player \in {"left", "right", "stamp"} => source.gen # 0
    /\ Playing =>
           /\ source.gen = consumedGen /\ source.gen = lastGen /\ played < source.gen
           /\ source.index \in {0, 1} /\ bridgeBuffers[source.index].gen = source.gen
           /\ bridgeGen = source.gen => frontIndex = source.index
           /\ bridgeGen # source.gen => frontIndex # source.index
    /\ copied \subseteq {source.gen}

(* What has been accepted stays accepted, and what was copied is there.    *)
BlockBytes == source.frames * FrameBytes
Delivered(s) == sound[s] = Filled(handed[s], BlockBytes, "audio")
HandedInv ==
    /\ writing => captured # NoPair
    /\ captured # NoPair => CaptureAccepts(captured)
    /\ player = "dequeue" => handed = NoPair
    /\ player \in {"left", "right", "stamp"} =>
           /\ handed \in Pairs /\ sound = [s \in Sides |-> sound[s]] /\ playWindow = <<0, 0>>
           /\ \A s \in Sides : BlockBytes <= handed[s].max
    /\ player \in {"right", "stamp"} => Delivered(1)
    /\ player = "stamp" => Delivered(2)

PathInv == PathTypes /\ BridgeInv /\ HeldInv /\ HandedInv /\ NothingStalePlayed

-----------------------------------------------------------------------------
LEMMA BytesCount == ASSUME NEW m \in Nat, NEW n \in Nat PROVE m * n \in Nat
  OBVIOUS

LEMMA ChannelTypes ==
  ASSUME NEW c \in Channels
  PROVE  /\ c.at \in Nat /\ c.max \in Nat /\ c.offset \in Nat /\ c.size \in Nat
         /\ c.chunk \in {"valid", "absent", "malformed"}
         /\ Clearable(c) \in Nat /\ Clearable(c) <= c.max
<1>1. /\ c.at \in Nat /\ c.max \in Nat /\ c.offset \in Nat /\ c.size \in Nat
      /\ c.chunk \in {"valid", "absent", "malformed"} /\ FrameBytes \in Nat /\ MaxFrames \in Nat
  BY PlaybackAssumption
<1>2. Capacity \in Nat BY <1>1, BytesCount DEF Capacity
<1>3. Clearable(c) \in {0, Least(c.max, Capacity)} BY Zenon DEF Clearable
<1>4. Least(c.max, Capacity) \in Nat /\ Least(c.max, Capacity) <= c.max BY <1>1, <1>2 DEF Least
<1> QED BY <1>1, <1>3, <1>4

LEMMA AcceptedFits ==
  ASSUME NEW l \in Channels, NEW r \in Channels, NEW n \in Nat,
         PairAccepted(<<l, r>>, [s \in Sides |-> WindowAt(0, n)])
  PROVE  n <= l.max /\ n <= r.max
<1>1. ChannelFits(l, 0, n) /\ ChannelFits(r, 0, n)
  BY DEF PairAccepted, WindowAt, Sides
<1>2. l.max \in Nat /\ r.max \in Nat /\ FrameBytes \in Nat /\ MaxFrames \in Nat
  BY ChannelTypes, PlaybackAssumption
<1>3. Capacity \in Nat BY <1>2, BytesCount DEF Capacity
<1>4. 0 + n <= Least(l.max, Capacity) /\ 0 + n <= Least(r.max, Capacity)
  BY <1>1, Zenon DEF ChannelFits
<1> QED BY <1>2, <1>3, <1>4 DEF Least

LEMMA PathInitHolds == PathInit => PathInv
<1> SUFFICES ASSUME PathInit PROVE PathInv
  OBVIOUS
<1> USE DEF PathInit
<1>1. PathTypes
  <2>1. bridgeBuffers \in [{0, 1} -> [gen : Nat, frames : Nat]] BY DEF NoBlock
  <2>2. source.gen = 0 /\ source.frames = 0 BY DEF NoBlock
  <2>3. /\ frontIndex \in {0, 1} /\ writing \in BOOLEAN /\ muted \in Mutes
        /\ captured \in {NoPair} \cup Pairs
    BY Zenon DEF Mutes
  <2> QED BY <2>1, <2>2, <2>3 DEF PathTypes
<1>2. BridgeInv BY DEF BridgeInv
<1>3. HeldInv BY DEF HeldInv, Playing
<1>4. HandedInv BY DEF HandedInv
<1>5. NothingStalePlayed BY DEF NothingStalePlayed, NoPair
<1> QED BY <1>1, <1>2, <1>3, <1>4, <1>5 DEF PathInv

LEMMA CaptureStep ==
  ASSUME PathInv, BeginCapture \/ PublishBlock \/ SetMute
  PROVE  PathInv'
<1>1. PathTypes /\ BridgeInv /\ HeldInv /\ HandedInv /\ NothingStalePlayed BY DEF PathInv
<1>2. UNCHANGED playVars BY DEF BeginCapture, PublishBlock, SetMute
<1>3. /\ UNCHANGED <<player, lastGen, source, consumedGen, handed, sound, playWindow, copied,
                     played>>
      /\ BlockBytes' = BlockBytes
  BY <1>2 DEF playVars, BlockBytes
<1>4. NothingStalePlayed' BY <1>1, <1>3 DEF NothingStalePlayed
<1>5. ASSUME captured' # NoPair => CaptureAccepts(captured'), writing' => captured' # NoPair
      PROVE  HandedInv'
  BY <1>1, <1>3, <1>5 DEF HandedInv, Delivered
<1>6. CASE BeginCapture
  <2>1. PICK l \in Channels, r \in Channels :
          /\ CaptureAccepts(<<l, r>>)
          /\ IF ReaderBehind
             THEN UNCHANGED <<bridgeBuffers, writing, captured>>
             ELSE /\ writing' = TRUE /\ captured' = <<l, r>>
                  /\ bridgeBuffers' = [bridgeBuffers EXCEPT ![1 - frontIndex] = NoBlock]
    BY <1>6 DEF BeginCapture
  <2>2. UNCHANGED <<frontIndex, bridgeGen, muted>> /\ ~writing BY <1>6 DEF BeginCapture
  <2>3. CASE ReaderBehind
    <3>1. UNCHANGED <<bridgeBuffers, writing, captured>> BY <2>1, <2>3
    <3>2. PathTypes' BY <1>1, <1>3, <2>2, <3>1 DEF PathTypes
    <3>3. BridgeInv' BY <1>1, <1>3, <2>2, <3>1 DEF BridgeInv
    <3>4. HeldInv' BY <1>1, <1>3, <2>2, <3>1 DEF HeldInv, Playing
    <3>5. (captured' # NoPair => CaptureAccepts(captured')) /\ (writing' => captured' # NoPair)
      BY <1>1, <3>1 DEF HandedInv
    <3> QED BY <1>4, <1>5, <3>2, <3>3, <3>4, <3>5 DEF PathInv
  <2>4. CASE ~ReaderBehind
    <3>1. /\ writing' = TRUE /\ captured' = <<l, r>>
          /\ bridgeBuffers' = [bridgeBuffers EXCEPT ![1 - frontIndex] = NoBlock]
      BY <2>1, <2>4
    <3>2. /\ bridgeBuffers' \in [{0, 1} -> [gen : Nat, frames : Nat]]
          /\ bridgeBuffers'[frontIndex] = bridgeBuffers[frontIndex]
      <4>1. NoBlock \in [gen : Nat, frames : Nat] BY DEF NoBlock
      <4>2. frontIndex \in {0, 1} /\ 1 - frontIndex \in {0, 1} /\ 1 - frontIndex # frontIndex
        BY <1>1 DEF PathTypes
      <4> QED BY <1>1, <3>1, <4>1, <4>2 DEF PathTypes
    <3>3. bridgeGen = consumedGen BY <1>1, <2>4 DEF ReaderBehind, BridgeInv, PathTypes
    <3>4. PathTypes' BY <1>1, <1>3, <2>2, <3>1, <3>2 DEF PathTypes, Pairs
    <3>5. BridgeInv' BY <1>1, <1>3, <2>2, <3>2, <3>3 DEF BridgeInv
    <3>6. HeldInv'
      <4>1. Playing => source.index = frontIndex BY <1>1, <3>3 DEF HeldInv
      <4> QED BY <1>1, <1>3, <2>2, <3>2, <4>1 DEF HeldInv, Playing
    <3>7. CaptureAccepts(captured') /\ captured' # NoPair BY <2>1, <3>1 DEF NoPair
    <3> QED BY <1>4, <1>5, <3>4, <3>5, <3>6, <3>7 DEF PathInv
  <2> QED BY <2>3, <2>4
<1>7. CASE PublishBlock
  <2> DEFINE block == [gen |-> bridgeGen + 1,
                       frames |-> CaptureWindow(captured[1]).size \div FrameBytes]
  <2>1. /\ writing /\ writing' = FALSE /\ captured' = NoPair
        /\ bridgeBuffers' = [bridgeBuffers EXCEPT ![1 - frontIndex] = block]
        /\ frontIndex' = 1 - frontIndex /\ bridgeGen' = bridgeGen + 1 /\ muted' = muted
    BY <1>7 DEF PublishBlock
  <2>2. block \in [gen : Nat, frames : Nat] /\ block.gen = bridgeGen + 1
    <3>1. bridgeGen + 1 \in Nat BY <1>1 DEF PathTypes
    <3>2. CaptureWindow(captured[1]).size \div FrameBytes \in Nat
      <4>1. captured[1] \in Channels
        BY <1>1, <2>1 DEF HandedInv, PathTypes, Pairs
      <4>2. CaptureWindow(captured[1]).size \in Nat
        BY <4>1, ChannelTypes DEF CaptureWindow, WindowAt
      <4> QED BY <4>2, PlaybackAssumption
    <3> QED BY <3>1, <3>2
  <2> HIDE DEF block
  <2>3. frontIndex \in {0, 1} /\ 1 - frontIndex \in {0, 1} /\ 1 - frontIndex # frontIndex
    BY <1>1 DEF PathTypes
  <2>4. /\ bridgeBuffers' \in [{0, 1} -> [gen : Nat, frames : Nat]]
        /\ bridgeBuffers'[frontIndex] = bridgeBuffers[frontIndex]
        /\ bridgeBuffers'[1 - frontIndex] = block
    BY <1>1, <2>1, <2>2, <2>3 DEF PathTypes
  <2>5. bridgeGen = consumedGen BY <1>1, <2>1 DEF BridgeInv
  <2>6. PathTypes'
    <3>2. frontIndex' \in {0, 1} BY <2>1, <2>3
    <3>3. writing' \in BOOLEAN BY <2>1, Zenon
    <3>4. captured' \in {NoPair} \cup Pairs BY <2>1
    <3>5. muted' \in Mutes BY <1>1, <2>1, Zenon DEF PathTypes
    <3>6. bridgeBuffers' \in [{0, 1} -> [gen : Nat, frames : Nat]] BY <2>4
    <3>7. /\ bridgeGen' \in Nat \ {0} /\ consumedGen' \in Nat /\ lastGen' \in Nat
          /\ played' \in Nat /\ player' \in {"idle", "dequeue", "left", "right", "stamp"}
          /\ source'.gen \in Nat /\ source'.frames \in Nat
      BY <1>1, <1>3, <2>1 DEF PathTypes
    <3> QED BY <3>2, <3>3, <3>4, <3>5, <3>6, <3>7, Zenon DEF PathTypes
  <2>7. BridgeInv'
    <3>1. bridgeBuffers'[frontIndex'].gen = bridgeGen'
      <4>1. frontIndex' = 1 - frontIndex BY <2>1
      <4>2. bridgeBuffers'[frontIndex'] = block BY <2>4, <4>1, Zenon
      <4>3. block.gen = bridgeGen' BY <2>1, <2>2
      <4> QED BY <4>2, <4>3
    <3>2. /\ bridgeGen \in Nat /\ lastGen \in Nat /\ played \in Nat
          /\ lastGen <= bridgeGen /\ played <= lastGen
      BY <1>1 DEF PathTypes, BridgeInv
    <3>3. consumedGen <= bridgeGen' /\ bridgeGen' <= consumedGen + 1 /\ lastGen <= bridgeGen'
      BY <2>1, <2>5, <3>2, SMT
    <3> QED BY <1>3, <2>1, <3>1, <3>2, <3>3 DEF BridgeInv
  <2>8. HeldInv'
    <3>1. Playing => source.index = frontIndex BY <1>1, <2>5 DEF HeldInv
    <3>2. bridgeGen + 1 # bridgeGen BY <1>1 DEF PathTypes
    <3> QED BY <1>1, <1>3, <2>1, <2>3, <2>4, <2>5, <3>1, <3>2 DEF HeldInv, Playing
  <2> QED BY <1>4, <1>5, <2>1, <2>6, <2>7, <2>8 DEF PathInv
<1>8. CASE SetMute
  <2>1. UNCHANGED <<bridgeBuffers, frontIndex, bridgeGen, writing, captured>> /\ muted' \in Mutes
    BY <1>8 DEF SetMute, bridgeVars
  <2>2. PathTypes' BY <1>1, <1>3, <2>1 DEF PathTypes
  <2>3. BridgeInv' BY <1>1, <1>3, <2>1 DEF BridgeInv
  <2>4. HeldInv' BY <1>1, <1>3, <2>1 DEF HeldInv, Playing
  <2>5. (captured' # NoPair => CaptureAccepts(captured')) /\ (writing' => captured' # NoPair)
    BY <1>1, <2>1 DEF HandedInv
  <2> QED BY <1>4, <1>5, <2>2, <2>3, <2>4, <2>5 DEF PathInv
<1> QED BY <1>6, <1>7, <1>8
-----------------------------------------------------------------------------
(* The playback callback: the bridge is left alone.                        *)
LEMMA PlayFrame ==
  ASSUME PathInv, UNCHANGED bridgeVars, UNCHANGED muted
  PROVE  /\ bridgeBuffers' = bridgeBuffers /\ frontIndex' = frontIndex /\ bridgeGen' = bridgeGen
         /\ writing' = writing /\ captured' = captured
         /\ writing' => captured' # NoPair
         /\ captured' # NoPair => CaptureAccepts(captured')
  BY DEF bridgeVars, PathInv, HandedInv

(* The steps that keep the block they hold.                                *)
LEMMA SameBlock ==
  ASSUME PathInv, UNCHANGED bridgeVars, UNCHANGED muted, player # "idle",
         UNCHANGED <<lastGen, source, consumedGen>>,
         player' \in {"idle", "left", "right", "stamp"},
         player' # "idle" => source.gen # 0,
         played' \in Nat, played' <= lastGen, player' # "idle" => played' = played,
         copied' \subseteq {source.gen}
  PROVE  PathTypes' /\ BridgeInv' /\ HeldInv' /\ BlockBytes' = BlockBytes
<1>1. PathTypes /\ BridgeInv /\ HeldInv BY DEF PathInv
<1>2. /\ bridgeBuffers' = bridgeBuffers /\ frontIndex' = frontIndex /\ bridgeGen' = bridgeGen
      /\ writing' = writing /\ captured' = captured /\ muted' = muted
  BY PlayFrame
<1>3. PathTypes' BY <1>1, <1>2 DEF PathTypes
<1>4. BridgeInv' BY <1>1, <1>2 DEF BridgeInv
<1>5. HeldInv' BY <1>1, <1>2 DEF HeldInv, Playing
<1> QED BY <1>3, <1>4, <1>5 DEF BlockBytes

LEMMA TakeBlockStep ==
  ASSUME PathInv, ReadBridge
  PROVE  PathInv'
<1>1. PathTypes /\ BridgeInv /\ HeldInv BY DEF PathInv
<1>2. /\ bridgeBuffers' = bridgeBuffers /\ frontIndex' = frontIndex /\ bridgeGen' = bridgeGen
      /\ writing' = writing /\ captured' = captured /\ muted' = muted
      /\ writing' => captured' # NoPair
      /\ captured' # NoPair => CaptureAccepts(captured')
  <2>1. UNCHANGED bridgeVars /\ UNCHANGED muted BY DEF ReadBridge
  <2> QED BY <2>1, PlayFrame
<1>3. /\ copied' = {} /\ handed' = NoPair /\ player' = "dequeue" /\ played' = played
  BY DEF ReadBridge
<1>4. HandedInv' BY <1>2, <1>3 DEF HandedInv
<1>5. NothingStalePlayed' BY <1>3 DEF NothingStalePlayed
<1>6. CASE muted = "no" /\ ReadNewer
  <2>1. /\ source' = [gen |-> bridgeGen, frames |-> bridgeBuffers[frontIndex].frames,
                      index |-> frontIndex]
        /\ lastGen' = bridgeGen /\ consumedGen' = bridgeGen
    BY <1>6 DEF ReadBridge
  <2>2. source'.gen = bridgeGen /\ source'.index = frontIndex
        /\ source'.frames = bridgeBuffers[frontIndex].frames
    BY <2>1
  <2>3. /\ bridgeGen \in Nat \ {0} /\ bridgeBuffers[frontIndex].frames \in Nat
        /\ frontIndex \in {0, 1}
    BY <1>1 DEF PathTypes
  <2>4. played < bridgeGen BY <1>1, <1>6 DEF BridgeInv, PathTypes, ReadNewer
  <2>5. PathTypes' BY <1>1, <1>2, <1>3, <2>1, <2>2, <2>3 DEF PathTypes
  <2>6. BridgeInv'
    <3>1. played <= bridgeGen /\ bridgeGen <= bridgeGen /\ bridgeGen <= bridgeGen + 1
      BY <1>1, <2>3, <2>4, SMT DEF PathTypes
    <3> QED BY <1>1, <1>2, <1>3, <2>1, <3>1, Zenon DEF BridgeInv
  <2>7. HeldInv' BY <1>1, <1>2, <1>3, <2>1, <2>2, <2>3, <2>4 DEF HeldInv, Playing, BridgeInv
  <2> QED BY <1>4, <1>5, <2>5, <2>6, <2>7 DEF PathInv
<1>7. CASE ~(muted = "no" /\ ReadNewer)
  <2>1. source' = NoBlock /\ UNCHANGED <<lastGen, consumedGen>> BY <1>7 DEF ReadBridge
  <2>2. source'.gen = 0 /\ source'.frames = 0 BY <2>1 DEF NoBlock
  <2>3. PathTypes' BY <1>1, <1>2, <1>3, <2>1, <2>2 DEF PathTypes
  <2>4. BridgeInv' BY <1>1, <1>2, <1>3, <2>1 DEF BridgeInv
  <2>5. HeldInv' BY <1>3, <2>1, <2>2 DEF HeldInv, Playing
  <2> QED BY <1>4, <1>5, <2>3, <2>4, <2>5 DEF PathInv
<1> QED BY <1>6, <1>7

LEMMA DequeueStep ==
  ASSUME PathInv, NoBuffer \/ DequeueSingle \/ DequeuePair
  PROVE  PathInv'
<1>1. PathTypes /\ BridgeInv /\ HeldInv /\ HandedInv BY DEF PathInv
<1>2. /\ UNCHANGED bridgeVars /\ UNCHANGED muted /\ player = "dequeue"
      /\ UNCHANGED <<lastGen, source, consumedGen, copied, played>>
  BY DEF NoBuffer, DequeueSingle, DequeuePair
<1>3. /\ writing' => captured' # NoPair
      /\ captured' # NoPair => CaptureAccepts(captured')
  BY <1>2, PlayFrame
<1>4. ASSUME player' \in {"idle", "left"}, player' # "idle" => HasBlock
      PROVE  PathTypes' /\ BridgeInv' /\ HeldInv' /\ BlockBytes' = BlockBytes
  <2>1. HasBlock => source.gen # 0 BY <1>1 DEF HasBlock, HeldInv
  <2> QED BY <1>1, <1>2, <1>4, <2>1, SameBlock DEF PathTypes, BridgeInv, HeldInv
<1>5. ASSUME player' = "idle" PROVE PathTypes' /\ BridgeInv' /\ HeldInv' /\ HandedInv'
  BY <1>3, <1>4, <1>5 DEF HandedInv
<1>6. CASE NoBuffer
  <2>1. player' = "idle" /\ handed' = NoPair BY <1>1, <1>2, <1>6 DEF NoBuffer, HandedInv
  <2>2. NothingStalePlayed' BY <2>1 DEF NothingStalePlayed, NoPair
  <2> QED BY <1>5, <2>1, <2>2 DEF PathInv
<1>7. CASE DequeueSingle
  <2>1. PICK c \in Channels :
          /\ handed' = <<c>> /\ sound' = <<Cleared(c)>>
          /\ playWindow' = <<IF c.chunk = "absent" THEN 0 ELSE Clearable(c)>>
    BY <1>7 DEF DequeueSingle
  <2>2. player' = "idle" BY <1>7 DEF DequeueSingle
  <2>3. NothingStalePlayed'
    <3> DEFINE w == IF c.chunk = "absent" THEN 0 ELSE Clearable(c)
    <3>1. c.max \in Nat /\ w \in Nat /\ w <= c.max /\ (w = 0 \/ w = Clearable(c))
      BY ChannelTypes
    <3> HIDE DEF w
    <3>2. ASSUME NEW b \in 0 .. w - 1
          PROVE  b \in DOMAIN Cleared(c) /\ Cleared(c)[b] # "old"
      <4>1. b \in 0 .. c.max - 1 /\ b < Clearable(c) BY <3>1, <3>2
      <4> QED BY <4>1 DEF Cleared
    <3>3. playWindow'[1] = w /\ sound'[1] = Cleared(c) /\ DOMAIN handed' = {1}
      BY <2>1 DEF w
    <3> QED BY <3>2, <3>3 DEF NothingStalePlayed
  <2> QED BY <1>5, <2>2, <2>3 DEF PathInv
<1>8. CASE DequeuePair
  <2>1. PICK l \in Channels, r \in Channels, quantum \in Quantums :
       LET pair == <<l, r>>
           n == IF HasBlock THEN source.frames * FrameBytes ELSE SilenceBytes(pair, quantum)
       IN  /\ handed' = pair
           /\ IF ~PairAccepted(pair, [s \in Sides |-> WindowAt(0, n)])
              THEN /\ sound' = [s \in Sides |-> Cleared(pair[s])]
                   /\ playWindow' = ReportedWindow
                   /\ player' = "idle"
              ELSE IF HasBlock
              THEN /\ sound' = [s \in Sides |-> Untouched(pair[s])]
                   /\ playWindow' = <<0, 0>>
                   /\ player' = "left"
              ELSE /\ sound' = [s \in Sides |-> Filled(pair[s], n, "zero")]
                   /\ playWindow' = <<n, n>>
                   /\ player' = "idle"
    BY <1>8 DEF DequeuePair
  <2> DEFINE pair == <<l, r>>
             n == IF HasBlock THEN source.frames * FrameBytes ELSE SilenceBytes(pair, quantum)
  <2>2. handed' = pair /\ DOMAIN pair = Sides /\ pair \in Pairs
    BY <2>1 DEF Sides, Pairs
  <2>3. l.max \in Nat /\ r.max \in Nat /\ pair[1] = l /\ pair[2] = r BY ChannelTypes
  <2>4. n \in Nat
    <3>1. source.frames * FrameBytes \in Nat
      BY <1>1, BytesCount, PlaybackAssumption DEF PathTypes
    <3>2. quantum * FrameBytes \in Nat /\ Capacity \in Nat
      BY BytesCount, PlaybackAssumption DEF Capacity
    <3>3. SilenceBytes(pair, quantum) \in Nat BY <2>3, <3>2 DEF SilenceBytes, Least
    <3> QED BY <3>1, <3>3
  <2>5. CASE ~PairAccepted(pair, [s \in Sides |-> WindowAt(0, n)])
    <3>1. playWindow' = <<0, 0>> /\ player' = "idle" BY <2>1, <2>5 DEF ReportedWindow
    <3>2. NothingStalePlayed'
      <4>1. \A s \in Sides : 0 .. playWindow'[s] - 1 = {} BY <3>1 DEF Sides
      <4> QED BY <2>2, <4>1 DEF NothingStalePlayed
    <3> QED BY <1>5, <3>1, <3>2 DEF PathInv
  <2>6. CASE PairAccepted(pair, [s \in Sides |-> WindowAt(0, n)]) /\ HasBlock
    <3>1. /\ sound' = [s \in Sides |-> Untouched(pair[s])] /\ playWindow' = <<0, 0>>
          /\ player' = "left"
      BY <2>1, <2>6
    <3>2. n = BlockBytes BY <2>6 DEF BlockBytes
    <3>3. n <= l.max /\ n <= r.max BY <2>4, <2>6, AcceptedFits DEF pair
    <3>4. PathTypes' /\ BridgeInv' /\ HeldInv' /\ BlockBytes' = BlockBytes
      BY <1>4, <2>6, <3>1
    <3>5. sound' = [s \in Sides |-> sound'[s]] BY <3>1
    <3>6. \A s \in Sides : BlockBytes <= pair[s].max BY <2>3, <3>2, <3>3 DEF Sides
    <3>7. HandedInv' BY <1>3, <2>2, <3>1, <3>4, <3>5, <3>6 DEF HandedInv
    <3>8. NothingStalePlayed' BY <3>1 DEF NothingStalePlayed
    <3> QED BY <3>4, <3>7, <3>8 DEF PathInv
  <2>7. CASE PairAccepted(pair, [s \in Sides |-> WindowAt(0, n)]) /\ ~HasBlock
    <3>1. /\ sound' = [s \in Sides |-> Filled(pair[s], n, "zero")] /\ playWindow' = <<n, n>>
          /\ player' = "idle"
      BY <2>1, <2>7
    <3>2. n <= l.max /\ n <= r.max BY <2>4, <2>7, AcceptedFits DEF pair
    <3> HIDE DEF n
    <3>3. NothingStalePlayed'
      <4>1. ASSUME NEW s \in Sides, NEW b \in 0 .. n - 1
            PROVE  b \in DOMAIN Filled(pair[s], n, "zero") /\ Filled(pair[s], n, "zero")[b] # "old"
        <5>1. pair[s].max \in Nat /\ n <= pair[s].max BY <2>3, <3>2 DEF Sides
        <5>2. b \in 0 .. pair[s].max - 1 /\ b < n BY <2>4, <4>1, <5>1
        <5> QED BY <5>2 DEF Filled
      <4>2. \A s \in Sides : playWindow'[s] = n /\ sound'[s] = Filled(pair[s], n, "zero")
        BY <3>1 DEF Sides
      <4> QED BY <2>2, <4>1, <4>2 DEF NothingStalePlayed
    <3> QED BY <1>5, <3>1, <3>3 DEF PathInv
  <2> QED BY <2>5, <2>6, <2>7
<1> QED BY <1>6, <1>7, <1>8

LEMMA CopyStep ==
  ASSUME PathInv, CopyLeft \/ CopyRight
  PROVE  PathInv'
<1>1. PathTypes /\ BridgeInv /\ HeldInv /\ HandedInv BY DEF PathInv
<1>2. PICK s \in Sides :
        /\ player = (IF s = 1 THEN "left" ELSE "right")
        /\ player' = (IF s = 1 THEN "right" ELSE "stamp")
        /\ copied' = copied \cup {bridgeBuffers[source.index].gen}
        /\ sound' = [sound EXCEPT ![s] = Filled(handed[s], BlockBytes, "audio")]
        /\ UNCHANGED <<lastGen, source, consumedGen, handed, playWindow, played, bridgeVars, muted>>
  BY DEF CopyLeft, CopyRight, CopySide, Sides, BlockBytes
<1>3. source.gen # 0 /\ player # "idle" BY <1>1, <1>2 DEF HeldInv
<1>4. copied' \subseteq {source.gen} BY <1>1, <1>2, <1>3 DEF HeldInv, Playing
<1>5. PathTypes' /\ BridgeInv' /\ HeldInv' /\ BlockBytes' = BlockBytes
  BY <1>1, <1>2, <1>3, <1>4, SameBlock DEF PathTypes, BridgeInv
<1>6. /\ writing' => captured' # NoPair
      /\ captured' # NoPair => CaptureAccepts(captured')
  BY <1>2, PlayFrame
<1>7. /\ sound' = [t \in Sides |-> sound'[t]]
      /\ sound'[s] = Filled(handed[s], BlockBytes, "audio")
      /\ \A t \in Sides : t # s => sound'[t] = sound[t]
  <2>1. sound = [t \in Sides |-> sound[t]] BY <1>1, <1>2 DEF HandedInv
  <2> QED BY <1>2, <2>1
<1>8. HandedInv'
  <2>1. CASE s = 1 BY <1>1, <1>2, <1>5, <1>6, <1>7, <2>1 DEF HandedInv, Delivered
  <2>2. CASE s = 2
    <3>1. sound'[1] = sound[1] BY <1>7, <2>2 DEF Sides
    <3> QED BY <1>1, <1>2, <1>5, <1>6, <1>7, <2>2, <3>1 DEF HandedInv, Delivered
  <2> QED BY <2>1, <2>2 DEF Sides
<1>9. NothingStalePlayed'
  <2>1. playWindow' = <<0, 0>> /\ handed' \in Pairs BY <1>1, <1>2 DEF HandedInv
  <2>2. DOMAIN handed' = Sides /\ \A t \in Sides : 0 .. playWindow'[t] - 1 = {}
    BY <2>1 DEF Pairs, Sides
  <2> QED BY <2>2 DEF NothingStalePlayed
<1> QED BY <1>5, <1>8, <1>9 DEF PathInv

LEMMA StampStep ==
  ASSUME PathInv, StampPair
  PROVE  PathInv'
<1>1. PathTypes /\ BridgeInv /\ HeldInv /\ HandedInv BY DEF PathInv
<1>2. /\ player = "stamp" /\ player' = "idle" /\ played' = source.gen
      /\ playWindow' = [s \in Sides |-> BlockBytes]
      /\ UNCHANGED <<lastGen, source, consumedGen, handed, sound, copied>>
      /\ UNCHANGED bridgeVars /\ UNCHANGED muted
  BY DEF StampPair, BlockBytes
<1>3. source.gen \in Nat /\ source.gen <= lastGen /\ copied \subseteq {source.gen}
  BY <1>1, <1>2 DEF HeldInv, Playing, PathTypes
<1>4. PathTypes' /\ BridgeInv' /\ HeldInv' BY <1>2, <1>3, SameBlock
<1>5. /\ writing' => captured' # NoPair
      /\ captured' # NoPair => CaptureAccepts(captured')
  BY <1>2, PlayFrame
<1>6. HandedInv' BY <1>2, <1>5 DEF HandedInv
<1>7. NothingStalePlayed'
  <2>1. /\ handed \in Pairs /\ Delivered(1) /\ Delivered(2)
        /\ \A s \in Sides : BlockBytes <= handed[s].max
    BY <1>1, <1>2 DEF HandedInv
  <2>2. BlockBytes \in Nat
    BY <1>1, BytesCount, PlaybackAssumption DEF PathTypes, BlockBytes
  <2>3. DOMAIN handed = Sides /\ \A s \in Sides : handed[s] \in Channels
    BY <2>1 DEF Pairs, Sides
  <2>4. ASSUME NEW s \in Sides, NEW b \in 0 .. BlockBytes - 1
        PROVE  b \in DOMAIN sound[s] /\ sound[s][b] # "old"
    <3>1. handed[s].max \in Nat BY <2>3, ChannelTypes
    <3>2. b \in 0 .. handed[s].max - 1 /\ b < BlockBytes BY <2>1, <2>2, <2>4, <3>1
    <3>3. sound[s] = Filled(handed[s], BlockBytes, "audio") BY <2>1 DEF Delivered, Sides
    <3> QED BY <3>2, <3>3 DEF Filled
  <2>5. \A s \in Sides : playWindow'[s] = BlockBytes BY <1>2
  <2> QED BY <1>2, <2>3, <2>4, <2>5 DEF NothingStalePlayed
<1> QED BY <1>4, <1>6, <1>7 DEF PathInv
LEMMA PathInductive == PathInv /\ [PathNext]_pathVars => PathInv'
<1> SUFFICES ASSUME PathInv, [PathNext]_pathVars PROVE PathInv'
  OBVIOUS
<1>1. CASE PathNext
  BY <1>1, CaptureStep, TakeBlockStep, DequeueStep, CopyStep, StampStep DEF PathNext, PlayCallback
<1>2. CASE UNCHANGED pathVars
  <2>1. UNCHANGED bridgeVars /\ UNCHANGED playVars /\ UNCHANGED muted BY <1>2 DEF pathVars
  <2>2. PathTypes /\ BridgeInv /\ HeldInv /\ HandedInv /\ NothingStalePlayed BY DEF PathInv
  <2>3. PathTypes' BY <2>1, <2>2 DEF bridgeVars, playVars, PathTypes
  <2>4. BridgeInv' BY <2>1, <2>2 DEF bridgeVars, playVars, BridgeInv
  <2>5. HeldInv' BY <2>1, <2>2 DEF bridgeVars, playVars, HeldInv, Playing
  <2>6. HandedInv' BY <2>1, <2>2 DEF bridgeVars, playVars, HandedInv, BlockBytes, Delivered
  <2>7. NothingStalePlayed' BY <2>1, <2>2 DEF playVars, NothingStalePlayed
  <2> QED BY <2>3, <2>4, <2>5, <2>6, <2>7 DEF PathInv
<1> QED BY <1>1, <1>2

(* Intervals for bytes: what the check of the pair accepts is sound.       *)
LEMMA AcceptedIsSound ==
  ASSUME PathTypes, HandedInv
  PROVE  CapturedIsSound
<1> SUFFICES ASSUME captured # NoPair PROVE CapturedIsSound
  BY DEF CapturedIsSound
<1> DEFINE w == [s \in Sides |-> CaptureWindow(captured[s])]
           bytes == [s \in Sides |-> BytesOf(captured[s], w[s])]
           l == captured[1]  r == captured[2]
<1>1. l \in Channels /\ r \in Channels BY DEF PathTypes, Pairs
<1>2. PairAccepted(captured, w) BY DEF HandedInv, CaptureAccepts
<1>3. /\ w[1].offset \in Nat /\ w[1].size \in Nat /\ w[2].offset \in Nat /\ w[2].size \in Nat
  BY <1>1, ChannelTypes DEF CaptureWindow, WindowAt, Sides
<1>4. l.at \in Nat /\ l.max \in Nat /\ r.at \in Nat /\ r.max \in Nat BY <1>1, ChannelTypes
<1>5. bytes[1] = BytesOf(l, w[1]) /\ bytes[2] = BytesOf(r, w[2]) BY DEF Sides
<1> HIDE DEF w
<1>6. Capacity \in Nat BY BytesCount, PlaybackAssumption DEF Capacity
<1>7. /\ w[1].offset + w[1].size <= l.max
      /\ w[2].offset + w[2].size <= r.max
  <2>1. /\ w[1].offset + w[1].size <= Least(l.max, Capacity)
        /\ w[2].offset + w[2].size <= Least(r.max, Capacity)
    BY <1>2, Zenon DEF PairAccepted, ChannelFits
  <2> DEFINE e1 == w[1].offset + w[1].size  e2 == w[2].offset + w[2].size
  <2>2. e1 \in Nat /\ e2 \in Nat BY <1>3
  <2> HIDE DEF e1, e2
  <2> QED BY <1>4, <1>6, <2>1, <2>2 DEF Least, e1, e2
<1>8. /\ w[1].size = w[2].size
      /\ ~(l.at + w[1].offset < r.at + w[2].offset + w[1].size
           /\ r.at + w[2].offset < l.at + w[1].offset + w[1].size)
  BY <1>2, Zenon DEF PairAccepted, Overlap
<1>9. bytes[1] \cap bytes[2] = {}
  <2> SUFFICES ASSUME NEW x, x \in BytesOf(l, w[1]), x \in BytesOf(r, w[2]) PROVE FALSE
    BY <1>5
  <2>1. PICK a \in 0 .. w[1].size - 1 : x = l.at + w[1].offset + a BY DEF BytesOf
  <2>2. PICK b \in 0 .. w[2].size - 1 : x = r.at + w[2].offset + b BY DEF BytesOf
  <2> DEFINE x1 == l.at + w[1].offset  x2 == r.at + w[2].offset  n == w[1].size
  <2>3. x1 \in Nat /\ x2 \in Nat /\ n \in Nat /\ a \in 0 .. n - 1 /\ b \in 0 .. n - 1
    BY <1>3, <1>4, <1>8
  <2>4. x = x1 + a /\ x = x2 + b /\ ~(x1 < x2 + n /\ x2 < x1 + n) BY <1>8, <2>1, <2>2
  <2> HIDE DEF x1, x2, n
  <2> QED BY <2>3, <2>4
<1>10. ASSUME NEW s \in Sides, NEW b \in bytes[s]
       PROVE  captured[s].at <= b /\ b < captured[s].at + captured[s].max
  <2> DEFINE at == captured[s].at  offset == w[s].offset  size == w[s].size
             max == captured[s].max
  <2>1. PICK k \in 0 .. size - 1 : b = at + offset + k BY <1>5 DEF BytesOf, Sides
  <2>2. /\ at \in Nat /\ offset \in Nat /\ size \in Nat /\ max \in Nat /\ offset + size <= max
    BY <1>3, <1>4, <1>7 DEF Sides
  <2> HIDE DEF at, offset, size, max
  <2>3. at <= b /\ b < at + max BY <2>1, <2>2
  <2> QED BY <2>3 DEF at, max
<1> QED BY <1>9, <1>10 DEF CapturedIsSound, w

LEMMA PathInvIsEnough == PathInv => PathTypeOK /\ NothingStalePlayed /\ CapturedIsSound
<1>1. PathTypes /\ HandedInv => CapturedIsSound BY AcceptedIsSound
<1>2. PathTypes /\ BridgeInv => PathTypeOK BY DEF PathTypes, BridgeInv, PathTypeOK
<1> QED BY <1>1, <1>2 DEF PathInv

LEMMA BlockStays ==
  ASSUME PathInv, PathNext
  PROVE  copied' \subseteq {source'.gen} /\ (player = "stamp" => source.gen > played)
<1>1. copied' \subseteq {source'.gen}
  BY PathInductive DEF PathInv, HeldInv
<1>2. player = "stamp" => source.gen > played
  BY DEF PathInv, PathTypes, HeldInv, Playing
<1> QED BY <1>1, <1>2

-----------------------------------------------------------------------------
(* What the protocols promise.                                             *)

(* The callback, the reader and the graph keep their types: every latency  *)
(* that is told is a number of samples.                                    *)
THEOREM LatencyTypesHold == LatencySpec => []LatencyTypeOK
  BY LatencyInitHolds, LatencyInductive, LatencyTypesFollow, PTL DEF LatencySpec

(* read_applied_latencies returns three latencies that were in force       *)
(* together, however the callback's writes fall between its loads.         *)
THEOREM SnapshotCoherent == LatencySpec => SnapshotIsCoherent
<1>1. LatencyInv /\ [LatencyNext]_latencyVars =>
          [(reader.step = "validate" /\ reader'.step = "publish") =>
               reader.seen = appliedLatency]_latencyVars
  BY ValidatedIsCoherent DEF LatencyInv
<1> QED BY LatencyInitHolds, LatencyInductive, <1>1, PTL DEF LatencySpec, SnapshotIsCoherent

(* The log's ring has a single producer however instances follow each      *)
(* other, and every event a data thread raised has one fate.               *)
THEOREM LogComplete == LogSpec => [](SingleProducer /\ EveryEventAccounted)
  BY LogInitHolds, LogInductive, LogInvIsEnough, PTL DEF LogSpec

(* The host plays only bytes this callback wrote, and records and          *)
(* processes only windows inside the channels, for every address, size and *)
(* chunk the graph may hand over.                                          *)
THEOREM PathSound == PathSpec => [](NothingStalePlayed /\ CapturedIsSound)
  BY PathInitHolds, PathInductive, PathInvIsEnough, PTL DEF PathSpec

(* The block that is copied is the block that was taken, to its last byte, *)
(* and no block is played twice.                                           *)
THEOREM BlockWhole == PathSpec => BlockStaysWhole
<1>1. PathInv /\ [PathNext]_pathVars =>
          [/\ copied' \subseteq {source'.gen}
           /\ (player = "stamp" => source.gen > played)]_pathVars
  BY BlockStays
<1> QED BY PathInitHolds, PathInductive, <1>1, PTL DEF PathSpec, BlockStaysWhole
=============================================================================
