--------------------------- MODULE LatencySnapshot ---------------------------
(***************************************************************************)
(* The latency the graph is told.  The callback installs a resampler, a    *)
(* cabinet or an oversampling engine and publishes its latency under a     *)
(* sequence lock; the control loop reads the three latencies and the rate  *)
(* of the model apart from each other, converts them to host samples and   *)
(* updates both streams when the sum or the rate is new.  A reconnection   *)
(* starts from the engines that survived.  Every access to an atomic is a  *)
(* step.                                                                   *)
(***************************************************************************)
EXTENDS Integers

CONSTANTS
    Latencies,              \* samples an engine may be late by; 0 bypasses
    HostRates, ModelRates,
    NominalRate,            \* 48000, the rate of the initial parameters
    MaxInstalls,            \* bound on the swaps and the negotiations
    MaxInstances            \* bound on the instances of the host

ASSUME LatencyAssumption == Latencies \subseteq Nat /\ 0 \in Latencies
ASSUME RateAssumption ==
    /\ HostRates \subseteq Nat \ {0} /\ ModelRates \subseteq Nat \ {0}
    /\ NominalRate \in HostRates \cap ModelRates
ASSUME InstallAssumption == MaxInstalls \in Nat /\ MaxInstances \in Nat

Stages == {"resampler", "cabsim", "oversample"}
Streams == {"capture", "playback"}
Unset == 0                  \* active_rate before the first resampler swap

VARIABLES
    sequence,               \* latency_sequence
    appliedLatency,         \* applied_*_latency, a stage each
    appliedModelRate,       \* applied_nam_rate
    activeRate,             \* active_rate
    engines, engineRate,    \* the callback: latencies and model rate in use
    negotiated,             \* shared_target_rate, 0 once the callback took it
    writer,                 \* what the callback writes next, and for whom
    reader,                 \* the control loop: step and what it has read
    published,              \* last_published_dsp_latency and _rate
    advertised, refused,    \* samples each stream carries; an update failed
    installs, instances

rtVars == <<sequence, appliedLatency, appliedModelRate, activeRate, engines, engineRate, writer,
            negotiated>>
graphVars == <<published, advertised, refused>>
latencyVars == <<rtVars, reader, graphVars, installs, instances>>

Resting == [step |-> "idle", stage |-> "resampler", rate |-> NominalRate]
NoLatency == [s \in Stages |-> 0]
Begin == [step |-> "rate", rate |-> Unset, host |-> NominalRate, sequence |-> 0, seen |-> NoLatency]

(* Oversampling counts native samples of the model; the ceiling is taken.  *)
ToHost(native, hostRate, modelRate) ==
    IF hostRate = 0 \/ modelRate = 0 \/ native = 0 THEN native
    ELSE (native * hostRate + modelRate - 1) \div modelRate

Total(latency, hostRate, modelRate) ==
    latency["cabsim"] + latency["resampler"] + ToHost(latency["oversample"], hostRate, modelRate)

HostRate(active, target) ==
    IF active # Unset THEN active ELSE IF target # Unset THEN target ELSE NominalRate

LatencyInit ==
    /\ sequence = 0
    /\ appliedLatency = NoLatency /\ appliedModelRate = NominalRate /\ activeRate = Unset
    /\ engines = NoLatency /\ engineRate = NominalRate /\ negotiated = Unset
    /\ writer = Resting /\ reader = Begin
    /\ published = [samples |-> 0, rate |-> NominalRate]
    /\ advertised = [s \in Streams |-> 0] /\ refused = FALSE
    /\ installs = 0 /\ instances = 1

-----------------------------------------------------------------------------
(* The callback, the only writer while an instance runs.                   *)

(* The listener of the capture stream leaves the rate of the host where    *)
(* the callback takes it.                                                  *)
NegotiateRate ==
    /\ installs < MaxInstalls
    /\ installs' = installs + 1
    /\ negotiated' \in HostRates
    /\ UNCHANGED <<sequence, appliedLatency, appliedModelRate, activeRate, engines, engineRate,
                   writer, reader, graphVars, instances>>

TakeNegotiated ==
    /\ writer.step = "idle" /\ negotiated # Unset
    /\ negotiated' = Unset
    /\ UNCHANGED <<sequence, appliedLatency, appliedModelRate, activeRate, engines, engineRate,
                   writer, reader, graphVars, installs, instances>>

(* A swap changes the engine first; a resampler brings the host rate, and  *)
(* the model rate of the model behind it.                                  *)
InstallEngine ==
    /\ writer.step = "idle" /\ installs < MaxInstalls
    /\ installs' = installs + 1
    /\ \E s \in Stages, l \in Latencies, r \in HostRates, m \in ModelRates :
           /\ s # "resampler" => (r = NominalRate /\ m = engineRate)
           /\ engines' = [engines EXCEPT ![s] = l]
           /\ engineRate' = m
           /\ writer' = [step |-> "enter", stage |-> s, rate |-> r]
    /\ UNCHANGED <<sequence, appliedLatency, appliedModelRate, activeRate, negotiated, reader,
                   graphVars, instances>>

BumpMissing == sequence
BumpSequence == sequence + 1

(* Odd while a write is in progress.                                       *)
EnterWrite ==
    /\ writer.step = "enter"
    /\ sequence' = BumpSequence
    /\ writer' = [writer EXCEPT !.step = "store"]
    /\ UNCHANGED <<appliedLatency, appliedModelRate, activeRate, engines, engineRate, reader,
                   negotiated, graphVars, installs, instances>>

StoreLatency ==
    /\ writer.step = "store"
    /\ appliedLatency' = [appliedLatency EXCEPT ![writer.stage] = engines[writer.stage]]
    /\ writer' = [writer EXCEPT !.step = "leave"]
    /\ UNCHANGED <<sequence, appliedModelRate, activeRate, engines, engineRate, reader,
                   negotiated, graphVars, installs, instances>>

LeaveWrite ==
    /\ writer.step = "leave"
    /\ sequence' = BumpSequence
    /\ writer' = IF writer.stage = "resampler" THEN [writer EXCEPT !.step = "model"] ELSE Resting
    /\ UNCHANGED <<appliedLatency, appliedModelRate, activeRate, engines, engineRate, reader,
                   negotiated, graphVars, installs, instances>>

(* The rates of a resampler follow outside the sequence lock.              *)
StoreModelRate ==
    /\ writer.step = "model"
    /\ appliedModelRate' = engineRate
    /\ writer' = [writer EXCEPT !.step = "host"]
    /\ UNCHANGED <<sequence, appliedLatency, activeRate, engines, engineRate, reader,
                   negotiated, graphVars, installs, instances>>

StoreHostRate ==
    /\ writer.step = "host"
    /\ activeRate' = writer.rate
    /\ writer' = Resting
    /\ UNCHANGED <<sequence, appliedLatency, appliedModelRate, engines, engineRate, reader,
                   negotiated, graphVars, installs, instances>>

Write == EnterWrite \/ StoreLatency \/ LeaveWrite \/ StoreModelRate \/ StoreHostRate

-----------------------------------------------------------------------------
(* The control loop, one iteration.                                        *)

Advance(step) == reader' = [reader EXCEPT !.step = step]

ReadHostRate ==
    /\ reader.step = "rate"
    /\ reader' = IF activeRate # Unset
                 THEN [reader EXCEPT !.step = "sequence", !.rate = activeRate, !.host = activeRate]
                 ELSE [reader EXCEPT !.step = "target"]
    /\ UNCHANGED <<rtVars, graphVars, installs, instances>>

(* Before the first resampler the rate last negotiated stands for it.      *)
ReadNegotiated ==
    /\ reader.step = "target"
    /\ reader' = [reader EXCEPT !.step = "sequence", !.host = HostRate(Unset, negotiated)]
    /\ UNCHANGED <<rtVars, graphVars, installs, instances>>

Even(n) == n % 2 = 0

(* While a write is in progress the reader spins.                          *)
ReadSequence ==
    /\ reader.step = "sequence" /\ Even(sequence)
    /\ reader' = [reader EXCEPT !.step = "resampler", !.sequence = sequence]
    /\ UNCHANGED <<rtVars, graphVars, installs, instances>>

FieldAfter == [resampler |-> "cabsim", cabsim |-> "oversample", oversample |-> "validate"]

ReadField ==
    /\ reader.step \in Stages
    /\ reader' = [reader EXCEPT !.step = FieldAfter[reader.step],
                                !.seen[reader.step] = appliedLatency[reader.step]]
    /\ UNCHANGED <<rtVars, graphVars, installs, instances>>

Undisturbed == sequence = reader.sequence

Validate ==
    /\ reader.step = "validate"
    /\ IF Undisturbed THEN Advance("publish") ELSE Advance("sequence")
    /\ UNCHANGED <<rtVars, graphVars, installs, instances>>

OnlySamples(samples) == samples # published.samples
News(samples) ==
    \/ samples # published.samples
    \/ reader.rate # Unset /\ reader.rate # published.rate

(* Either stream may refuse its new parameters, once in a behaviour; the   *)
(* other one carries them all the same.                                    *)
UpdateStreamLatency(samples) ==
    \/ /\ advertised' = [s \in Streams |-> samples]
       /\ UNCHANGED refused
    \/ /\ ~refused /\ refused' = TRUE
       /\ \E s \in Streams : advertised' = [[t \in Streams |-> samples] EXCEPT ![s] = advertised[s]]

(* The model rate is read last.  Both streams are updated under the lock   *)
(* of the PipeWire loop; the result of the update is ignored.              *)
Publish ==
    /\ reader.step = "publish"
    /\ LET samples == Total(reader.seen, reader.host, appliedModelRate)
       IN  IF News(samples)
           THEN /\ UpdateStreamLatency(samples)
                /\ published' =
                      [samples |-> samples,
                       rate |-> IF reader.rate # Unset THEN reader.rate ELSE published.rate]
           ELSE UNCHANGED graphVars
    /\ reader' = Begin
    /\ UNCHANGED <<rtVars, installs, instances>>

Read ==
    \/ ReadHostRate \/ ReadNegotiated \/ ReadSequence \/ ReadField
    \/ Validate \/ Publish

(* The instance ends: the callback is stopped between two calls, the       *)
(* control loop between two iterations, and the next instance tells the    *)
(* latencies of the engines that are installed, at the nominal rate.       *)
Reconnect ==
    /\ writer.step = "idle" /\ reader.step = "rate" /\ instances < MaxInstances
    /\ instances' = instances + 1
    /\ appliedLatency' = engines /\ appliedModelRate' = engineRate
    /\ published' = [samples |-> Total(engines, NominalRate, engineRate), rate |-> NominalRate]
    /\ advertised' = [s \in Streams |-> Total(engines, NominalRate, engineRate)]
    /\ refused' = FALSE
    /\ UNCHANGED <<sequence, activeRate, engines, engineRate, negotiated, writer, reader, installs>>

LatencyNext ==
    \/ NegotiateRate \/ TakeNegotiated \/ InstallEngine
    \/ Write \/ Read \/ Reconnect

(* PipeWire calls back for every quantum, the control loop polls at least  *)
(* every 100 ms.                                                           *)
LatencyFairness == WF_latencyVars(Write) /\ WF_latencyVars(Read)

LatencySpec == LatencyInit /\ [][LatencyNext]_latencyVars /\ LatencyFairness

-----------------------------------------------------------------------------
(* Properties                                                              *)

Steps == {"rate", "target", "sequence", "validate", "publish"} \cup Stages

CallbackTypeOK ==
    /\ sequence \in Nat
    /\ appliedLatency \in [Stages -> Latencies] /\ appliedModelRate \in ModelRates
    /\ {activeRate, negotiated} \subseteq HostRates \cup {Unset}
    /\ engines \in [Stages -> Latencies] /\ engineRate \in ModelRates
    /\ writer \in [step : {"idle", "enter", "store", "leave", "model", "host"},
                   stage : Stages, rate : HostRates]

ReaderTypeOK ==
    reader \in [step : Steps, rate : HostRates \cup {Unset}, host : HostRates,
               sequence : Nat, seen : [Stages -> Latencies]]

LatencyTypeOK ==
    /\ CallbackTypeOK /\ ReaderTypeOK
    /\ advertised \in [Streams -> Nat] /\ refused \in BOOLEAN

(* The three latencies that are summed were in force together: whatever    *)
(* the callback published between the loads, a mixture is thrown away.     *)
SnapshotIsCoherent ==
    [][(reader.step = "validate" /\ reader'.step = "publish") =>
           reader.seen = appliedLatency]_latencyVars

(* However reads and writes interleave and whatever is read apart, the     *)
(* graph ends up knowing the latency of the engines in use, for the rate   *)
(* of the last resampler, or the one negotiated before there is any.  A    *)
(* stream that refused an update keeps what it had.                        *)
InForce ==
    /\ published.samples = Total(engines, HostRate(activeRate, negotiated), engineRate)
    /\ activeRate # Unset => published.rate = activeRate
    /\ ~refused => advertised = [s \in Streams |-> published.samples]
LatencyConverges == <>[]InForce
=============================================================================
