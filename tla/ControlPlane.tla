------------------------------ MODULE ControlPlane ------------------------------
(***************************************************************************)
(* The small protocols around the audio: the reconnect cycle and its       *)
(* schedule, the termination signals, the latency snapshot, PipeWire's     *)
(* log, the reports and the wakeup of the control loop, the probe for the  *)
(* default sink, and the path from capture to playback.  None reads what   *)
(* another writes, so their product would interleave steps that commute: a *)
(* behaviour of this module is one of a single protocol, chosen at the     *)
(* start, while the others rest.                                           *)
(***************************************************************************)
EXTENDS ReconnectCycle, ReconnectPolicy, TerminationSignals, LatencySnapshot, LogRing,
        Telemetry, StatusLines, GateThrottle, ControlWakeup, SinkProbe, PlaybackPath

VARIABLE selected

Protocols == {"cycle", "policy", "signals", "latency", "log", "telemetry", "lines", "gate",
              "wakeup", "probe", "path"}

reportVars == <<telemetryVars, lineVars, gateVars>>
waitVars == <<vars, policyVars, signalsVars, wakeupVars, probeVars>>
dataVars == <<latencyVars, logVars, pathVars>>
controlVars == <<reportVars, waitVars, dataVars, selected>>

(* The policy begins in many states; one of them stands for it at rest.    *)
ControlInit ==
    /\ selected \in Protocols
    /\ Init /\ PolicyInit /\ SignalsInit /\ WakeupInit /\ ProbeInit
    /\ LatencyInit /\ LogInit /\ PathInit
    /\ TelemetryInit /\ LinesInit /\ GateInit
    /\ selected # "policy" => policyTimeout = 0

WaitTurn ==
    /\ \/ /\ selected = "cycle" /\ Next
          /\ UNCHANGED <<policyVars, signalsVars, wakeupVars, probeVars>>
       \/ /\ selected = "policy" /\ PolicyNext
          /\ UNCHANGED <<vars, signalsVars, wakeupVars, probeVars>>
       \/ /\ selected = "signals" /\ SignalsNext
          /\ UNCHANGED <<vars, policyVars, wakeupVars, probeVars>>
       \/ /\ selected = "wakeup" /\ WakeupNext
          /\ UNCHANGED <<vars, policyVars, signalsVars, probeVars>>
       \/ /\ selected = "probe" /\ ProbeNext
          /\ UNCHANGED <<vars, policyVars, signalsVars, wakeupVars>>
    /\ UNCHANGED <<reportVars, dataVars, selected>>

DataTurn ==
    /\ \/ selected = "latency" /\ LatencyNext /\ UNCHANGED <<logVars, pathVars>>
       \/ selected = "log" /\ LogNext /\ UNCHANGED <<latencyVars, pathVars>>
       \/ selected = "path" /\ PathNext /\ UNCHANGED <<latencyVars, logVars>>
    /\ UNCHANGED <<reportVars, waitVars, selected>>

ReportTurn ==
    /\ \/ selected = "telemetry" /\ TelemetryNext /\ UNCHANGED <<lineVars, gateVars>>
       \/ selected = "lines" /\ LinesNext /\ UNCHANGED <<telemetryVars, gateVars>>
       \/ selected = "gate" /\ GateNext /\ UNCHANGED <<telemetryVars, lineVars>>
    /\ UNCHANGED <<waitVars, dataVars, selected>>

ControlNext == WaitTurn \/ DataTurn \/ ReportTurn

(* The fairness of a protocol is owed where it is selected: this is the    *)
(* fairness each module states, action by action.                          *)
Turn(protocol, A) == selected = protocol /\ A

ControlFairness ==
    /\ WF_signalsVars(Turn("signals", Startup))
    /\ WF_signalsVars(Turn("signals", StopOnSignal))
    /\ WF_signalsVars(Turn("signals", Closing))
    /\ \A d \in Deliveries :
           /\ WF_signalsVars(Turn("signals", Handle(d)))
           /\ SF_signalsVars(Turn("signals", OpenWindow(d) /\ stage' = "grace"))
    /\ WF_latencyVars(Turn("latency", Write))
    /\ WF_latencyVars(Turn("latency", Read))
    /\ WF_telemetryVars(Turn("telemetry", PollStatus))
    /\ WF_lineVars(Turn("lines", PollLines))
    /\ WF_wakeupVars(Turn("wakeup", LoopStep))
    /\ WF_probeVars(Turn("probe", ProbeStep))
    /\ WF_probeVars(Turn("probe", PassTime))

ControlSpec == ControlInit /\ [][ControlNext]_controlVars /\ ControlFairness

-----------------------------------------------------------------------------
(* Every protocol keeps its types.                                         *)
ControlTypeOK ==
    /\ selected \in Protocols
    /\ TypeOK /\ SignalsTypeOK /\ WakeupTypeOK /\ ProbeTypeOK
    /\ LatencyTypeOK /\ LogTypeOK /\ PathTypeOK
    /\ TelemetryTypeOK /\ LinesTypeOK /\ GateTypeOK

(* No wait is longer than it is meant to be.  A reconnection sleeps as     *)
(* documented: total_backoff_budget is the ceiling of an episode, the      *)
(* policy cut to a timeout is the longest schedule that fits it, and no    *)
(* attempt number makes a backoff wrap.  The control loop does not sleep   *)
(* over a notification, and the probe does not hold start-up beyond its    *)
(* deadline and graces.                                                    *)
WaitsAreBounded ==
    /\ EpisodeWithinBudget
    /\ selected = "policy" => LargestSchedule /\ BackoffNeverWraps
    /\ NoLostWakeup
    /\ ProbeIsBounded

(* PipeWire's log reaches the host's whole, in the order of each thread    *)
(* and counted where it was dropped, and the ring it passes through has a  *)
(* single producer however instances follow each other.                    *)
LogIsComplete == SingleProducer /\ EveryEventAccounted

(* What the audio threads counted, failed at or changed is told: nothing   *)
(* is lost between two polls or at the end of an instance, the start-up    *)
(* ramp excuses drift for a bounded number of polls only, the throttle of  *)
(* the gate forgets no transition, a quantum stays untold only where the   *)
(* report before overlapped it, and truncated output is known to be.       *)
TelemetryIsHonest ==
    /\ NothingUncounted /\ SuppressionIsBounded
    /\ FailuresAreKept /\ TransitionsAreCounted /\ QuantumIsTold
    /\ NothingCutSilently

(* What is raised is dealt with: a termination signal ends the process, a  *)
(* status bit, a counter and the outcome of the promotion are told unless  *)
(* the host ends first, a recovery is announced before its budget is       *)
(* replenished, and the probe answers.                                     *)
NothingIsIgnored ==
    /\ SignalEndsProcess /\ RaisedIsTold /\ PriorityIsTold
    /\ RecoveryIsAnnounced /\ ProbeAnswers

(* No address, size or chunk the graph hands over makes a callback use     *)
(* memory that is not the channel's, or lets stale bytes be played.        *)
HostMemoryIsSound == NothingStalePlayed /\ CapturedIsSound
=============================================================================
