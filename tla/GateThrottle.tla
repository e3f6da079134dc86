----------------------------- MODULE GateThrottle -----------------------------
(***************************************************************************)
(* The lines about the noise gate.  A threshold near the noise floor makes *)
(* the gate flap at the rate of the poll; its transitions, and the fades   *)
(* between them, share one line per GATE_LOG_MIN_INTERVAL, and those that  *)
(* are held back are counted in the next line.                             *)
(***************************************************************************)
EXTENDS Integers

CONSTANTS
    LineInterval,           \* GATE_LOG_MIN_INTERVAL
    LastPoll, MaxTransitions    \* bounds: time, transitions that are seen

ASSUME GateAssumption == {LineInterval, LastPoll, MaxTransitions} \subseteq Nat

NoLine == -1                \* last_emit before the first line

VARIABLES
    gateTime,
    silent, fading,         \* RT_STATUS_IS_SILENT, RT_STATUS_IS_FADING
    wasSilent, wasFading,   \* what the last poll returned
    gateStep,               \* the flag that is tested next
    lastLine, suppressed,   \* GateTransitionThrottle
    transitions, linesSum   \* history: transitions seen, and told in lines

rtGate == <<silent, fading>>
throttle == <<lastLine, suppressed, linesSum>>
gateVars == <<gateTime, rtGate, wasSilent, wasFading, gateStep, throttle, transitions>>

GateInit ==
    /\ gateTime = 0 /\ silent = FALSE /\ fading = FALSE
    /\ wasSilent = FALSE /\ wasFading = FALSE /\ gateStep = "silent"
    /\ lastLine = NoLine /\ suppressed = 0 /\ transitions = 0 /\ linesSum = 0

PassGateTime ==
    /\ gateTime < LastPoll
    /\ gateTime' = gateTime + 1
    /\ UNCHANGED <<rtGate, wasSilent, wasFading, gateStep, throttle, transitions>>

MoveGate ==
    /\ transitions < MaxTransitions
    /\ silent' \in BOOLEAN /\ fading' \in BOOLEAN /\ rtGate' # rtGate
    /\ UNCHANGED <<gateTime, wasSilent, wasFading, gateStep, throttle, transitions>>

-----------------------------------------------------------------------------

LineIsDue == lastLine = NoLine \/ gateTime - lastLine >= LineInterval

(* GateTransitionThrottle::observe                                         *)
Transition ==
    /\ transitions' = transitions + 1
    /\ IF LineIsDue
       THEN /\ lastLine' = gateTime
            /\ linesSum' = linesSum + suppressed + 1
            /\ suppressed' = 0
       ELSE /\ suppressed' = suppressed + 1
            /\ UNCHANGED <<lastLine, linesSum>>

TestSilent ==
    /\ gateStep = "silent"
    /\ IF silent # wasSilent THEN Transition ELSE UNCHANGED <<throttle, transitions>>
    /\ wasSilent' = silent
    /\ gateStep' = "fading"
    /\ UNCHANGED <<gateTime, rtGate, wasFading>>

(* Only the beginning of a fade is a line.                                 *)
TestFading ==
    /\ gateStep = "fading"
    /\ IF fading /\ ~wasFading THEN Transition ELSE UNCHANGED <<throttle, transitions>>
    /\ wasFading' = fading
    /\ gateStep' = "silent"
    /\ UNCHANGED <<gateTime, rtGate, wasSilent>>

GateNext == PassGateTime \/ MoveGate \/ TestSilent \/ TestFading

GateSpec == GateInit /\ [][GateNext]_gateVars

-----------------------------------------------------------------------------
(* Properties                                                              *)

GateTypeOK ==
    /\ gateTime \in 0 .. LastPoll /\ lastLine \in NoLine .. LastPoll
    /\ {silent, fading, wasSilent, wasFading} \subseteq BOOLEAN
    /\ gateStep \in {"silent", "fading"}
    /\ {suppressed, transitions, linesSum} \subseteq Nat

(* The throttle thins lines out, not transitions: every one is counted in  *)
(* a line or held for the next.                                            *)
TransitionsAreCounted == transitions = linesSum + suppressed
=============================================================================
