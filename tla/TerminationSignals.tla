-------------------------- MODULE TerminationSignals --------------------------
(***************************************************************************)
(* Termination signals.  One handler serves SIGINT, SIGTERM, SIGHUP and    *)
(* SIGQUIT on whatever thread the kernel picks, so several may run at once *)
(* and beside the main thread.  The first asks for a graceful shutdown and *)
(* opens a grace window; signals inside the window are swallowed; a signal *)
(* after it gives up and exits.  The window is wide while a recording is   *)
(* in flight.  Every access to an atomic of the handler is a step.         *)
(***************************************************************************)
EXTENDS Integers, FiniteSets

CONSTANTS
    Deliveries,             \* signals the process receives
    DefaultWindow,          \* DEFAULT_GRACE_WINDOW_MS
    RecordingWindow,        \* RECORDING_GRACE_WINDOW_MS
    LastInstant             \* bound of the monotonic clock

ASSUME WindowAssumption ==
    /\ DefaultWindow \in Nat \ {0} /\ RecordingWindow \in Nat \ {0}
    /\ DefaultWindow <= RecordingWindow
ASSUME InstantAssumption == LastInstant \in Nat

VARIABLES
    clock,
    stage, anchor,          \* the two fields of TERMINATION_STATE
    graceWindow, windowArmed,   \* GRACE_WINDOW_MS, RECORDING_WINDOW_ARMED
    shutdown,               \* SHUTDOWN
    handler,                \* each delivery: its step and the time it read
    mainStep,
    capture,                \* "none", "open", "final" or "abandoned"
    exited                  \* "no", "orderly" or "forced"

handlerVars == <<stage, anchor, shutdown, handler>>
windowVars == <<graceWindow, windowArmed>>
signalsVars == <<clock, handlerVars, windowVars, mainStep, capture, exited>>

Pending == [step |-> "pending", now |-> 0]

SignalsInit ==
    /\ clock = 0
    /\ stage = "idle" /\ anchor = 0
    /\ graceWindow = DefaultWindow /\ windowArmed = FALSE
    /\ shutdown = FALSE
    /\ handler = [d \in Deliveries |-> Pending]
    /\ mainStep = "starting" /\ capture = "none"
    /\ exited = "no"

Alive == exited = "no"

TickClock ==
    /\ Alive /\ clock < LastInstant
    /\ clock' = clock + 1
    /\ UNCHANGED <<handlerVars, windowVars, mainStep, capture, exited>>

-----------------------------------------------------------------------------
(* The handler.                                                            *)

At(d, step) == Alive /\ handler[d].step = step
Goto(d, step) == handler' = [handler EXCEPT ![d].step = step]

(* The time is read once, before the loop: another delivery may open the   *)
(* window later than that.                                                 *)
Deliver(d) ==
    /\ At(d, "pending")
    /\ handler' = [handler EXCEPT ![d] = [step |-> "load", now |-> clock]]
    /\ UNCHANGED <<clock, stage, anchor, shutdown, windowVars, mainStep, capture, exited>>

LoadState(d) ==
    /\ At(d, "load")
    /\ Goto(d, IF stage = "idle" THEN "open" ELSE "decide")
    /\ UNCHANGED <<clock, stage, anchor, shutdown, windowVars, mainStep, capture, exited>>

(* A plausible slip returns to the loop's caller without the store.        *)
AskForgotten == "done"
AskNext == "ask"

(* compare_exchange_weak publishes stage and anchor in one word; it fails  *)
(* when another delivery was first, or for no reason, and the loop begins  *)
(* again.                                                                  *)
OpenWindow(d) ==
    /\ At(d, "open")
    /\ \/ /\ stage = "idle"
          /\ stage' = "grace" /\ anchor' = handler[d].now
          /\ Goto(d, AskNext)
       \/ Goto(d, "load") /\ UNCHANGED <<stage, anchor>>
    /\ UNCHANGED <<clock, shutdown, windowVars, mainStep, capture, exited>>

AskShutdown(d) ==
    /\ At(d, "ask")
    /\ shutdown' = TRUE
    /\ Goto(d, "done")
    /\ UNCHANGED <<clock, stage, anchor, windowVars, mainStep, capture, exited>>

WrappingElapsed(now) == (now - anchor) % (2 * LastInstant)
Elapsed(now) == IF now > anchor THEN now - anchor ELSE 0

GivesUp(d) == Elapsed(handler[d].now) >= graceWindow

(* The store of STAGE_FORCE_EXIT resets the anchor to zero, which only     *)
(* makes a later delivery give up as well.                                 *)
ForceExit(d) ==
    /\ At(d, "decide") /\ GivesUp(d)
    /\ stage' = "force" /\ anchor' = 0
    /\ Goto(d, "exit")
    /\ UNCHANGED <<clock, shutdown, windowVars, mainStep, capture, exited>>

Swallow(d) ==
    /\ At(d, "decide") /\ ~GivesUp(d)
    /\ Goto(d, "done")
    /\ UNCHANGED <<clock, stage, anchor, shutdown, windowVars, mainStep, capture, exited>>

Exit(d) ==
    /\ At(d, "exit")
    /\ exited' = "forced"
    /\ UNCHANGED <<clock, handlerVars, windowVars, mainStep, capture>>

Handle(d) ==
    \/ LoadState(d) \/ OpenWindow(d) \/ AskShutdown(d)
    \/ ForceExit(d) \/ Swallow(d) \/ Exit(d)

-----------------------------------------------------------------------------
(* The main thread.                                                        *)

(* With --record the window is widened once the worker has answered; the   *)
(* capture begins when audio streams.                                      *)
ArmRecordingGraceWindow ==
    /\ Alive /\ mainStep = "starting"
    /\ graceWindow' = RecordingWindow
    /\ mainStep' = "arming"
    /\ UNCHANGED <<clock, handlerVars, windowArmed, capture, exited>>

MarkArmed ==
    /\ Alive /\ mainStep = "arming"
    /\ windowArmed' = TRUE
    /\ mainStep' = "running" /\ capture' = "open"
    /\ UNCHANGED <<clock, handlerVars, graceWindow, exited>>

StartWithoutRecording ==
    /\ Alive /\ mainStep = "starting"
    /\ mainStep' = "running"
    /\ UNCHANGED <<clock, handlerVars, windowVars, capture, exited>>

(* The control loop ends when it sees SHUTDOWN, or when the backend is     *)
(* lost for good.                                                          *)
Teardown ==
    /\ Alive /\ mainStep = "running"
    /\ mainStep' = "joining"
    /\ UNCHANGED <<clock, handlerVars, windowVars, capture, exited>>

StopOnSignal == shutdown /\ Teardown

(* teardown() of the recording guard waits for the worker, which ends the  *)
(* capture, or gives it up after RECORDING_IO_JOIN_TIMEOUT.                *)
Joined == IF capture = "none" THEN {"none"} ELSE {"final", "abandoned"}
JoinWorker ==
    /\ Alive /\ mainStep = "joining"
    /\ capture' \in Joined
    /\ mainStep' = "disarming"
    /\ UNCHANGED <<clock, handlerVars, windowVars, exited>>

DisarmRecordingGraceWindow ==
    /\ Alive /\ mainStep = "disarming"
    /\ windowArmed' = FALSE
    /\ mainStep' = IF windowArmed THEN "restoring" ELSE "exiting"
    /\ UNCHANGED <<clock, handlerVars, graceWindow, capture, exited>>

RestoreWindow ==
    /\ Alive /\ mainStep = "restoring"
    /\ graceWindow' = DefaultWindow
    /\ mainStep' = "exiting"
    /\ UNCHANGED <<clock, handlerVars, windowArmed, capture, exited>>

Leave ==
    /\ Alive /\ mainStep = "exiting"
    /\ exited' = "orderly"
    /\ UNCHANGED <<clock, handlerVars, windowVars, mainStep, capture>>

Startup == ArmRecordingGraceWindow \/ MarkArmed \/ StartWithoutRecording
Closing == JoinWorker \/ DisarmRecordingGraceWindow \/ RestoreWindow \/ Leave

SignalsNext ==
    \/ TickClock
    \/ \E d \in Deliveries : Deliver(d) \/ Handle(d)
    \/ Startup \/ Teardown \/ Closing

(* Startup ends, a handler that runs ends (its loop repeats only when      *)
(* another delivery won, or the exchange fails for no reason), the control *)
(* loop looks at SHUTDOWN at least every 100 ms and the join is bounded.   *)
SignalsFairness ==
    /\ WF_signalsVars(Startup) /\ WF_signalsVars(StopOnSignal) /\ WF_signalsVars(Closing)
    /\ \A d \in Deliveries :
           /\ WF_signalsVars(Handle(d))
           /\ SF_signalsVars(OpenWindow(d) /\ stage' = "grace")

SignalsSpec == SignalsInit /\ [][SignalsNext]_signalsVars /\ SignalsFairness

-----------------------------------------------------------------------------
(* Properties                                                              *)

SignalsTypeOK ==
    /\ clock \in 0 .. LastInstant
    /\ stage \in {"idle", "grace", "force"} /\ anchor \in 0 .. LastInstant
    /\ graceWindow \in {DefaultWindow, RecordingWindow}
    /\ windowArmed \in BOOLEAN /\ shutdown \in BOOLEAN
    /\ handler \in [Deliveries ->
           [step : {"pending", "load", "open", "ask", "decide", "exit", "done"},
            now : 0 .. LastInstant]]
    /\ mainStep \in {"starting", "arming", "running", "joining", "disarming", "restoring",
                     "exiting"}
    /\ capture \in {"none", "open", "final", "abandoned"}
    /\ exited \in {"no", "orderly", "forced"}

(* A delivery gives up only after another one, whose time is at least the  *)
(* default window in the past; while a capture is open, at least the wide  *)
(* one.  However the deliveries race each other, the arming and the        *)
(* disarming, an almost simultaneous second signal never cuts a recording  *)
(* off.                                                                    *)
Required == IF capture = "open" THEN RecordingWindow ELSE DefaultWindow
First == {d \in Deliveries : handler[d].now = anchor /\ handler[d].step \in {"ask", "done"}}
EscalationIsDeliberate ==
    [][\A d \in Deliveries :
           (stage = "grace" /\ ForceExit(d)) =>
               /\ First \ {d} # {}
               /\ clock - anchor >= Required]_signalsVars

(* Whoever wins the race for the window, a signal that was delivered ends  *)
(* the process.                                                            *)
SignalEndsProcess ==
    (\E d \in Deliveries : handler[d].step # "pending") ~> (exited # "no")
=============================================================================
