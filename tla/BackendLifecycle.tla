--------------------------- MODULE BackendLifecycle ---------------------------
(***************************************************************************)
(* The life of the PipeWire host: an instance (connection, two streams,    *)
(* thread loop) is started, watched, torn down and started again within a  *)
(* bounded number of attempts, until a signal, a panic of the real-time    *)
(* callback or an exhausted budget ends the session.                       *)
(*                                                                         *)
(* Four threads take part.  The main thread runs the control loop.  The    *)
(* PipeWire loop thread calls the stream listeners, which keep the shared  *)
(* status.  The real-time callback can only raise the panic latch, a       *)
(* signal handler only the shutdown flag.  A transition of the status is   *)
(* one critical section under its mutex and one step; the flags read       *)
(* outside the mutex are read in steps of their own.  The lock-free mirror *)
(* of Running is stored in every such section and needs no variable.       *)
(*                                                                         *)
(* What PipeWire does to a stream is the environment: link and format are  *)
(* its view of the streams of the current instance, and no code reads      *)
(* them.  Time passes only where the code measures it: the backoff, and    *)
(* the window of stable streaming that gives the attempts back.            *)
(***************************************************************************)
EXTENDS RetryBudget

CONSTANT Streams        \* capture and playback
ASSUME StreamsAssumption == Streams # {}

VARIABLES
    state, failed,          \* detailed BackendState, lock-free failure flag
    active, formatOk,       \* per stream: streaming, format contract valid
    teardown,               \* teardown_in_progress
    link, format,           \* PipeWire: stream state, negotiated format
    connected,              \* PipeWire: the core connection is alive
    looping, handler,       \* thread loop running, where its listener is
    panic, shutdown,        \* RT_STATUS_PANIC_CAPTURED, SHUTDOWN
    pc,                     \* control: step of the main thread
    instanceFailure,        \* why this instance ended: none, stream, panic
    backendFailure, result, \* the session is lost; what run returns
    ran, failedInWindow     \* history: an instance ran; a failure since the
                            \* stability window was opened

statusVars == <<state, failed, active, formatOk>>
pipewireVars == <<link, format, connected>>
loopVars == <<looping, handler>>
endVars == <<instanceFailure, backendFailure, result>>
historyVars == <<ran, failedInWindow>>
vars == <<statusVars, teardown, pipewireVars, loopVars, panic, shutdown, cycleVars,
          pc, endVars, historyVars>>

None == [s \in Streams |-> FALSE]

Init ==
    /\ state = "Starting" /\ failed = FALSE
    /\ active = None /\ formatOk = [s \in Streams |-> TRUE]
    /\ teardown = FALSE
    /\ link = [s \in Streams |-> "Unconnected"]
    /\ format = [s \in Streams |-> "none"]
    /\ connected = FALSE
    /\ looping = FALSE /\ handler = "idle"
    /\ panic = FALSE /\ shutdown = FALSE
    /\ CycleInit
    /\ pc = "connect" /\ instanceFailure = "none"
    /\ backendFailure = FALSE /\ result = "none"
    /\ ran = FALSE /\ failedInWindow = FALSE

-----------------------------------------------------------------------------
(* The transitions of the shared status, each under its mutex.             *)

(* update_stream_health_locked: what the two streams say of the host.      *)
RecoveryUnnoticed(st, streaming, valid) ==
    CASE st \in {"Starting", "Degraded"} /\ streaming /\ valid -> "Running"
      [] st = "Running" /\ ~streaming -> "Starting"
      [] st = "Running" /\ streaming /\ ~valid -> "Degraded"
      [] st = "Degraded" /\ ~streaming /\ valid -> "Starting"
      [] OTHER -> st
Health(st, streaming, valid) ==
    CASE st \in {"Starting", "Reconnecting", "Degraded"} /\ streaming /\ valid -> "Running"
      [] st = "Running" /\ ~streaming -> "Starting"
      [] st = "Running" /\ streaming /\ ~valid -> "Degraded"
      [] st = "Degraded" /\ ~streaming /\ valid -> "Starting"
      [] OTHER -> st

UpdateHealth ==
    /\ state' = IF failed THEN state
                ELSE Health(state, \A s \in Streams : active'[s],
                                   \A s \in Streams : formatOk'[s])
    /\ UNCHANGED failed

SetActive(s, on) ==
    /\ active' = [active EXCEPT ![s] = on]
    /\ UNCHANGED formatOk
    /\ UpdateHealth

MarkFormatOk(s) ==
    /\ formatOk' = [formatOk EXCEPT ![s] = TRUE]
    /\ UNCHANGED active
    /\ UpdateHealth

(* The format latch falls before the status is marked.                     *)
DegradedState == IF failed THEN state ELSE "Degraded"
MarkDegraded(s) ==
    /\ formatOk' = [formatOk EXCEPT ![s] = FALSE]
    /\ state' = DegradedState
    /\ UNCHANGED <<failed, active>>

MarkFailed ==
    /\ state' = "Failed" /\ failed' = TRUE
    /\ failedInWindow' = TRUE
    /\ UNCHANGED <<active, formatOk>>

(* begin_reconnect keeps the format latches of the instance that ended.    *)
Deactivated == None
FailureCleared == failed' = FALSE
BeginReconnect ==
    /\ state' = "Reconnecting"
    /\ FailureCleared
    /\ active' = Deactivated
    /\ UNCHANGED formatOk

-----------------------------------------------------------------------------
(* PipeWire and its loop thread: a stream changes, the listener runs.      *)

(* The daemon stops, crashes or is restarted: this connection is dead.     *)
LoseConnection ==
    /\ connected
    /\ connected' = FALSE
    /\ UNCHANGED <<statusVars, teardown, link, format, loopVars, panic, shutdown,
                   cycleVars, pc, endVars, historyVars>>

Listening == looping /\ handler = "idle"

ListenerUnchanged ==
    UNCHANGED <<teardown, connected, looping, panic, shutdown, cycleVars, pc,
                endVars, ran>>

(* Paused: the stream is connected but idle, or the graph paused it.       *)
Pause(s) ==
    /\ Listening /\ connected /\ link[s] \in {"Connecting", "Streaming"}
    /\ link' = [link EXCEPT ![s] = "Paused"]
    /\ SetActive(s, FALSE)
    /\ UNCHANGED <<format, handler, failedInWindow>>
    /\ ListenerUnchanged

(* PipeWire starts a stream only after a format was negotiated.            *)
Stream(s) ==
    /\ Listening /\ connected /\ link[s] = "Paused" /\ format[s] # "none"
    /\ link' = [link EXCEPT ![s] = "Streaming"]
    /\ SetActive(s, TRUE)
    /\ UNCHANGED <<format, handler, failedInWindow>>
    /\ ListenerUnchanged

AcceptFormat(s) ==
    /\ Listening /\ connected /\ link[s] \in {"Paused", "Streaming"}
    /\ format' = [format EXCEPT ![s] = "accepted"]
    /\ MarkFormatOk(s)
    /\ UNCHANGED <<link, handler, failedInWindow>>
    /\ ListenerUnchanged

RejectFormat(s) ==
    /\ Listening /\ connected /\ link[s] \in {"Paused", "Streaming"}
    /\ format' = [format EXCEPT ![s] = "rejected"]
    /\ MarkDegraded(s)
    /\ UNCHANGED <<link, handler, failedInWindow>>
    /\ ListenerUnchanged

(* Error: the stream is marked inactive, then the backend failed.          *)
StreamError(s) ==
    /\ Listening /\ link[s] \in {"Connecting", "Paused", "Streaming"}
    /\ link' = [link EXCEPT ![s] = "Error"]
    /\ SetActive(s, FALSE)
    /\ handler' = "fail"
    /\ UNCHANGED <<format, failedInWindow>>
    /\ ListenerUnchanged

(* Unconnected is a loss only for a stream that was connected; of another  *)
(* one the listener takes no notice.                                       *)
OnlyStreamingWasConnected(old) == old = "Streaming"
WasConnected(old) == old \in {"Paused", "Streaming"}
Disconnect(s) ==
    /\ Listening /\ link[s] \in {"Connecting", "Paused", "Streaming"}
    /\ link' = [link EXCEPT ![s] = "Unconnected"]
    /\ \/ /\ WasConnected(link[s])
          /\ SetActive(s, FALSE)
          /\ handler' = "shutdown"
       \/ /\ ~WasConnected(link[s])
          /\ UNCHANGED <<statusVars, handler>>
    /\ UNCHANGED <<format, failedInWindow>>
    /\ ListenerUnchanged

(* ... and only if neither a shutdown nor a teardown explains it.          *)
AskShutdown ==
    /\ handler = "shutdown"
    /\ handler' = IF shutdown THEN "idle" ELSE "teardown"
    /\ UNCHANGED <<statusVars, link, format, failedInWindow>>
    /\ ListenerUnchanged

AskTeardown ==
    /\ handler = "teardown"
    /\ handler' = IF teardown THEN "idle" ELSE "fail"
    /\ UNCHANGED <<statusVars, link, format, failedInWindow>>
    /\ ListenerUnchanged

ReportFailure ==
    /\ handler = "fail"
    /\ handler' = "idle"
    /\ MarkFailed
    /\ UNCHANGED <<link, format>>
    /\ ListenerUnchanged

LoopThread ==
    \/ \E s \in Streams :
        Pause(s) \/ Stream(s) \/ AcceptFormat(s) \/ RejectFormat(s)
        \/ StreamError(s) \/ Disconnect(s)
    \/ AskShutdown \/ AskTeardown \/ ReportFailure

(* A panic in the body of a real-time callback is contained and latched.   *)
Panic ==
    /\ ~panic /\ looping /\ \E s \in Streams : link[s] = "Streaming"
    /\ panic' = TRUE
    /\ UNCHANGED <<statusVars, teardown, pipewireVars, loopVars, shutdown, cycleVars,
                   pc, endVars, historyVars>>

(* The first termination signal; later ones change nothing here.           *)
Signal ==
    /\ ~shutdown
    /\ shutdown' = TRUE
    /\ UNCHANGED <<statusVars, teardown, pipewireVars, loopVars, panic, cycleVars,
                   pc, endVars, historyVars>>

-----------------------------------------------------------------------------
(* The control loop feeds the window; only the clock completes it.         *)
NoteHealthy ==
    /\ NoteStable
    /\ failedInWindow' = IF window = "open" THEN failedInWindow ELSE FALSE

WindowElapses ==
    /\ result = "none" /\ Elapse
    /\ UNCHANGED <<statusVars, teardown, pipewireVars, loopVars, panic, shutdown,
                   pc, endVars, historyVars>>

-----------------------------------------------------------------------------
(* The main thread: run_pipewire_host.                                     *)

OthersUnchanged == UNCHANGED <<handler, panic, shutdown>>

(* Take an attempt and wait for its backoff, or give the backend up.       *)
RetryOrGiveUp ==
    \/ /\ BeginAttempt
       /\ BeginReconnect
       /\ pc' = "backoff"
       /\ UNCHANGED backendFailure
    \/ /\ ~CanRetry
       /\ backendFailure' = TRUE
       /\ pc' = "final"
       /\ UNCHANGED <<statusVars, cycleVars>>

Connect ==
    /\ pc = "connect"
    /\ connected' = TRUE
    /\ pc' = "setup"
    /\ UNCHANGED <<statusVars, teardown, link, format, looping, cycleVars, endVars,
                   historyVars>>
    /\ OthersUnchanged

(* The thread loop or its context cannot be made: an early return.         *)
ContextFails ==
    /\ pc = "connect"
    /\ result' = "error"
    /\ pc' = "done"
    /\ UNCHANGED <<statusVars, teardown, pipewireVars, looping, cycleVars,
                   instanceFailure, backendFailure, historyVars>>
    /\ OthersUnchanged

(* The daemon is unreachable or a stream cannot be made.  The very first   *)
(* time, told by the attempts made, the host does not start at all.        *)
InstanceFails ==
    /\ pc \in {"connect", "setup"}
    /\ \/ /\ attempts = 0
          /\ result' = "startup_error"
          /\ pc' = "done"
          /\ UNCHANGED <<statusVars, cycleVars, backendFailure>>
       \/ /\ attempts > 0
          /\ RetryOrGiveUp
          /\ UNCHANGED result
    /\ connected' = FALSE
    /\ UNCHANGED <<teardown, link, format, looping, instanceFailure, historyVars>>
    /\ OthersUnchanged

(* Both streams are connecting: the teardown of the last instance is over. *)
Setup ==
    /\ pc = "setup"
    /\ link' = [s \in Streams |-> "Connecting"]
    /\ format' = [s \in Streams |-> "none"]
    /\ teardown' = FALSE
    /\ pc' = "start"
    /\ UNCHANGED <<statusVars, connected, looping, cycleVars, endVars, historyVars>>
    /\ OthersUnchanged

Start ==
    /\ pc = "start"
    /\ looping' = TRUE
    /\ instanceFailure' = "none"
    /\ ran' = TRUE
    /\ pc' = "test"
    /\ UNCHANGED <<statusVars, teardown, pipewireVars, cycleVars, backendFailure,
                   result, failedInWindow>>
    /\ OthersUnchanged

PollUnchanged ==
    /\ UNCHANGED <<teardown, pipewireVars, looping, backendFailure, result, ran>>
    /\ OthersUnchanged

StopsWhenRunning == shutdown /\ state = "Running"
StopRequested == shutdown
TestShutdown ==
    /\ pc = "test"
    /\ pc' = IF StopRequested THEN "recheck" ELSE "failure"
    /\ UNCHANGED <<statusVars, cycleVars, instanceFailure, failedInWindow>>
    /\ PollUnchanged

FailureSeen == failed
PollFailure ==
    /\ pc = "failure"
    /\ \/ FailureSeen /\ instanceFailure' = "stream" /\ pc' = "recheck"
       \/ ~FailureSeen /\ pc' = "panic" /\ UNCHANGED instanceFailure
    /\ UNCHANGED <<statusVars, cycleVars, failedInWindow>>
    /\ PollUnchanged

PollPanic ==
    /\ pc = "panic"
    /\ \/ panic /\ MarkFailed /\ instanceFailure' = "panic" /\ pc' = "recheck"
       \/ /\ ~panic /\ pc' = "stable"
          /\ UNCHANGED <<statusVars, instanceFailure, failedInWindow>>
    /\ UNCHANGED cycleVars
    /\ PollUnchanged

(* The rest of an iteration, the rebuild handlers, the garbage drain and   *)
(* the wait for a wakeup or 100 ms, touches nothing of this module.        *)
PollStability ==
    /\ pc = "stable"
    /\ \/ state = "Running" /\ NoteHealthy
       \/ state # "Running" /\ NoteUnstable /\ UNCHANGED failedInWindow
    /\ pc' = "test"
    /\ UNCHANGED <<statusVars, instanceFailure>>
    /\ PollUnchanged

Recheck ==
    /\ pc = "recheck"
    /\ instanceFailure' =
        IF instanceFailure = "none" /\ panic THEN "panic" ELSE instanceFailure
    /\ pc' = "enter"
    /\ UNCHANGED <<statusVars, cycleVars, failedInWindow>>
    /\ PollUnchanged

EnterTeardown ==
    /\ pc = "enter"
    /\ teardown' = TRUE
    /\ pc' = "stop"
    /\ UNCHANGED <<statusVars, pipewireVars, looping, cycleVars, endVars, historyVars>>
    /\ OthersUnchanged

(* thread_loop.stop() waits for the listener that is running.              *)
StopLoop ==
    /\ pc = "stop" /\ handler = "idle"
    /\ looping' = FALSE
    /\ pc' = "drop"
    /\ UNCHANGED <<statusVars, teardown, pipewireVars, cycleVars, endVars, historyVars>>
    /\ OthersUnchanged

(* The listeners are removed before the streams: no listener runs.         *)
DropStreams ==
    /\ pc = "drop"
    /\ link' = [s \in Streams |-> "Unconnected"]
    /\ connected' = FALSE
    /\ pc' = "decide"
    /\ UNCHANGED <<statusVars, teardown, format, looping, cycleVars, endVars,
                   historyVars>>
    /\ OthersUnchanged

Decide ==
    /\ pc = "decide"
    /\ \/ /\ instanceFailure = "none"
          /\ pc' = "final"
          /\ UNCHANGED <<statusVars, cycleVars, backendFailure>>
       \/ /\ instanceFailure = "panic"
          /\ backendFailure' = TRUE
          /\ pc' = "final"
          /\ UNCHANGED <<statusVars, cycleVars>>
       \/ /\ instanceFailure = "stream"
          /\ RetryOrGiveUp
    /\ UNCHANGED <<teardown, pipewireVars, looping, instanceFailure, result,
                   historyVars>>
    /\ OthersUnchanged

(* The last look at the flag: a signal before it cuts the sleep short.     *)
Backoff ==
    /\ pc = "backoff"
    /\ pc' = IF shutdown THEN "final" ELSE "connect"
    /\ UNCHANGED <<statusVars, teardown, pipewireVars, looping, cycleVars, endVars,
                   historyVars>>
    /\ OthersUnchanged

(* The recording is finalized, the status terminated, the result returned. *)
Outcome == IF backendFailure THEN "error" ELSE "ok"
Finish ==
    /\ pc = "final"
    /\ state' = "Terminated" /\ active' = None
    /\ result' = Outcome
    /\ pc' = "done"
    /\ UNCHANGED <<failed, formatOk, teardown, pipewireVars, looping, cycleVars,
                   instanceFailure, backendFailure, historyVars>>
    /\ OthersUnchanged

Main ==
    \/ Connect \/ ContextFails \/ InstanceFails \/ Setup \/ Start
    \/ TestShutdown \/ PollFailure \/ PollPanic \/ PollStability
    \/ Recheck \/ EnterTeardown \/ StopLoop \/ DropStreams \/ Decide
    \/ Backoff \/ Finish

Next == Main \/ LoopThread \/ LoseConnection \/ Panic \/ Signal \/ WindowElapses

(* The main thread and a listener that has begun go on; PipeWire reports a *)
(* lost connection to every stream.  Nothing else has to happen.           *)
Fairness ==
    /\ WF_vars(Main)
    /\ WF_vars(AskShutdown \/ AskTeardown \/ ReportFailure)
    /\ \A s \in Streams : WF_vars(~connected /\ Disconnect(s))

Spec == Init /\ [][Next]_vars /\ Fairness

-----------------------------------------------------------------------------
StatusTypes ==
    /\ state \in {"Starting", "Running", "Degraded", "Reconnecting", "Failed", "Terminated"}
    /\ failed \in BOOLEAN /\ teardown \in BOOLEAN
    /\ active \in [Streams -> BOOLEAN] /\ formatOk \in [Streams -> BOOLEAN]

PipewireTypes ==
    /\ link \in [Streams -> {"Unconnected", "Connecting", "Paused", "Streaming", "Error"}]
    /\ format \in [Streams -> {"none", "accepted", "rejected"}]
    /\ connected \in BOOLEAN /\ looping \in BOOLEAN
    /\ handler \in {"idle", "shutdown", "teardown", "fail"}
    /\ panic \in BOOLEAN /\ shutdown \in BOOLEAN

ControlTypes ==
    /\ attempts \in 0 .. MaxAttempts
    /\ window \in {"closed", "open", "elapsed"}
    /\ pc \in {"connect", "setup", "start", "test", "failure", "panic", "stable",
               "recheck", "enter", "stop", "drop", "decide", "backoff", "final", "done"}
    /\ instanceFailure \in {"none", "stream", "panic"}
    /\ backendFailure \in BOOLEAN
    /\ result \in {"none", "ok", "error", "startup_error"}
    /\ ran \in BOOLEAN /\ failedInWindow \in BOOLEAN

(* The variables keep their types; in particular one episode of failures   *)
(* never takes more attempts than the policy allows.                       *)
TypeOK == StatusTypes /\ PipewireTypes /\ ControlTypes

(* invariants_hold of a status snapshot: the lock-free failure flag says   *)
(* what the detailed state says, except after the end.                     *)
SnapshotCoherent == state # "Terminated" => (failed <=> state = "Failed")

Healthy == \A s \in Streams : active[s] /\ formatOk[s]

(* Until a failure or the end the host is Running exactly when both        *)
(* streams are active with a valid format: neither a reconnection nor a    *)
(* degraded format leaves a healthy host in a state it was in before, and  *)
(* the state the control loop takes for streaming is streaming.            *)
StateTellsHealth ==
    state \notin {"Failed", "Terminated"} => (state = "Running" <=> Healthy)

(* A Running host has both streams streaming and no rejected format in     *)
(* this very instance: nothing is remembered of the one before.            *)
RunningIsTrue ==
    looping /\ state = "Running" =>
        \A s \in Streams : link[s] = "Streaming" /\ format[s] # "rejected"

(* A new instance starts without the failure of the one before it, even if *)
(* the second stream failed while the first one was being handled.         *)
InstanceStartsClean ==
    pc \in {"setup", "start"} => ~failed /\ active = None

(* What the status says of the backend is true.                            *)
StatusIsTrue == SnapshotCoherent /\ StateTellsHealth /\ RunningIsTrue

(* Success is returned only after a termination signal.                    *)
OkOnlyIfAsked == result = "ok" => shutdown

(* Only the budget or a panic makes the host give a backend up.            *)
GivesUpOnlyWhenSpent ==
    backendFailure => instanceFailure = "panic" \/ attempts = MaxAttempts

(* The fail-fast path of the first connection, which is recognised by an   *)
(* unused budget, is never taken after an instance has run: giving the     *)
(* attempts back does not make a reconnection look like a startup.         *)
StartupErrorOnlyAtStartup == result = "startup_error" => ~ran

(* A session does not misname its end.                                     *)
EndIsHonest == OkOnlyIfAsked /\ GivesUpOnlyWhenSpent /\ StartupErrorOnlyAtStartup

(* Attempts are given back only after a window in which nothing failed:    *)
(* within one incident the budget is never reset.                          *)
ReplenishedAfterHealth ==
    [][attempts' = 0 /\ attempts # 0 => ~failedInWindow]_vars

(* A termination signal ends the session, whatever it is doing.            *)
SignalEnds == shutdown ~> result # "none"

(* A stream that was connected and loses its connection ends the instance. *)
EstablishedLossEnds ==
    \A s \in Streams :
        looping /\ ~connected /\ link[s] \in {"Paused", "Streaming"} ~> ~looping

(* The process never survives without a backend (status.rs: "the process   *)
(* never survives as a functionally-dead zombie").                         *)
NoZombie == looping /\ ~connected ~> ~looping

(* A contained panic surfaces as a failure (run.rs: "never as a Success"). *)
PanicIsNoSuccess == result = "ok" => ~panic
=============================================================================
