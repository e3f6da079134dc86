----------------------- MODULE BackendLifecycle_proofs -----------------------
(***************************************************************************)
(* What TLAPS proves of BackendLifecycle, for every set of streams and     *)
(* every budget of attempts.                                               *)
(***************************************************************************)
EXTENDS BackendLifecycle, TLAPS

(***************************************************************************)
(* The inductive invariant.                                                *)
(***************************************************************************)

(* Where the main thread is while something of an instance is in progress. *)
Position ==
    /\ looping => pc \in {"test", "failure", "panic", "stable", "recheck", "enter", "stop"}
    /\ handler # "idle" => looping
    /\ state = "Terminated" => pc = "done"
    /\ result # "none" => pc = "done"
    /\ backendFailure => pc \in {"final", "done"}

(* Between two instances nothing of the first one is left.                 *)
BetweenInstances ==
    pc \in {"backoff", "connect", "setup", "start"} => ~failed /\ active = None

(* The status follows what PipeWire does to the streams of this instance.  *)
StatusFollows ==
    looping \/ pc = "start" =>
        \A s \in Streams :
            /\ active[s] => link[s] = "Streaming"
            /\ format[s] = "rejected" => ~formatOk[s]

(* Whatever ends an instance without a failure is a signal.                *)
EndsBySignal ==
    /\ pc \in {"recheck", "enter", "stop", "drop", "decide"} /\ instanceFailure = "none"
         => shutdown
    /\ pc = "final" /\ ~backendFailure => shutdown
    /\ OkOnlyIfAsked

(* The budget is unused only before the first instance.                    *)
FreshBudget ==
    /\ pc = "backoff" => attempts > 0
    /\ pc \in {"connect", "setup", "start"} => attempts > 0 \/ ~ran
    /\ StartupErrorOnlyAtStartup

(* A failure in an open window has not been repaired yet.                  *)
WindowHonest == failedInWindow /\ window # "closed" => failed

IInv ==
    /\ TypeOK /\ Position /\ SnapshotCoherent /\ StateTellsHealth
    /\ BetweenInstances /\ StatusFollows /\ EndsBySignal
    /\ GivesUpOnlyWhenSpent /\ FreshBudget /\ WindowHonest

-----------------------------------------------------------------------------
(***************************************************************************)
(* What the steps that are not the main thread's leave alone.              *)
(***************************************************************************)

LEMMA InitHolds == Init => IInv
<1>1. SUFFICES ASSUME Init PROVE IInv
  OBVIOUS
<1>2. StatusTypes BY <1>1 DEF Init, None, StatusTypes
<1>3. PipewireTypes BY <1>1 DEF Init, PipewireTypes
<1>4. ControlTypes
  <2>1. attempts \in 0 .. MaxAttempts BY <1>1, AttemptsAssumption DEF Init, CycleInit
  <2> QED BY <1>1, <2>1 DEF Init, CycleInit, ControlTypes
<1>5. TypeOK BY <1>2, <1>3, <1>4 DEF TypeOK
<1>6. Position /\ SnapshotCoherent /\ WindowHonest
  BY <1>1 DEF Init, CycleInit, Position, SnapshotCoherent, WindowHonest
<1>7. StateTellsHealth
  BY <1>1, StreamsAssumption DEF Init, None, StateTellsHealth, Healthy
<1>8. BetweenInstances /\ StatusFollows
  BY <1>1 DEF Init, None, BetweenInstances, StatusFollows
<1>9. EndsBySignal /\ GivesUpOnlyWhenSpent /\ FreshBudget
  BY <1>1 DEF Init, CycleInit, EndsBySignal, OkOnlyIfAsked, GivesUpOnlyWhenSpent, FreshBudget,
              StartupErrorOnlyAtStartup
<1> QED BY <1>5, <1>6, <1>7, <1>8, <1>9 DEF IInv

(* Steps that are neither the main thread's nor a listener's.              *)
Environment == LoseConnection \/ Panic \/ Signal \/ WindowElapses \/ UNCHANGED vars

LEMMA StepCases == [Next]_vars => Main \/ LoopThread \/ Environment
  BY DEF Next, Environment

LEMMA EnvironmentFrame ==
  ASSUME Environment
  PROVE  /\ UNCHANGED <<statusVars, teardown, link, format, loopVars, attempts, pc, endVars,
                        historyVars>>
         /\ shutdown => shutdown'
         /\ window' = window \/ (window = "open" /\ window' = "elapsed")
  BY DEF Environment, LoseConnection, Panic, Signal, WindowElapses, Elapse, vars, statusVars,
         pipewireVars, loopVars, cycleVars, endVars, historyVars

(* A listener runs only while the thread loop does.                        *)
LEMMA ListenerFrame ==
  ASSUME Position, LoopThread
  PROVE  /\ looping
         /\ UNCHANGED <<teardown, looping, shutdown, cycleVars, pc, endVars, ran>>
<1>1. LoopThread => ListenerUnchanged
  BY DEF LoopThread, Pause, Stream, AcceptFormat, RejectFormat, StreamError, Disconnect,
         AskShutdown, AskTeardown, ReportFailure
<1>2. LoopThread => looping
  BY DEF LoopThread, Pause, Stream, AcceptFormat, RejectFormat, StreamError, Disconnect,
         AskShutdown, AskTeardown, ReportFailure, Listening, Position
<1> QED BY <1>1, <1>2 DEF ListenerUnchanged

(* What a listener does to the status and to the history of failures.      *)
ListenerStatus(s) ==
    /\ UNCHANGED failedInWindow
    /\ \/ \E on \in BOOLEAN : SetActive(s, on)
       \/ MarkFormatOk(s)
       \/ MarkDegraded(s)

LEMMA ListenerCases ==
  ASSUME LoopThread
  PROVE  \/ \E s \in Streams : ListenerStatus(s)
         \/ MarkFailed
         \/ UNCHANGED <<statusVars, failedInWindow>>
<1>1. ASSUME NEW s \in Streams,
             Pause(s) \/ Stream(s) \/ AcceptFormat(s) \/ RejectFormat(s) \/ StreamError(s)
      PROVE  ListenerStatus(s)
  BY <1>1 DEF Pause, Stream, AcceptFormat, RejectFormat, StreamError, ListenerStatus
<1>2. ASSUME NEW s \in Streams, Disconnect(s)
      PROVE  ListenerStatus(s) \/ UNCHANGED <<statusVars, failedInWindow>>
  BY <1>2 DEF Disconnect, ListenerStatus, statusVars
<1>3. AskShutdown \/ AskTeardown => UNCHANGED <<statusVars, failedInWindow>>
  BY DEF AskShutdown, AskTeardown, statusVars
<1>4. ReportFailure => MarkFailed
  BY DEF ReportFailure
<1> QED BY <1>1, <1>2, <1>3, <1>4 DEF LoopThread


-----------------------------------------------------------------------------
(***************************************************************************)
(* What the main thread does to the status.                                *)
(***************************************************************************)

LEMMA MainStatus ==
  ASSUME Main
  PROVE  \/ UNCHANGED <<statusVars, failedInWindow>>
         \/ BeginAttempt /\ BeginReconnect /\ UNCHANGED failedInWindow
         \/ MarkFailed /\ UNCHANGED cycleVars
         \/ PollStability
         \/ Finish
<1>1. CASE Connect \/ ContextFails \/ Setup \/ Start
  BY <1>1 DEF Connect, ContextFails, Setup, Start, historyVars
<1>2. CASE TestShutdown \/ PollFailure \/ PollPanic \/ Recheck
  BY <1>2 DEF TestShutdown, PollFailure, PollPanic, Recheck
<1>3. CASE EnterTeardown \/ StopLoop \/ DropStreams \/ Backoff
  BY <1>3 DEF EnterTeardown, StopLoop, DropStreams, Backoff, historyVars
<1>4. CASE InstanceFails
  BY <1>4 DEF InstanceFails, RetryOrGiveUp, historyVars
<1>5. CASE Decide
  BY <1>5 DEF Decide, RetryOrGiveUp, historyVars
<1>6. CASE PollStability \/ Finish
  BY <1>6
<1> QED BY <1>1, <1>2, <1>3, <1>4, <1>5, <1>6 DEF Main

-----------------------------------------------------------------------------
(***************************************************************************)
(* The types.                                                              *)
(***************************************************************************)

LEMMA HealthIsState ==
  ASSUME NEW st \in {"Starting", "Running", "Degraded", "Reconnecting", "Failed", "Terminated"},
         NEW streaming \in BOOLEAN, NEW valid \in BOOLEAN
  PROVE  Health(st, streaming, valid)
            \in {"Starting", "Running", "Degraded", "Reconnecting", "Failed", "Terminated"}
  BY DEF Health

LEMMA StatusTypesStep ==
  ASSUME StatusTypes, Position, [Next]_vars
  PROVE  StatusTypes'
<1>1. CASE Environment
  BY <1>1, EnvironmentFrame DEF StatusTypes, statusVars
<1>2. CASE LoopThread
  <2>1. teardown' \in BOOLEAN
    BY <1>2, ListenerFrame DEF StatusTypes
  <2>2. ASSUME NEW s \in Streams, NEW on \in BOOLEAN, SetActive(s, on)
        PROVE  StatusTypes'
    <3>1. active' \in [Streams -> BOOLEAN] /\ formatOk' = formatOk /\ failed' = failed
      BY <2>2 DEF SetActive, UpdateHealth, StatusTypes
    <3>2. state' = state \/ state' = Health(state, \A t \in Streams : active'[t],
                                                  \A t \in Streams : formatOk'[t])
      BY <2>2 DEF SetActive, UpdateHealth
    <3> QED BY <2>1, <3>1, <3>2, HealthIsState DEF StatusTypes
  <2>3. ASSUME NEW s \in Streams, MarkFormatOk(s)
        PROVE  StatusTypes'
    <3>1. active' = active /\ formatOk' \in [Streams -> BOOLEAN] /\ failed' = failed
      BY <2>3 DEF MarkFormatOk, UpdateHealth, StatusTypes
    <3>2. state' = state \/ state' = Health(state, \A t \in Streams : active'[t],
                                                  \A t \in Streams : formatOk'[t])
      BY <2>3 DEF MarkFormatOk, UpdateHealth
    <3> QED BY <2>1, <3>1, <3>2, HealthIsState DEF StatusTypes
  <2>4. ASSUME NEW s \in Streams, MarkDegraded(s)
        PROVE  StatusTypes'
    BY <2>1, <2>4 DEF MarkDegraded, DegradedState, StatusTypes
  <2>5. ASSUME MarkFailed PROVE StatusTypes'
    BY <2>1, <2>5 DEF MarkFailed, StatusTypes
  <2>6. ASSUME UNCHANGED statusVars PROVE StatusTypes'
    BY <2>1, <2>6 DEF statusVars, StatusTypes
  <2> QED BY <1>2, <2>2, <2>3, <2>4, <2>5, <2>6, ListenerCases DEF ListenerStatus
<1>3. CASE Main
  <2>1. teardown' \in BOOLEAN
    BY <1>3 DEF Main, Connect, ContextFails, InstanceFails, Setup, Start, TestShutdown,
                PollFailure, PollPanic, PollStability, PollUnchanged, Recheck, EnterTeardown,
                StopLoop, DropStreams, Decide, Backoff, Finish, StatusTypes
  <2>2. UNCHANGED statusVars => StatusTypes'
    BY <2>1 DEF statusVars, StatusTypes
  <2>3. BeginReconnect => StatusTypes'
    BY <2>1 DEF BeginReconnect, FailureCleared, Deactivated, None, StatusTypes
  <2>4. MarkFailed => StatusTypes'
    BY <2>1 DEF MarkFailed, StatusTypes
  <2>5. PollStability => UNCHANGED statusVars
    BY DEF PollStability, NoteHealthy, NoteStable, NoteUnstable
  <2>6. Finish => StatusTypes'
    BY <2>1 DEF Finish, None, StatusTypes
  <2> QED BY <1>3, <2>2, <2>3, <2>4, <2>5, <2>6, MainStatus
<1> QED BY <1>1, <1>2, <1>3, StepCases

LEMMA PipewireTypesStep ==
  ASSUME PipewireTypes, [Next]_vars
  PROVE  PipewireTypes'
<1>1. CASE Environment
  BY <1>1 DEF Environment, LoseConnection, Panic, Signal, WindowElapses, Elapse, vars, pipewireVars,
              loopVars, PipewireTypes
<1>2. CASE LoopThread
  <2>1. ASSUME NEW s \in Streams, Pause(s) \/ Stream(s) \/ StreamError(s) \/ Disconnect(s)
        PROVE  PipewireTypes'
    BY <2>1 DEF Pause, Stream, StreamError, Disconnect, Listening, ListenerUnchanged,
                PipewireTypes
  <2>2. ASSUME NEW s \in Streams, AcceptFormat(s) \/ RejectFormat(s)
        PROVE  PipewireTypes'
    BY <2>2 DEF AcceptFormat, RejectFormat, ListenerUnchanged, PipewireTypes
  <2>3. CASE AskShutdown \/ AskTeardown \/ ReportFailure
    BY <2>3 DEF AskShutdown, AskTeardown, ReportFailure, ListenerUnchanged, PipewireTypes
  <2> QED BY <1>2, <2>1, <2>2, <2>3 DEF LoopThread
<1>3. CASE Main
  <2>1. CASE Connect \/ ContextFails \/ InstanceFails \/ Start \/ StopLoop
    BY <2>1 DEF Connect, ContextFails, InstanceFails, Start, StopLoop, OthersUnchanged,
                pipewireVars, PipewireTypes
  <2>2. CASE Setup
    BY <2>2 DEF Setup, OthersUnchanged, PipewireTypes
  <2>5. CASE DropStreams
    BY <2>5 DEF DropStreams, OthersUnchanged, PipewireTypes
  <2>3. CASE TestShutdown \/ PollFailure \/ PollPanic \/ PollStability \/ Recheck
    BY <2>3 DEF TestShutdown, PollFailure, PollPanic, PollStability, Recheck, PollUnchanged,
                OthersUnchanged, pipewireVars, PipewireTypes
  <2>4. CASE EnterTeardown \/ Decide \/ Backoff \/ Finish
    BY <2>4 DEF EnterTeardown, Decide, Backoff, Finish, OthersUnchanged, pipewireVars,
                PipewireTypes
  <2> QED BY <1>3, <2>1, <2>2, <2>3, <2>4, <2>5 DEF Main
<1> QED BY <1>1, <1>2, <1>3, StepCases

(* The budget and the position of the main thread, split because one part  *)
(* is arithmetic and the other is not.                                     *)
LEMMA BudgetStep ==
  ASSUME ControlTypes, Position, [Next]_vars
  PROVE  attempts' \in 0 .. MaxAttempts
<1>1. attempts \in 0 .. MaxAttempts /\ MaxAttempts \in Nat
  BY AttemptsAssumption DEF ControlTypes
<1>2. \/ attempts' = attempts
      \/ attempts' = attempts + 1 /\ attempts < MaxAttempts
      \/ attempts' = 0
  <2>1. CASE Environment BY <2>1, EnvironmentFrame
  <2>2. CASE LoopThread BY <2>2, ListenerFrame DEF cycleVars
  <2>3. CASE Main
    BY <2>3 DEF Main, Connect, ContextFails, InstanceFails, Setup, Start, TestShutdown,
                PollFailure, PollPanic, PollStability, Recheck, EnterTeardown, StopLoop,
                DropStreams, Decide, Backoff, Finish, RetryOrGiveUp, CanRetry, BeginAttempt,
                Consumed, NoteHealthy, NoteStable, NoteUnstable, cycleVars
  <2> QED BY <2>1, <2>2, <2>3, StepCases
<1> QED BY <1>1, <1>2

LEMMA ControlTypesStep ==
  ASSUME ControlTypes, Position, [Next]_vars
  PROVE  ControlTypes'
<1>1. attempts' \in 0 .. MaxAttempts BY BudgetStep
<1>2. CASE Environment
  BY <1>1, <1>2 DEF Environment, LoseConnection, Panic, Signal, WindowElapses, Elapse, vars, cycleVars,
                    endVars, historyVars, ControlTypes
<1>3. CASE LoopThread
  <2>1. failedInWindow' \in BOOLEAN
    BY <1>3, ListenerCases DEF ListenerStatus, MarkFailed, ControlTypes
  <2> QED BY <1>1, <1>3, <2>1, ListenerFrame DEF cycleVars, endVars, ControlTypes
<1>4. CASE Main
  <2>1. CASE Connect \/ ContextFails \/ Setup \/ Start
    BY <1>1, <2>1 DEF Connect, ContextFails, Setup, Start, cycleVars, endVars, historyVars,
                      ControlTypes
  <2>2. CASE InstanceFails \/ Decide
    BY <1>1, <2>2 DEF InstanceFails, Decide, RetryOrGiveUp, BeginAttempt, WindowBroken,
                      cycleVars, historyVars, ControlTypes
  <2>3. CASE TestShutdown \/ PollFailure \/ PollPanic \/ Recheck
    BY <1>1, <2>3 DEF TestShutdown, PollFailure, PollPanic, Recheck, MarkFailed,
                      PollUnchanged, cycleVars, ControlTypes
  <2>4. CASE PollStability
    BY <1>1, <2>4 DEF PollStability, NoteHealthy, NoteStable, NoteUnstable, PollUnchanged, ControlTypes
  <2>5. CASE EnterTeardown \/ StopLoop \/ DropStreams \/ Backoff \/ Finish
    BY <1>1, <2>5 DEF EnterTeardown, StopLoop, DropStreams, Backoff, Finish, Outcome,
                      cycleVars, endVars, historyVars, ControlTypes
  <2> QED BY <1>4, <2>1, <2>2, <2>3, <2>4, <2>5 DEF Main
<1> QED BY <1>2, <1>3, <1>4, StepCases

-----------------------------------------------------------------------------
(***************************************************************************)
(* The parts about control: where an instance is and how a session ends.   *)
(***************************************************************************)

LEMMA PositionStep ==
  ASSUME StatusTypes, Position, [Next]_vars
  PROVE  Position'
<1>1. CASE Environment
  BY <1>1, EnvironmentFrame DEF Position, statusVars, loopVars, endVars
<1>2. CASE LoopThread
  <2>1. state # "Terminated"
    BY <1>2, ListenerFrame DEF Position
  <2>2. Health(state, \A t \in Streams : active'[t], \A t \in Streams : formatOk'[t])
          # "Terminated"
    BY <2>1 DEF Health
  <2>3. state' # "Terminated"
    BY <1>2, <2>1, <2>2, ListenerCases
       DEF ListenerStatus, SetActive, MarkFormatOk, UpdateHealth, MarkDegraded,
           DegradedState, MarkFailed, statusVars
  <2> QED BY <1>2, <2>3, ListenerFrame DEF Position, endVars
<1>3. CASE Main
  <2>1. CASE Connect \/ ContextFails \/ Setup \/ Start
    BY <2>1 DEF Connect, ContextFails, Setup, Start, OthersUnchanged, statusVars, endVars,
                Position
  <2>2. CASE InstanceFails \/ Decide
    BY <2>2 DEF InstanceFails, Decide, RetryOrGiveUp, BeginReconnect, OthersUnchanged,
                statusVars, Position
  <2>3. CASE TestShutdown \/ PollFailure \/ PollPanic \/ PollStability \/ Recheck
    BY <2>3 DEF TestShutdown, PollFailure, PollPanic, PollStability, Recheck, MarkFailed,
                PollUnchanged, OthersUnchanged, statusVars, Position
  <2>4. CASE EnterTeardown \/ StopLoop \/ DropStreams \/ Backoff \/ Finish
    BY <2>4 DEF EnterTeardown, StopLoop, DropStreams, Backoff, Finish, OthersUnchanged,
                statusVars, endVars, Position
  <2> QED BY <1>3, <2>1, <2>2, <2>3, <2>4 DEF Main
<1> QED BY <1>1, <1>2, <1>3, StepCases

LEMMA EndsBySignalStep ==
  ASSUME Position, EndsBySignal, [Next]_vars
  PROVE  EndsBySignal'
<1>1. CASE Environment
  BY <1>1, EnvironmentFrame DEF EndsBySignal, OkOnlyIfAsked, endVars
<1>2. CASE LoopThread
  BY <1>2, ListenerFrame DEF EndsBySignal, OkOnlyIfAsked, endVars
<1>3. CASE Main
  <2>1. CASE Connect \/ ContextFails \/ Setup \/ Start
    BY <2>1 DEF Connect, ContextFails, Setup, Start, OthersUnchanged, endVars,
                EndsBySignal, OkOnlyIfAsked
  <2>2. CASE InstanceFails \/ Decide
    BY <2>2 DEF InstanceFails, Decide, RetryOrGiveUp, OthersUnchanged, Position,
                EndsBySignal, OkOnlyIfAsked
  <2>3. CASE TestShutdown \/ PollFailure \/ PollPanic \/ PollStability \/ Recheck
    BY <2>3 DEF TestShutdown, StopRequested, PollFailure, PollPanic, PollStability, Recheck,
                PollUnchanged, OthersUnchanged, EndsBySignal, OkOnlyIfAsked
  <2>4. CASE EnterTeardown \/ StopLoop \/ DropStreams \/ Backoff
    BY <2>4 DEF EnterTeardown, StopLoop, DropStreams, Backoff, OthersUnchanged, endVars,
                EndsBySignal, OkOnlyIfAsked
  <2>5. CASE Finish
    BY <2>5 DEF Finish, Outcome, OthersUnchanged, EndsBySignal, OkOnlyIfAsked
  <2> QED BY <1>3, <2>1, <2>2, <2>3, <2>4, <2>5 DEF Main
<1> QED BY <1>1, <1>2, <1>3, StepCases

LEMMA SpentStep ==
  ASSUME ControlTypes, Position, GivesUpOnlyWhenSpent, [Next]_vars
  PROVE  GivesUpOnlyWhenSpent'
<1>1. CASE Environment
  BY <1>1, EnvironmentFrame DEF GivesUpOnlyWhenSpent, endVars
<1>2. CASE LoopThread
  BY <1>2, ListenerFrame DEF GivesUpOnlyWhenSpent, cycleVars, endVars
<1>3. CASE Main
  <2>1. CASE RetryOrGiveUp /\ backendFailure' = TRUE /\ ~CanRetry
    <3>1. attempts = MaxAttempts
      BY <2>1, AttemptsAssumption DEF CanRetry, ControlTypes
    <3>2. attempts' = attempts
      BY <2>1 DEF RetryOrGiveUp, BeginAttempt, cycleVars
    <3> QED BY <3>1, <3>2 DEF GivesUpOnlyWhenSpent
  <2>2. CASE pc \notin {"final", "done"} /\ backendFailure' = backendFailure
    BY <2>2 DEF Position, GivesUpOnlyWhenSpent
  <2>3. CASE Decide /\ instanceFailure = "panic"
    BY <2>3 DEF Decide, GivesUpOnlyWhenSpent
  <2>4. CASE Finish
    BY <2>4 DEF Finish, cycleVars, GivesUpOnlyWhenSpent
  <2>5. \/ RetryOrGiveUp /\ backendFailure' = TRUE /\ ~CanRetry
        \/ pc \notin {"final", "done"} /\ backendFailure' = backendFailure
        \/ Decide /\ instanceFailure = "panic"
        \/ Finish
    BY <1>3 DEF Main, Connect, ContextFails, InstanceFails, Setup, Start, TestShutdown,
                PollFailure, PollPanic, PollStability, Recheck, PollUnchanged, EnterTeardown,
                StopLoop, DropStreams, Decide, Backoff, RetryOrGiveUp, endVars
  <2> QED BY <2>1, <2>2, <2>3, <2>4, <2>5
<1> QED BY <1>1, <1>2, <1>3, StepCases

LEMMA FreshBudgetStep ==
  ASSUME ControlTypes, FreshBudget, [Next]_vars, Position
  PROVE  FreshBudget'
<1>1. CASE Environment
  BY <1>1, EnvironmentFrame DEF FreshBudget, StartupErrorOnlyAtStartup, endVars, historyVars
<1>2. CASE LoopThread
  BY <1>2, ListenerFrame DEF FreshBudget, StartupErrorOnlyAtStartup, cycleVars, endVars
<1>3. CASE Main
  <2>1. BeginAttempt => attempts' > 0
    BY DEF BeginAttempt, Consumed, ControlTypes
  <2>2. attempts = 0 => ~(attempts > 0)
    OBVIOUS
  <2>3. CASE Connect \/ ContextFails \/ Setup \/ Start
    BY <2>3 DEF Connect, ContextFails, Setup, Start, cycleVars, endVars, historyVars,
                FreshBudget, StartupErrorOnlyAtStartup, Position
  <2>4. CASE InstanceFails
    BY <2>1, <2>2, <2>4 DEF InstanceFails, RetryOrGiveUp, historyVars,
                FreshBudget, StartupErrorOnlyAtStartup, Position
  <2>5. CASE Decide
    BY <2>1, <2>5 DEF Decide, RetryOrGiveUp, historyVars, FreshBudget,
                StartupErrorOnlyAtStartup, Position
  <2>6. CASE TestShutdown \/ PollFailure \/ PollPanic \/ PollStability \/ Recheck
    BY <2>6 DEF TestShutdown, PollFailure, PollPanic, PollStability, Recheck, PollUnchanged,
                FreshBudget, StartupErrorOnlyAtStartup
  <2>7. CASE EnterTeardown \/ StopLoop \/ DropStreams \/ Backoff
    BY <2>7 DEF EnterTeardown, StopLoop, DropStreams, Backoff, cycleVars, endVars,
                historyVars, FreshBudget, StartupErrorOnlyAtStartup
  <2>8. CASE Finish
    BY <2>8 DEF Finish, Outcome, FreshBudget, StartupErrorOnlyAtStartup
  <2> QED BY <1>3, <2>3, <2>4, <2>5, <2>6, <2>7, <2>8 DEF Main
<1> QED BY <1>1, <1>2, <1>3, StepCases

-----------------------------------------------------------------------------
(***************************************************************************)
(* The parts about the status.                                             *)
(***************************************************************************)

(* The health of the streams never makes a failed state and keeps one.     *)
LEMMA HealthTellsHealth ==
  ASSUME NEW st \in {"Starting", "Running", "Degraded", "Reconnecting"},
         NEW streaming \in BOOLEAN, NEW valid \in BOOLEAN
  PROVE  /\ Health(st, streaming, valid) \notin {"Failed", "Terminated"}
         /\ Health(st, streaming, valid) = "Running" <=> streaming /\ valid
  BY DEF Health

LEMMA UpdateTellsHealth ==
  ASSUME StatusTypes, SnapshotCoherent, state # "Terminated", UpdateHealth
  PROVE  SnapshotCoherent' /\ StateTellsHealth'
<1> DEFINE A == \A s \in Streams : active'[s]
           F == \A s \in Streams : formatOk'[s]
<1>1. Healthy' <=> A /\ F
  BY DEF Healthy
<1>2. CASE failed
  BY <1>2 DEF UpdateHealth, SnapshotCoherent, StateTellsHealth
<1>3. CASE ~failed
  <2>1. state \in {"Starting", "Running", "Degraded", "Reconnecting"}
    BY <1>3 DEF StatusTypes, SnapshotCoherent
  <2>2. state' = Health(state, A, F) /\ ~failed'
    BY <1>3 DEF UpdateHealth
  <2>3. A \in BOOLEAN /\ F \in BOOLEAN
    OBVIOUS
  <2> HIDE DEF A, F
  <2>4. state' \notin {"Failed", "Terminated"} /\ (state' = "Running" <=> A /\ F)
    BY <2>1, <2>2, <2>3, HealthTellsHealth
  <2> QED BY <1>1, <2>2, <2>4 DEF SnapshotCoherent, StateTellsHealth
<1> QED BY <1>2, <1>3

LEMMA StatusStep ==
  ASSUME StatusTypes, Position, SnapshotCoherent, StateTellsHealth, [Next]_vars
  PROVE  SnapshotCoherent' /\ StateTellsHealth'
<1>1. UNCHANGED statusVars => SnapshotCoherent' /\ StateTellsHealth'
  BY DEF statusVars, SnapshotCoherent, StateTellsHealth, Healthy
<1>2. MarkFailed => SnapshotCoherent' /\ StateTellsHealth'
  BY DEF MarkFailed, SnapshotCoherent, StateTellsHealth
<1>3. CASE Environment
  BY <1>1, <1>3, EnvironmentFrame
<1>4. CASE LoopThread
  <2>1. state # "Terminated"
    BY <1>4, ListenerFrame DEF Position
  <2>2. ASSUME NEW s \in Streams, MarkDegraded(s)
        PROVE  SnapshotCoherent' /\ StateTellsHealth'
    <3>1. ~formatOk'[s]
      BY <2>2 DEF MarkDegraded, StatusTypes
    <3>2. state' # "Running"
      BY <2>1, <2>2 DEF MarkDegraded, DegradedState, SnapshotCoherent
    <3> QED BY <2>1, <2>2, <3>1, <3>2
            DEF MarkDegraded, DegradedState, SnapshotCoherent, StateTellsHealth, Healthy
  <2> QED BY <1>1, <1>2, <1>4, <2>1, <2>2, ListenerCases, UpdateTellsHealth
          DEF ListenerStatus, SetActive, MarkFormatOk
<1>5. CASE Main
  <2>1. BeginReconnect => SnapshotCoherent' /\ StateTellsHealth'
    BY StreamsAssumption DEF BeginReconnect, FailureCleared, Deactivated, None,
       SnapshotCoherent, StateTellsHealth, Healthy
  <2>2. Finish => SnapshotCoherent' /\ StateTellsHealth'
    BY DEF Finish, SnapshotCoherent, StateTellsHealth
  <2>3. PollStability => UNCHANGED statusVars
    BY DEF PollStability
  <2> QED BY <1>1, <1>2, <1>5, <2>1, <2>2, <2>3, MainStatus
<1> QED BY <1>3, <1>4, <1>5, StepCases

LEMMA BetweenInstancesStep ==
  ASSUME Position, BetweenInstances, [Next]_vars
  PROVE  BetweenInstances'
<1>1. CASE Environment
  BY <1>1, EnvironmentFrame DEF BetweenInstances, statusVars
<1>2. CASE LoopThread
  BY <1>2, ListenerFrame DEF Position, BetweenInstances
<1>3. CASE Main
  <2>1. CASE Connect \/ ContextFails \/ Setup \/ Start
    BY <2>1 DEF Connect, ContextFails, Setup, Start, statusVars, BetweenInstances
  <2>2. CASE InstanceFails \/ Decide
    BY <2>2 DEF InstanceFails, Decide, RetryOrGiveUp, BeginReconnect, FailureCleared,
                Deactivated, statusVars, BetweenInstances
  <2>3. CASE TestShutdown \/ PollFailure \/ PollPanic \/ PollStability \/ Recheck
    BY <2>3 DEF TestShutdown, PollFailure, PollPanic, PollStability, Recheck, BetweenInstances
  <2>4. CASE EnterTeardown \/ StopLoop \/ DropStreams \/ Backoff \/ Finish
    BY <2>4 DEF EnterTeardown, StopLoop, DropStreams, Backoff, Finish, statusVars,
                BetweenInstances
  <2> QED BY <1>3, <2>1, <2>2, <2>3, <2>4 DEF Main
<1> QED BY <1>1, <1>2, <1>3, StepCases

LEMMA StatusFollowsStep ==
  ASSUME StatusTypes, PipewireTypes, Position, BetweenInstances, StatusFollows, [Next]_vars
  PROVE  StatusFollows'
<1>1. CASE Environment
  BY <1>1, EnvironmentFrame DEF StatusFollows, statusVars, loopVars
<1>2. CASE LoopThread
  <2>1. ListenerUnchanged /\ looping
    BY <1>2, ListenerFrame
       DEF LoopThread, Pause, Stream, AcceptFormat, RejectFormat, StreamError, Disconnect,
           AskShutdown, AskTeardown, ReportFailure
  <2>2. ASSUME NEW s \in Streams, Pause(s) \/ Stream(s) \/ StreamError(s)
        PROVE  StatusFollows'
    BY <2>1, <2>2 DEF Pause, Stream, StreamError, SetActive, StatusFollows, StatusTypes,
                      PipewireTypes
  <2>3. ASSUME NEW s \in Streams, AcceptFormat(s) \/ RejectFormat(s)
        PROVE  StatusFollows'
    BY <2>1, <2>3 DEF AcceptFormat, RejectFormat, MarkFormatOk, MarkDegraded, StatusFollows,
                      StatusTypes, PipewireTypes
  <2>4. ASSUME NEW s \in Streams, Disconnect(s)
        PROVE  StatusFollows'
    BY <2>1, <2>4 DEF Disconnect, WasConnected, SetActive, statusVars, StatusFollows,
                      StatusTypes, PipewireTypes
  <2>5. CASE AskShutdown \/ AskTeardown \/ ReportFailure
    BY <2>1, <2>5 DEF AskShutdown, AskTeardown, ReportFailure, MarkFailed, statusVars,
                      StatusFollows
  <2> QED BY <1>2, <2>2, <2>3, <2>4, <2>5 DEF LoopThread
<1>3. CASE Main
  <2>1. CASE Connect \/ ContextFails \/ Start
    BY <2>1 DEF Connect, ContextFails, Start, pipewireVars, statusVars, StatusFollows,
                Position
  <2>2. CASE Setup
    BY <2>2 DEF Setup, statusVars, BetweenInstances, None, StatusFollows
  <2>3. CASE InstanceFails \/ Decide \/ Backoff \/ StopLoop \/ DropStreams \/ Finish
    BY <2>3 DEF InstanceFails, Decide, RetryOrGiveUp, Backoff, StopLoop, DropStreams, Finish,
                Position, StatusFollows
  <2>4. CASE TestShutdown \/ PollFailure \/ PollPanic \/ PollStability \/ Recheck
             \/ EnterTeardown
    BY <2>4 DEF TestShutdown, PollFailure, PollPanic, PollStability, Recheck, EnterTeardown,
                MarkFailed, PollUnchanged, pipewireVars, statusVars, StatusFollows
  <2> QED BY <1>3, <2>1, <2>2, <2>3, <2>4 DEF Main
<1> QED BY <1>1, <1>2, <1>3, StepCases

LEMMA WindowStep ==
  ASSUME SnapshotCoherent, WindowHonest, [Next]_vars, Position
  PROVE  WindowHonest'
<1>1. CASE Environment
  BY <1>1, EnvironmentFrame DEF WindowHonest, statusVars, historyVars
<1>2. CASE LoopThread
  <2>1. window' = window
    BY <1>2, ListenerFrame DEF cycleVars
  <2>2. (failed' = failed /\ failedInWindow' = failedInWindow) \/ failed' = TRUE
    BY <1>2, ListenerCases DEF ListenerStatus, SetActive, MarkFormatOk, UpdateHealth,
       MarkDegraded, MarkFailed, statusVars
  <2> QED BY <2>1, <2>2 DEF WindowHonest
<1>3. CASE Main
  <2>1. CASE BeginAttempt
    BY <2>1 DEF BeginAttempt, WindowBroken, WindowHonest
  <2>2. CASE MarkFailed
    BY <2>2 DEF MarkFailed, WindowHonest
  <2>3. CASE PollStability
    BY <2>3 DEF PollStability, NoteHealthy, NoteStable, NoteUnstable, statusVars, SnapshotCoherent,
                WindowHonest
  <2>4. CASE UNCHANGED <<failed, window, failedInWindow>>
    BY <2>4 DEF WindowHonest
  <2>5. \/ BeginAttempt \/ MarkFailed \/ PollStability
        \/ UNCHANGED <<failed, window, failedInWindow>>
    BY <1>3 DEF Main, Connect, ContextFails, InstanceFails, Setup, Start, TestShutdown,
                PollFailure, PollPanic, Recheck, EnterTeardown, StopLoop, DropStreams,
                Decide, Backoff, Finish, RetryOrGiveUp, statusVars, cycleVars, historyVars
  <2> QED BY <2>1, <2>2, <2>3, <2>4, <2>5
<1> QED BY <1>1, <1>2, <1>3, StepCases

-----------------------------------------------------------------------------
(***************************************************************************)
(* The theorems.                                                           *)
(***************************************************************************)

LEMMA StepHolds == IInv /\ [Next]_vars => IInv'
<1>1. SUFFICES ASSUME IInv, [Next]_vars PROVE IInv'
  OBVIOUS
<1>2. TypeOK'
  BY <1>1, StatusTypesStep, PipewireTypesStep, ControlTypesStep DEF IInv, TypeOK
<1>3. Position' /\ EndsBySignal' /\ GivesUpOnlyWhenSpent' /\ FreshBudget'
  BY <1>1, PositionStep, EndsBySignalStep, SpentStep, FreshBudgetStep DEF IInv, TypeOK
<1>4. SnapshotCoherent' /\ StateTellsHealth' /\ BetweenInstances'
  BY <1>1, StatusStep, BetweenInstancesStep DEF IInv, TypeOK
<1>5. StatusFollows' /\ WindowHonest'
  BY <1>1, StatusFollowsStep, WindowStep DEF IInv, TypeOK
<1> QED BY <1>2, <1>3, <1>4, <1>5 DEF IInv

THEOREM Invariance == Spec => []IInv
  BY InitHolds, StepHolds, PTL DEF Spec

(* TypeOK: the status, the loop and the reconnect cycle keep their types,  *)
(* and the attempts never exceed the policy's (run_pipewire_host).         *)
THEOREM TypeCorrect == Spec => []TypeOK
<1>1. IInv => TypeOK BY DEF IInv
<1> QED BY <1>1, Invariance, PTL

(* SharedBackendStatus: the failure flag says what the state says, and the *)
(* state says whether both streams are active with a valid format.         *)
(* And Running means that PipeWire streams both streams of this very       *)
(* instance and refused neither format.                                    *)
THEOREM StatusTrue == Spec => []StatusIsTrue
<1>1. IInv => SnapshotCoherent /\ StateTellsHealth BY DEF IInv
<1>2. IInv => RunningIsTrue
  BY DEF IInv, Position, StateTellsHealth, Healthy, StatusFollows, RunningIsTrue
<1>3. IInv => StatusIsTrue BY <1>1, <1>2 DEF StatusIsTrue
<1> QED BY <1>3, Invariance, PTL

(* begin_reconnect: a new instance starts without the failure or the       *)
(* activity of the one before it.                                          *)
THEOREM CleanStart == Spec => []InstanceStartsClean
<1>1. IInv => InstanceStartsClean
  BY DEF IInv, BetweenInstances, InstanceStartsClean
<1> QED BY <1>1, Invariance, PTL

(* run_pipewire_host: Ok is returned only after a signal, the backend is   *)
(* given up only for a panic or a spent budget, and the startup error only *)
(* before the first instance.                                              *)
THEOREM HonestEnds == Spec => []EndIsHonest
<1>1. IInv => EndIsHonest
  BY DEF IInv, EndsBySignal, FreshBudget, EndIsHonest
<1> QED BY <1>1, Invariance, PTL

(* ReconnectCycle: attempts are given back only after a window in which    *)
(* nothing failed.                                                         *)
THEOREM HonestReplenishment == Spec => ReplenishedAfterHealth
<1>1. IInv /\ [Next]_vars => [attempts' = 0 /\ attempts # 0 => ~failedInWindow]_vars
  <2>1. SUFFICES ASSUME IInv, [Next]_vars, attempts' = 0, attempts # 0
                 PROVE  ~failedInWindow
    OBVIOUS
  <2>2. CASE Environment
    BY <2>1, <2>2, EnvironmentFrame
  <2>3. CASE LoopThread
    BY <2>1, <2>3, ListenerFrame DEF IInv, cycleVars
  <2>4. CASE Main
    <3>1. ~BeginAttempt
      BY <2>1 DEF BeginAttempt, Consumed, IInv, TypeOK, ControlTypes
    <3>2. PollStability /\ NoteHealthy /\ state = "Running"
      BY <2>1, <2>4, <3>1
         DEF Main, Connect, ContextFails, InstanceFails, Setup, Start, TestShutdown,
             PollFailure, PollPanic, PollStability, NoteUnstable, Recheck, EnterTeardown,
             StopLoop, DropStreams, Decide, Backoff, Finish, RetryOrGiveUp, cycleVars
    <3>3. window = "elapsed" /\ ~failed
      BY <2>1, <3>2 DEF NoteHealthy, NoteStable, IInv, SnapshotCoherent
    <3> QED BY <2>1, <3>3 DEF IInv, WindowHonest
  <2> QED BY <2>1, <2>2, <2>3, <2>4, StepCases
<1> QED BY <1>1, Invariance, PTL DEF Spec, ReplenishedAfterHealth

=============================================================================
