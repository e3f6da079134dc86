---------------------------- MODULE ReconnectCycle ----------------------------
(***************************************************************************)
(* The reconnect cycle with its clock: how the control loop, which sees    *)
(* the streams only when it polls, times the window that gives the retry   *)
(* budget back, what a recovery announces, and how long an episode sleeps. *)
(*                                                                         *)
(* The main thread owns the cycle and calls it: begin_attempt after a      *)
(* failure, note_stable or note_unstable in every iteration of the loop.   *)
(* The loop thread changes the mirror of Running at any time.  The clock   *)
(* counts parts of the window; its bound, MaxTime, ends the run.           *)
(***************************************************************************)
EXTENDS Integers

CONSTANTS
    MaxAttempts,    \* attempts of the policy
    Backoff,        \* sleep before each attempt
    StableReset,    \* length of the stability window
    MaxTime,        \* bound of the clock
    Never           \* no window is open

ASSUME CycleAttemptsAssumption == MaxAttempts \in Nat
ASSUME BackoffAssumption == Backoff \in [1 .. MaxAttempts -> Nat]
ASSUME ResetAssumption == StableReset \in Nat \ {0}
ASSUME TimeAssumption == MaxTime \in Nat
ASSUME NeverAssumption == Never \notin Nat

VARIABLES
    attemptsMade,
    stableSince,            \* start of the window
    awaitingRestore,        \* a recovery has not been announced
    running,                \* the lock-free mirror of Running
    now, polled,            \* the monotonic clock; polled since it advanced
    slept                   \* history: backoff of this episode

cycle == <<attemptsMade, stableSince, awaitingRestore>>
vars == <<cycle, running, now, polled, slept>>

Init ==
    /\ attemptsMade = 0 /\ stableSince = Never /\ awaitingRestore = FALSE
    /\ running = FALSE /\ now = 0 /\ polled = FALSE
    /\ slept = 0

(* The loop polls at least every 100 ms while a window is open.            *)
Tick ==
    /\ now < MaxTime /\ (stableSince # Never => polled)
    /\ now' = now + 1 /\ polled' = FALSE
    /\ UNCHANGED <<cycle, running, slept>>

(* The listeners find both streams healthy, or no longer.                  *)
Resume ==
    /\ ~running /\ running' = TRUE
    /\ UNCHANGED <<cycle, now, polled, slept>>

Interrupt ==
    /\ running /\ running' = FALSE
    /\ UNCHANGED <<cycle, now, polled, slept>>

Counted == attemptsMade + 1
MoreToTry == attemptsMade < MaxAttempts
BackoffOf(n) == Backoff[n]

KeepSince == stableSince
NoSince == Never

(* A failed instance or connection takes the next attempt, if any is left. *)
BeginAttempt ==
    /\ MoreToTry
    /\ attemptsMade' = Counted
    /\ stableSince' = NoSince
    /\ awaitingRestore' = TRUE
    /\ running' = FALSE
    /\ slept' = slept + BackoffOf(attemptsMade + 1)
    /\ UNCHANGED <<now, polled>>

WindowComplete == now - stableSince >= StableReset

WindowEnd == now + StableReset
WindowStart == now

(* A poll that finds the host Running announces a recovery, once, and      *)
(* opens the window or, when it is complete, restarts it and gives the     *)
(* attempts back.                                                          *)
NoteStable ==
    /\ running
    /\ awaitingRestore' = FALSE
    /\ \/ /\ stableSince = Never
          /\ stableSince' = WindowStart
          /\ UNCHANGED <<attemptsMade, slept>>
       \/ /\ stableSince # Never /\ WindowComplete
          /\ stableSince' = WindowStart
          /\ attemptsMade' = 0 /\ slept' = 0
       \/ /\ stableSince # Never /\ ~WindowComplete
          /\ UNCHANGED <<attemptsMade, stableSince, slept>>
    /\ polled' = TRUE
    /\ UNCHANGED <<running, now>>

NoteUnstable ==
    /\ ~running
    /\ stableSince' = Never /\ polled' = TRUE
    /\ UNCHANGED <<attemptsMade, awaitingRestore, running, now, slept>>

Next == Tick \/ Resume \/ Interrupt \/ BeginAttempt \/ NoteStable \/ NoteUnstable

Spec == Init /\ [][Next]_vars

-----------------------------------------------------------------------------
(* The variables keep their types: never more attempts than the policy's.  *)
TypeOK ==
    /\ attemptsMade \in 0 .. MaxAttempts
    /\ stableSince \in 0 .. now \cup {Never}
    /\ awaitingRestore \in BOOLEAN /\ running \in BOOLEAN
    /\ now \in 0 .. MaxTime /\ polled \in BOOLEAN
    /\ slept \in Nat

(* total_backoff_budget is the ceiling of an episode: between two          *)
(* replenishments the host never sleeps longer.                            *)
BudgetOf[n \in 0 .. MaxAttempts] == IF n = 0 THEN 0 ELSE BudgetOf[n - 1] + Backoff[n]
EpisodeWithinBudget == slept <= BudgetOf[MaxAttempts]

(* The replenishment takes precedence over the announcement when a poll    *)
(* could give both, so it must never happen on the first healthy poll: a   *)
(* recovery that was not announced would never be.                         *)
RecoveryIsAnnounced ==
    [][attemptsMade' = 0 /\ attemptsMade # 0 => ~awaitingRestore]_vars

(* The clocked cycle implements the budget the rest of the host relies on: *)
(* nothing but a complete window gives attempts back, and every failure    *)
(* closes it.                                                              *)
Window ==
    IF stableSince = Never THEN "closed"
    ELSE IF WindowComplete THEN "elapsed" ELSE "open"

Budget == INSTANCE RetryBudget WITH attempts <- attemptsMade, window <- Window
ImplementsBudget == Budget!CycleSpec
=============================================================================
