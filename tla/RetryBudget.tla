----------------------------- MODULE RetryBudget -----------------------------
(***************************************************************************)
(* The budget of reconnection attempts as the host sees it: an attempt is  *)
(* handed out while the budget lasts, and the attempts made are forgotten  *)
(* after a window of stable streaming.  How the window is timed is the     *)
(* business of ReconnectCycle, which implements this module.               *)
(***************************************************************************)
EXTENDS Integers

CONSTANT MaxAttempts    \* attempts of the reconnect policy; 0 is --fail-fast
ASSUME AttemptsAssumption == MaxAttempts \in Nat

VARIABLES attempts, window      \* attempts_made, stable_since
cycleVars == <<attempts, window>>

CycleInit == attempts = 0 /\ window = "closed"

CanRetryOnceLess == attempts + 1 < MaxAttempts
CanRetry == attempts < MaxAttempts

Consumed == attempts + 1
WindowBroken == "closed"
BeginAttempt == CanRetry /\ attempts' = Consumed /\ window' = WindowBroken

(* A healthy poll opens the window, or finds it complete: the attempts are *)
(* given back and the next window begins.                                  *)
NoteStable ==
    /\ window' = "open"
    /\ attempts' = IF window = "elapsed" THEN 0 ELSE attempts

NoteUnstable == window' = "closed" /\ UNCHANGED attempts

(* STABLE_RESET has passed since the window was opened.                    *)
Elapse == window = "open" /\ window' = "elapsed" /\ UNCHANGED attempts

CycleNext == BeginAttempt \/ NoteStable \/ NoteUnstable \/ Elapse

CycleSpec == CycleInit /\ [][CycleNext]_cycleVars
=============================================================================
