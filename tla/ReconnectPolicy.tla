---------------------------- MODULE ReconnectPolicy ----------------------------
(***************************************************************************)
(* The schedule of the reconnection policy: the exponential backoff in     *)
(* its machine width, its sum, and the loop that trims the production      *)
(* policy to --reconnect-timeout.  Times are milliseconds.                 *)
(***************************************************************************)
EXTENDS Integers

CONSTANTS
    Production,     \* [attempts, initial, ceiling] of the default policy
    Width,          \* bits of the integers the backoff is computed in
    Timeouts        \* the values of --reconnect-timeout, in ms

(* 1 << n, which doubles with every bit.                                   *)
PowerOfTwo[n \in Nat] == IF n = 0 THEN 1 ELSE 2 * PowerOfTwo[n - 1]

ASSUME ProductionAssumption ==
    Production \in [attempts : Nat \ {0}, initial : Nat \ {0}, ceiling : Nat \ {0}]
ASSUME WidthAssumption ==
    /\ Width \in Nat \ {0}
    /\ Production.initial < PowerOfTwo[Width] /\ Production.ceiling < PowerOfTwo[Width]
ASSUME TimeoutsAssumption == Timeouts \subseteq Nat

Largest == PowerOfTwo[Width] - 1
Lesser(a, b) == IF a <= b THEN a ELSE b
SaturatingSub(a, b) == IF a > b THEN a - b ELSE 0

SaturatingMul(a, b) == Lesser(a * b, Largest)
SaturatingAdd(a, b) == Lesser(a + b, Largest)

(* backoff_for_attempt of a policy with these bounds.                      *)
BackoffForAttempt(initial, ceiling, n) ==
    LET shift == Lesser(SaturatingSub(n, 1), Width - 1)
    IN  Lesser(SaturatingMul(initial, PowerOfTwo[shift]), ceiling)

ProductionBackoff(n) == BackoffForAttempt(Production.initial, Production.ceiling, n)
TotalBudget[n \in Nat] ==
    IF n = 0 THEN 0 ELSE SaturatingAdd(TotalBudget[n - 1], ProductionBackoff(n))

VARIABLES policyTimeout, policyAttempts, policyStep
policyVars == <<policyTimeout, policyAttempts, policyStep>>

(* with_backoff_timeout: one iteration of its loop is one step.            *)
PolicyInit ==
    /\ policyTimeout \in Timeouts
    /\ policyAttempts = Production.attempts /\ policyStep = "trim"

TooLong == policyAttempts > 1 /\ TotalBudget[policyAttempts] > policyTimeout
Trim ==
    /\ policyStep = "trim" /\ TooLong
    /\ policyAttempts' = policyAttempts - 1
    /\ UNCHANGED <<policyTimeout, policyStep>>

Return ==
    /\ policyStep = "trim" /\ ~TooLong
    /\ policyStep' = "done"
    /\ UNCHANGED <<policyTimeout, policyAttempts>>

PolicyNext == Trim \/ Return

PolicySpec == PolicyInit /\ [][PolicyNext]_policyVars

-----------------------------------------------------------------------------
(* The policy that is returned is the one the documentation describes: the *)
(* longest prefix of the production schedule that fits the timeout, or a   *)
(* single attempt if none does.                                            *)
Fitting == {n \in 1 .. Production.attempts : TotalBudget[n] <= policyTimeout}
LargestSchedule ==
    policyStep = "done" =>
        /\ policyAttempts \in {1} \cup Fitting
        /\ \A n \in Fitting : n <= policyAttempts

(* The attempt number is not bounded by the policy: for every number the   *)
(* backoff neither wraps to nothing nor exceeds the ceiling nor shrinks.   *)
BackoffNeverWraps ==
    \A n \in 1 .. policyAttempts * Width :
        /\ ProductionBackoff(n) \in Lesser(Production.initial, Production.ceiling)
                                     .. Production.ceiling
        /\ ProductionBackoff(n) <= ProductionBackoff(n + 1)
=============================================================================
