--------------------------- MODULE WaitProtocols_proofs ---------------------------
(***************************************************************************)
(* What TLAPS proves of the protocols that bound a wait: the reconnect     *)
(* cycle and its schedule, the termination signals, the wakeup of the      *)
(* control loop and the probe for the default sink.  ControlPlane_proofs   *)
(* carries the results over to the behaviours of ControlPlane.             *)
(***************************************************************************)
EXTENDS ReconnectCycle, ReconnectPolicy, TerminationSignals, ControlWakeup, SinkProbe,
        WellFoundedInduction, TLAPS

-----------------------------------------------------------------------------
(* Induction over a set of naturals, from its least missing member.        *)
LEMMA LeastNatural ==
  ASSUME NEW T \in SUBSET Nat, T # {}
  PROVE  \E x \in T : \A y \in T : x <= y
<1>1. PICK x \in T : \A y \in T : ~(<<y, x>> \in OpToRel(<, Nat))
  BY NatLessThanWellFounded, WFMin
<1>2. \A y \in T : ~(y < x) BY <1>1, Zenon DEF OpToRel
<1> QED BY <1>2

LEMMA EveryNatural ==
  ASSUME NEW S, 0 \in S, \A n \in Nat : n \in S => n + 1 \in S
  PROVE  \A n \in Nat : n \in S
<1> DEFINE T == {n \in Nat : n \notin S}
<1> SUFFICES ASSUME T # {} PROVE FALSE
  OBVIOUS
<1>1. PICK x \in T : \A y \in T : x <= y BY LeastNatural
<1>2. x \in Nat /\ x # 0 /\ x - 1 \in Nat /\ x - 1 + 1 = x BY <1>1
<1>3. x - 1 \in S BY <1>1, <1>2
<1> QED BY <1>1, <1>2, <1>3

(* A recursive function of naturals exists: its beginnings agree.          *)
LEMMA Recursion ==
  ASSUME NEW c \in Nat, NEW step \in [Nat -> [Nat -> Nat]]
  PROVE  \E f \in [Nat -> Nat] : \A n \in Nat : f[n] = IF n = 0 THEN c ELSE step[n][f[n - 1]]
<1> DEFINE Part(n) == {g \in [0 .. n -> Nat] :
                          g[0] = c /\ \A i \in 1 .. n : g[i] = step[i][g[i - 1]]}
           S == {n \in Nat : Part(n) # {}}
<1>1. 0 \in S
  <2>1. [i \in 0 .. 0 |-> c] \in Part(0) OBVIOUS
  <2> QED BY <2>1
<1>2. ASSUME NEW n \in Nat, n \in S PROVE n + 1 \in S
  <2>1. PICK g \in Part(n) : TRUE BY <1>2
  <2> DEFINE h == [i \in 0 .. n + 1 |-> IF i = n + 1 THEN step[n + 1][g[n]] ELSE g[i]]
  <2>2. /\ g \in [0 .. n -> Nat] /\ g[0] = c
        /\ \A i \in 1 .. n : g[i] = step[i][g[i - 1]]
    BY <2>1
  <2>n. n \in 0 .. n /\ n + 1 \in Nat OBVIOUS
  <2>s. g[n] \in Nat /\ step[n + 1] \in [Nat -> Nat] BY <2>2, <2>n
  <2>t. step[n + 1][g[n]] \in Nat BY <2>s
  <2>i. ASSUME NEW i \in 0 .. n + 1
        PROVE  h[i] = (IF i = n + 1 THEN step[n + 1][g[n]] ELSE g[i])
    OBVIOUS
  <2>3. h \in [0 .. n + 1 -> Nat]
    <3>1. ASSUME NEW i \in 0 .. n + 1
          PROVE  (IF i = n + 1 THEN step[n + 1][g[n]] ELSE g[i]) \in Nat
      <4>1. i = n + 1 \/ i \in 0 .. n OBVIOUS
      <4> QED BY <2>2, <2>t, <4>1
    <3> QED BY <3>1
  <2> HIDE DEF h
  <2>4. h[0] = c
    <3>1. 0 \in 0 .. n + 1 /\ 0 # n + 1 OBVIOUS
    <3> QED BY <2>2, <2>i, <3>1
  <2>5. ASSUME NEW i \in 1 .. n + 1 PROVE h[i] = step[i][h[i - 1]]
    <3>0. i - 1 \in 0 .. n + 1 /\ i - 1 # n + 1 /\ i \in 0 .. n + 1 OBVIOUS
    <3>1. h[i - 1] = g[i - 1] BY <2>i, <3>0
    <3>2. CASE i = n + 1
      <4>1. i - 1 = n BY <3>2
      <4>2. h[i] = step[n + 1][g[n]] BY <2>i, <3>0, <3>2
      <4> QED BY <3>1, <3>2, <4>1, <4>2
    <3>3. CASE i # n + 1
      <4>1. i \in 1 .. n BY <3>3
      <4>2. h[i] = g[i] BY <2>i, <3>0, <3>3
      <4> QED BY <2>2, <3>1, <4>1, <4>2
    <3> QED BY <3>2, <3>3
  <2>6. h \in Part(n + 1) BY <2>3, <2>4, <2>5
  <2> HIDE DEF Part
  <2> QED BY <2>6, <2>n
<1>3. \A n \in Nat : Part(n) # {}
  <2>1. \A n \in Nat : n \in S
    <3> HIDE DEF S
    <3>1. \A n \in Nat : n \in S => n + 1 \in S BY <1>2
    <3> QED BY <1>1, <3>1, EveryNatural
  <2> HIDE DEF Part
  <2> QED BY <2>1
<1>4. ASSUME NEW m \in Nat, NEW n \in Nat, NEW g \in Part(m), NEW h \in Part(n)
      PROVE  \A i \in Nat : i <= m /\ i <= n => g[i] = h[i]
  <2> DEFINE A == {i \in Nat : i <= m /\ i <= n => g[i] = h[i]}
  <2>1. 0 \in A OBVIOUS
  <2>2. ASSUME NEW i \in Nat, i \in A PROVE i + 1 \in A
    <3>1. SUFFICES ASSUME i + 1 <= m, i + 1 <= n PROVE g[i + 1] = h[i + 1]
      OBVIOUS
    <3>2. i + 1 \in 1 .. m /\ i + 1 \in 1 .. n /\ i + 1 - 1 = i /\ g[i] = h[i] BY <2>2, <3>1
    <3>3. \A j \in 1 .. m : g[j] = step[j][g[j - 1]] BY <1>4
    <3>4. \A j \in 1 .. n : h[j] = step[j][h[j - 1]] BY <1>4
    <3>5. g[i + 1] = step[i + 1][g[i]] /\ h[i + 1] = step[i + 1][h[i]]
      <4> DEFINE k == i + 1
      <4>1. k \in 1 .. m /\ k \in 1 .. n /\ k - 1 = i BY <3>2
      <4> HIDE DEF k
      <4>2. g[k] = step[k][g[k - 1]] /\ h[k] = step[k][h[k - 1]] BY <3>3, <3>4, <4>1
      <4>3. g[k] = step[k][g[i]] /\ h[k] = step[k][h[i]] BY <4>1, <4>2
      <4> QED BY <4>3 DEF k
    <3> QED BY <3>2, <3>5
  <2>3. \A i \in Nat : i \in A
    <3> HIDE DEF A
    <3>1. \A i \in Nat : i \in A => i + 1 \in A BY <2>2
    <3> QED BY <2>1, <3>1, EveryNatural
  <2> QED BY <2>3
<1> DEFINE Chosen(n) == CHOOSE g : g \in Part(n)
           f == [n \in Nat |-> Chosen(n)[n]]
<1>5. \A n \in Nat : Chosen(n) \in Part(n)
  <2> HIDE DEF Part
  <2> QED BY <1>3
<1>6. \A n \in Nat : f[n] = Chosen(n)[n] OBVIOUS
<1> HIDE DEF Chosen
<1>7. f \in [Nat -> Nat]
  <2>1. ASSUME NEW n \in Nat PROVE Chosen(n)[n] \in Nat
    <3>1. Chosen(n) \in [0 .. n -> Nat] /\ n \in 0 .. n BY <1>5
    <3> QED BY <3>1
  <2> QED BY <2>1
<1> HIDE DEF f
<1>8. ASSUME NEW n \in Nat PROVE f[n] = IF n = 0 THEN c ELSE step[n][f[n - 1]]
  <2>1. CASE n = 0 BY <1>5, <1>6, <2>1
  <2>2. CASE n # 0
    <3>1. n - 1 \in Nat /\ n \in 1 .. n /\ n - 1 <= n /\ n - 1 <= n - 1 BY <2>2
    <3>2. Chosen(n)[n] = step[n][Chosen(n)[n - 1]] BY <1>5, <3>1
    <3>3. Chosen(n)[n - 1] = Chosen(n - 1)[n - 1]
      <4>1. Chosen(n) \in Part(n) /\ Chosen(n - 1) \in Part(n - 1) BY <1>5, <3>1
      <4> HIDE DEF Part
      <4> QED BY <1>4, <3>1, <4>1
    <3> QED BY <1>6, <2>2, <3>1, <3>2, <3>3
  <2> QED BY <2>1, <2>2
<1> QED BY <1>7, <1>8

-----------------------------------------------------------------------------
(* The schedule.                                                           *)
LEMMA PowerIs ==
  /\ PowerOfTwo \in [Nat -> Nat]
  /\ PowerOfTwo[0] = 1
  /\ \A n \in Nat : PowerOfTwo[n + 1] = 2 * PowerOfTwo[n]
<1> DEFINE step == [n \in Nat |-> [x \in Nat |-> 2 * x]]
           Doubles(f) == f = [n \in Nat |-> IF n = 0 THEN 1 ELSE 2 * f[n - 1]]
<1>1. step \in [Nat -> [Nat -> Nat]] OBVIOUS
<1>2. PICK f \in [Nat -> Nat] : \A n \in Nat : f[n] = IF n = 0 THEN 1 ELSE step[n][f[n - 1]]
  <2> HIDE DEF step
  <2>1. \A c \in Nat : \E f \in [Nat -> Nat] :
            \A n \in Nat : f[n] = IF n = 0 THEN c ELSE step[n][f[n - 1]]
    BY <1>1, Recursion
  <2>2. 1 \in Nat OBVIOUS
  <2> HIDE DEF Doubles
  <2> QED BY <2>1, <2>2, Zenon
<1>3. Doubles(f)
  <2>1. ASSUME NEW n \in Nat PROVE f[n] = IF n = 0 THEN 1 ELSE 2 * f[n - 1]
    <3>1. CASE n = 0 BY <1>2, <3>1
    <3>2. CASE n # 0
      <4>1. n - 1 \in Nat /\ f[n - 1] \in Nat BY <3>2
      <4> QED BY <1>2, <3>2, <4>1
    <3> QED BY <3>1, <3>2
  <2> QED BY <2>1
<1>4. Doubles(PowerOfTwo)
  <2>1. PowerOfTwo = CHOOSE g : Doubles(g) BY DEF PowerOfTwo
  <2> HIDE DEF Doubles
  <2> QED BY <1>3, <2>1
<1>5. PowerOfTwo[0] = 1 BY <1>4
<1>6. \A n \in Nat : PowerOfTwo[n + 1] = 2 * PowerOfTwo[n]
  <2>1. ASSUME NEW n \in Nat PROVE PowerOfTwo[n + 1] = 2 * PowerOfTwo[n]
    <3>1. n + 1 \in Nat /\ n + 1 # 0 /\ n + 1 - 1 = n OBVIOUS
    <3> QED BY <1>4, <3>1
  <2> QED BY <2>1
<1>7. \A n \in Nat : PowerOfTwo[n] \in Nat
  <2> DEFINE S == {n \in Nat : PowerOfTwo[n] \in Nat}
  <2>1. 0 \in S BY <1>5
  <2>2. \A n \in Nat : n \in S => n + 1 \in S BY <1>6
  <2>3. \A n \in Nat : n \in S
    <3> HIDE DEF S
    <3> QED BY <2>1, <2>2, EveryNatural
  <2> QED BY <2>3
<1>8. PowerOfTwo \in [Nat -> Nat]
  <2>1. PowerOfTwo = [n \in Nat |-> PowerOfTwo[n]] BY <1>4
  <2> QED BY <1>7, <2>1
<1> QED BY <1>5, <1>6, <1>8

LEMMA PowersGrow == ASSUME NEW a \in Nat, NEW b \in Nat, a <= b PROVE PowerOfTwo[a] <= PowerOfTwo[b]
<1> DEFINE S == {d \in Nat : PowerOfTwo[a] <= PowerOfTwo[a + d]}
<1>1. \A n \in Nat : PowerOfTwo[n] \in Nat BY PowerIs
<1>2. 0 \in S
  <2>1. a + 0 = a OBVIOUS
  <2> QED BY <1>1, <2>1
<1>3. ASSUME NEW d \in Nat, d \in S PROVE d + 1 \in S
  <2>1. PowerOfTwo[a + d + 1] = 2 * PowerOfTwo[a + d] BY PowerIs
  <2>2. a + (d + 1) = a + d + 1 OBVIOUS
  <2>3. PowerOfTwo[a] \in Nat /\ PowerOfTwo[a + d] \in Nat /\ PowerOfTwo[a] <= PowerOfTwo[a + d]
    BY <1>1, <1>3
  <2>4. PowerOfTwo[a] <= PowerOfTwo[a + (d + 1)] BY <2>1, <2>2, <2>3
  <2> QED BY <2>4
<1>4. \A d \in Nat : d \in S
  <2> HIDE DEF S
  <2>1. \A d \in Nat : d \in S => d + 1 \in S BY <1>3
  <2> QED BY <1>2, <2>1, EveryNatural
<1>5. b - a \in Nat /\ a + (b - a) = b OBVIOUS
<1>6. PowerOfTwo[a] <= PowerOfTwo[a + (b - a)] BY <1>4, <1>5
<1> QED BY <1>5, <1>6

LEMMA Schedule ==
  /\ Production.initial \in Nat \ {0} /\ Production.ceiling \in Nat \ {0}
  /\ Production.attempts \in Nat \ {0} /\ Width \in Nat \ {0}
  /\ Largest \in Nat /\ Production.initial <= Largest /\ Production.ceiling <= Largest
<1>1. PowerOfTwo[Width] \in Nat BY PowerIs, WidthAssumption
<1> QED BY <1>1, ProductionAssumption, WidthAssumption DEF Largest

LEMMA Products ==
  ASSUME NEW i \in Nat, NEW a \in Nat, NEW b \in Nat, a <= b
  PROVE  i * a \in Nat /\ i * b \in Nat /\ i * a <= i * b
<1>1. PICK d \in Nat : b = a + d
  <2>1. b - a \in Nat /\ b = a + (b - a) OBVIOUS
  <2> QED BY <2>1
<1>2. i * b = i * a + i * d BY <1>1
<1>3. i * d \in Nat /\ i * a \in Nat /\ i * b \in Nat OBVIOUS
<1> QED BY <1>2, <1>3

Shift(n) == Lesser(SaturatingSub(n, 1), Width - 1)

(* The backoff in steps: the shift and the product saturate, the ceiling   *)
(* is taken last, and each of them keeps the order.                        *)
LEMMA BackoffIs ==
  ASSUME NEW n \in Nat
  PROVE  /\ Shift(n) \in Nat /\ Shift(n) <= Shift(n + 1)
         /\ ProductionBackoff(n) =
                Lesser(SaturatingMul(Production.initial, PowerOfTwo[Shift(n)]),
                       Production.ceiling)
<1>1. ProductionBackoff(n) =
          Lesser(SaturatingMul(Production.initial, PowerOfTwo[Shift(n)]), Production.ceiling)
  BY Zenon DEF ProductionBackoff, BackoffForAttempt, Shift
<1>2. Shift(n) \in Nat /\ Shift(n) <= Shift(n + 1)
  BY Schedule DEF Shift, Lesser, SaturatingSub
<1> QED BY <1>1, <1>2

(* backoff_for_attempt is finite, capped and monotone for every attempt    *)
(* number, whatever a caller passes.                                       *)
THEOREM BackoffBounds ==
  ASSUME NEW n \in Nat
  PROVE  /\ ProductionBackoff(n) \in Nat
         /\ ProductionBackoff(n) \in
                Lesser(Production.initial, Production.ceiling) .. Production.ceiling
         /\ ProductionBackoff(n) <= ProductionBackoff(n + 1)
<1> DEFINE p == PowerOfTwo[Shift(n)]
           q == PowerOfTwo[Shift(n + 1)]
           i == Production.initial
           c == Production.ceiling
<1>1. /\ Shift(n) \in Nat /\ Shift(n + 1) \in Nat /\ Shift(n) <= Shift(n + 1)
      /\ ProductionBackoff(n) = Lesser(SaturatingMul(i, p), c)
      /\ ProductionBackoff(n + 1) = Lesser(SaturatingMul(i, q), c)
  BY BackoffIs
<1>2. 0 <= Shift(n) BY <1>1
<1>3. p \in Nat /\ q \in Nat /\ 1 <= p /\ p <= q BY <1>1, <1>2, PowersGrow, PowerIs
<1>4. i \in Nat /\ c \in Nat /\ Largest \in Nat /\ i <= Largest /\ 1 \in Nat BY Schedule
<1> HIDE DEF p, q, i, c
<1>5. i * p \in Nat /\ i * q \in Nat /\ i * p <= i * q /\ i * 1 <= i * p /\ i * 1 = i
  BY <1>3, <1>4, Products
<1> DEFINE x == i * p
           y == i * q
<1>6. x \in Nat /\ y \in Nat /\ x <= y /\ i <= x BY <1>5
<1>7. /\ ProductionBackoff(n) = Lesser(Lesser(x, Largest), c)
      /\ ProductionBackoff(n + 1) = Lesser(Lesser(y, Largest), c)
  BY <1>1 DEF SaturatingMul
<1> HIDE DEF x, y
<1>8. /\ Lesser(Lesser(x, Largest), c) \in Nat
      /\ Lesser(Lesser(x, Largest), c) \in Lesser(i, c) .. c
      /\ Lesser(Lesser(x, Largest), c) <= Lesser(Lesser(y, Largest), c)
  BY <1>4, <1>6 DEF Lesser
<1> QED BY <1>7, <1>8 DEF i, c

LEMMA BudgetIs == \A n \in Nat : TotalBudget[n] \in Nat
<1> DEFINE Add(n, x) == SaturatingAdd(x, ProductionBackoff(n))
           step == [n \in Nat |-> [x \in Nat |-> Add(n, x)]]
           Sums(f) == f = [n \in Nat |->
                              IF n = 0 THEN 0
                              ELSE SaturatingAdd(f[n - 1], ProductionBackoff(n))]
<1>1. ASSUME NEW n \in Nat, NEW x \in Nat PROVE Add(n, x) \in Nat
  BY BackoffBounds, Schedule DEF SaturatingAdd, Lesser
<1>2. \E f \in [Nat -> Nat] : \A n \in Nat : f[n] = IF n = 0 THEN 0 ELSE step[n][f[n - 1]]
  <2>1. step \in [Nat -> [Nat -> Nat]]
    <3> HIDE DEF Add
    <3> QED BY <1>1
  <2> HIDE DEF step
  <2>2. \A c \in Nat : \E f \in [Nat -> Nat] :
            \A n \in Nat : f[n] = IF n = 0 THEN c ELSE step[n][f[n - 1]]
    BY <2>1, Recursion
  <2>3. 0 \in Nat OBVIOUS
  <2> QED BY <2>2, <2>3, Zenon
<1>3. PICK f \in [Nat -> Nat] : \A n \in Nat : f[n] = IF n = 0 THEN 0 ELSE step[n][f[n - 1]]
  BY <1>2
<1>4. Sums(f)
  <2>1. ASSUME NEW n \in Nat
        PROVE  f[n] = IF n = 0 THEN 0 ELSE Add(n, f[n - 1])
    <3> HIDE DEF Add
    <3>1. CASE n = 0 BY <1>3, <3>1
    <3>2. CASE n # 0
      <4>1. n - 1 \in Nat /\ f[n - 1] \in Nat BY <3>2
      <4> QED BY <1>3, <3>2, <4>1
    <3> QED BY <3>1, <3>2
  <2>2. f = [n \in Nat |-> f[n]] OBVIOUS
  <2>3. f = [n \in Nat |-> IF n = 0 THEN 0 ELSE Add(n, f[n - 1])] BY <2>1, <2>2, Zenon
  <2> QED BY <2>3
<1>5. Sums(TotalBudget)
  <2>1. TotalBudget = CHOOSE g : Sums(g) BY DEF TotalBudget
  <2> HIDE DEF Sums
  <2> QED BY <1>4, <2>1
<1>6. /\ TotalBudget[0] = 0
      /\ \A n \in Nat : n # 0 => TotalBudget[n] = Add(n, TotalBudget[n - 1])
  <2>1. ASSUME NEW n \in Nat
        PROVE  TotalBudget[n] = IF n = 0 THEN 0 ELSE Add(n, TotalBudget[n - 1])
    <3> HIDE DEF Add
    <3>1. TotalBudget = [k \in Nat |-> IF k = 0 THEN 0 ELSE Add(k, TotalBudget[k - 1])]
      BY <1>5 DEF Add
    <3> QED BY <3>1
  <2> HIDE DEF Add
  <2> QED BY <2>1
<1> DEFINE S == {n \in Nat : TotalBudget[n] \in Nat}
<1>7. 0 \in S BY <1>6
<1>8. ASSUME NEW n \in Nat, n \in S PROVE n + 1 \in S
  <2>1. n + 1 \in Nat /\ n + 1 # 0 /\ n + 1 - 1 = n /\ TotalBudget[n] \in Nat BY <1>8
  <2> HIDE DEF Add
  <2>2. TotalBudget[n + 1] = Add(n + 1, TotalBudget[n + 1 - 1]) BY <1>6, <2>1
  <2>3. TotalBudget[n + 1] = Add(n + 1, TotalBudget[n]) BY <2>1, <2>2
  <2>4. TotalBudget[n + 1] \in Nat BY <1>1, <2>1, <2>3
  <2> QED BY <2>1, <2>4
<1>9. \A n \in Nat : n \in S
  <2> HIDE DEF S
  <2>1. \A n \in Nat : n \in S => n + 1 \in S BY <1>8
  <2> QED BY <1>7, <2>1, EveryNatural
<1> QED BY <1>9

(* A count that was trimmed away did not fit the timeout.                  *)
PolicyInv ==
    /\ policyTimeout \in Nat /\ policyAttempts \in 1 .. Production.attempts
    /\ policyStep \in {"trim", "done"}
    /\ \A n \in 1 .. Production.attempts : n > policyAttempts => TotalBudget[n] > policyTimeout
    /\ policyStep = "done" => ~TooLong

LEMMA PolicyInitHolds == PolicyInit => PolicyInv
  BY Schedule, TimeoutsAssumption DEF PolicyInit, PolicyInv

LEMMA PolicyInductive == PolicyInv /\ [PolicyNext]_policyVars => PolicyInv'
<1> SUFFICES ASSUME PolicyInv, [PolicyNext]_policyVars PROVE PolicyInv'
  OBVIOUS
<1>1. CASE Trim
  <2>1. /\ policyAttempts' = policyAttempts - 1 /\ policyTimeout' = policyTimeout
        /\ policyStep' = "trim" /\ policyAttempts > 1
        /\ TotalBudget[policyAttempts] > policyTimeout
    BY <1>1 DEF Trim, TooLong
  <2>2. policyAttempts' \in 1 .. Production.attempts BY <2>1, Schedule DEF PolicyInv
  <2>3. ASSUME NEW n \in 1 .. Production.attempts, n > policyAttempts'
        PROVE  TotalBudget[n] > policyTimeout
    <3>1. n = policyAttempts \/ n > policyAttempts BY <2>1, <2>3 DEF PolicyInv
    <3> QED BY <2>1, <3>1 DEF PolicyInv
  <2> QED BY <2>1, <2>2, <2>3 DEF PolicyInv
<1>2. CASE Return
  BY <1>2 DEF Return, PolicyInv, TooLong
<1>3. CASE UNCHANGED policyVars
  BY <1>3 DEF policyVars, PolicyInv, TooLong
<1> QED BY <1>1, <1>2, <1>3 DEF PolicyNext

LEMMA PolicyInvIsEnough == PolicyInv => LargestSchedule /\ BackoffNeverWraps
<1> SUFFICES ASSUME PolicyInv PROVE LargestSchedule /\ BackoffNeverWraps
  OBVIOUS
<1>1. LargestSchedule
  <2>1. SUFFICES ASSUME policyStep = "done"
                 PROVE  /\ policyAttempts \in {1} \cup Fitting
                        /\ \A n \in Fitting : n <= policyAttempts
    BY DEF LargestSchedule
  <2>2. /\ policyAttempts \in 1 .. Production.attempts /\ policyTimeout \in Nat
        /\ policyAttempts > 1 => ~(TotalBudget[policyAttempts] > policyTimeout)
    BY <2>1 DEF PolicyInv, TooLong
  <2>3. policyAttempts \in {1} \cup Fitting
    <3>1. TotalBudget[policyAttempts] \in Nat BY <2>2, BudgetIs
    <3> QED BY <2>2, <3>1 DEF Fitting
  <2>4. ASSUME NEW n \in Fitting PROVE n <= policyAttempts
    <3>1. n \in 1 .. Production.attempts /\ TotalBudget[n] <= policyTimeout /\ n \in Nat
      BY <2>4 DEF Fitting
    <3>2. TotalBudget[n] \in Nat BY <3>1, BudgetIs
    <3>3. ~(n > policyAttempts) BY <2>2, <3>1, <3>2 DEF PolicyInv
    <3> QED BY <2>2, <3>1, <3>3
  <2> QED BY <2>3, <2>4
<1>2. BackoffNeverWraps
  <2>1. ASSUME NEW n \in 1 .. policyAttempts * Width PROVE n \in Nat OBVIOUS
  <2> QED BY <2>1, BackoffBounds DEF BackoffNeverWraps
<1> QED BY <1>1, <1>2

-----------------------------------------------------------------------------
(* The sleeps of an episode.                                               *)
LEMMA SumsAreNatural == \A x \in Nat, y \in Nat : x + y \in Nat
  OBVIOUS

LEMMA BudgetOfIs ==
  /\ BudgetOf[0] = 0
  /\ \A n \in 1 .. MaxAttempts : BudgetOf[n] = BudgetOf[n - 1] + Backoff[n]
  /\ \A n \in 0 .. MaxAttempts : BudgetOf[n] \in Nat
<1> USE CycleAttemptsAssumption, BackoffAssumption
<1> DEFINE Add(n, x) == IF n \in 1 .. MaxAttempts THEN x + Backoff[n] ELSE x
           step == [n \in Nat |-> [x \in Nat |-> Add(n, x)]]
           Sums(f) == f = [n \in 0 .. MaxAttempts |->
                              IF n = 0 THEN 0 ELSE f[n - 1] + Backoff[n]]
<1>1. ASSUME NEW n \in Nat, NEW x \in Nat PROVE Add(n, x) \in Nat
  <2>1. CASE n \in 1 .. MaxAttempts
    <3>1. Backoff[n] \in Nat BY <2>1
    <3> QED BY <2>1, <3>1
  <2> QED BY <2>1
<1>2. \E f \in [Nat -> Nat] : \A n \in Nat : f[n] = IF n = 0 THEN 0 ELSE step[n][f[n - 1]]
  <2>1. step \in [Nat -> [Nat -> Nat]]
    <3> HIDE DEF Add
    <3> QED BY <1>1
  <2> HIDE DEF step
  <2>2. \A c \in Nat : \E f \in [Nat -> Nat] :
            \A n \in Nat : f[n] = IF n = 0 THEN c ELSE step[n][f[n - 1]]
    BY <2>1, Recursion
  <2>3. 0 \in Nat OBVIOUS
  <2> QED BY <2>2, <2>3, Zenon
<1>3. PICK f \in [Nat -> Nat] : \A n \in Nat : f[n] = IF n = 0 THEN 0 ELSE step[n][f[n - 1]]
  BY <1>2
<1> DEFINE g == [n \in 0 .. MaxAttempts |-> f[n]]
<1>4. Sums(g)
  <2>1. ASSUME NEW n \in 0 .. MaxAttempts
        PROVE  f[n] = IF n = 0 THEN 0 ELSE g[n - 1] + Backoff[n]
    <3>1. CASE n = 0 BY <1>3, <3>1
    <3>2. CASE n # 0
      <4>0. n \in Nat /\ n - 1 \in Nat /\ n \in 1 .. MaxAttempts /\ n - 1 \in 0 .. MaxAttempts
        BY <3>2
      <4>1. n \in Nat /\ n \in 1 .. MaxAttempts /\ n - 1 \in 0 .. MaxAttempts /\ f[n - 1] \in Nat
        BY <4>0
      <4>2. f[n] = Add(n, f[n - 1])
        <5> HIDE DEF Add
        <5> QED BY <1>3, <3>2, <4>1
      <4>3. g[n - 1] = f[n - 1] BY <4>1
      <4> QED BY <3>2, <4>1, <4>2, <4>3
    <3> QED BY <3>1, <3>2
  <2>2. g = [n \in 0 .. MaxAttempts |-> IF n = 0 THEN 0 ELSE g[n - 1] + Backoff[n]]
    BY <2>1
  <2> QED BY <2>2
<1>5. Sums(BudgetOf)
  <2>1. BudgetOf = CHOOSE h : Sums(h) BY DEF BudgetOf
  <2> HIDE DEF Sums
  <2> QED BY <1>4, <2>1
<1>6. BudgetOf[0] = 0 BY <1>5
<1>7. \A n \in 1 .. MaxAttempts : BudgetOf[n] = BudgetOf[n - 1] + Backoff[n]
  <2>1. \A n \in 1 .. MaxAttempts : n \in 0 .. MaxAttempts /\ n # 0 OBVIOUS
  <2> QED BY <1>5, <2>1
<1> DEFINE S == {n \in Nat : n <= MaxAttempts => BudgetOf[n] \in Nat}
<1> HIDE DEF g
<1>8. 0 \in S BY <1>6
<1>9. ASSUME NEW n \in Nat, n \in S PROVE n + 1 \in S
  <2>1. SUFFICES ASSUME n + 1 <= MaxAttempts PROVE BudgetOf[n + 1] \in Nat
    OBVIOUS
  <2> DEFINE k == n + 1
  <2>2. k \in 1 .. MaxAttempts /\ k - 1 = n BY <2>1
  <2>3. BudgetOf[n] \in Nat BY <1>9, <2>1
  <2> HIDE DEF k
  <2>4. Backoff[k] \in Nat /\ BudgetOf[k] = BudgetOf[k - 1] + Backoff[k] BY <1>7, <2>2
  <2>5. BudgetOf[k] = BudgetOf[n] + Backoff[k] BY <2>2, <2>4, Zenon
  <2>6. BudgetOf[k] \in Nat BY <2>3, <2>4, <2>5, SumsAreNatural, Zenon
  <2> QED BY <2>6 DEF k
<1>10. \A n \in Nat : n \in S
  <2> HIDE DEF S
  <2>1. \A n \in Nat : n \in S => n + 1 \in S BY <1>9
  <2> QED BY <1>8, <2>1, EveryNatural
<1>11. \A n \in 0 .. MaxAttempts : BudgetOf[n] \in Nat
  <2>1. \A n \in 0 .. MaxAttempts : n \in Nat /\ n <= MaxAttempts OBVIOUS
  <2> QED BY <1>10, <2>1
<1> QED BY <1>6, <1>7, <1>11

LEMMA BudgetsGrow == \A n \in 0 .. MaxAttempts : BudgetOf[n] <= BudgetOf[MaxAttempts]
<1> USE CycleAttemptsAssumption, BackoffAssumption
<1> DEFINE S == {d \in Nat : d <= MaxAttempts =>
                                 BudgetOf[MaxAttempts - d] <= BudgetOf[MaxAttempts]}
<1>1. 0 \in S
  <2>1. MaxAttempts - 0 = MaxAttempts /\ MaxAttempts \in 0 .. MaxAttempts OBVIOUS
  <2>2. BudgetOf[MaxAttempts] \in Nat BY <2>1, BudgetOfIs
  <2> QED BY <2>1, <2>2
<1>2. ASSUME NEW d \in Nat, d \in S PROVE d + 1 \in S
  <2>1. SUFFICES ASSUME d + 1 <= MaxAttempts
                 PROVE  BudgetOf[MaxAttempts - (d + 1)] <= BudgetOf[MaxAttempts]
    OBVIOUS
  <2> DEFINE n == MaxAttempts - d
  <2>2. /\ n \in 1 .. MaxAttempts /\ n \in 0 .. MaxAttempts /\ n - 1 \in 0 .. MaxAttempts
        /\ MaxAttempts - (d + 1) = n - 1 /\ MaxAttempts \in 0 .. MaxAttempts
    BY <2>1
  <2>3. BudgetOf[n] <= BudgetOf[MaxAttempts] BY <1>2, <2>1
  <2> HIDE DEF n
  <2>4. Backoff[n] \in Nat /\ BudgetOf[n] = BudgetOf[n - 1] + Backoff[n] BY <2>2, BudgetOfIs
  <2>5. BudgetOf[n - 1] \in Nat /\ BudgetOf[n] \in Nat /\ BudgetOf[MaxAttempts] \in Nat
    BY <2>2, BudgetOfIs
  <2> QED BY <2>2, <2>3, <2>4, <2>5
<1>3. \A d \in Nat : d \in S
  <2> HIDE DEF S
  <2>1. \A d \in Nat : d \in S => d + 1 \in S BY <1>2
  <2> QED BY <1>1, <2>1, EveryNatural
<1>4. ASSUME NEW n \in 0 .. MaxAttempts PROVE BudgetOf[n] <= BudgetOf[MaxAttempts]
  <2>1. MaxAttempts - n \in Nat /\ MaxAttempts - n <= MaxAttempts
        /\ MaxAttempts - (MaxAttempts - n) = n
    OBVIOUS
  <2>2. BudgetOf[MaxAttempts - (MaxAttempts - n)] <= BudgetOf[MaxAttempts] BY <1>3, <2>1
  <2> QED BY <2>1, <2>2
<1> QED BY <1>4

-----------------------------------------------------------------------------
(* The reconnect cycle.                                                    *)

(* An attempt closes the window, and the poll that opens it announces the  *)
(* recovery.                                                               *)
Unannounced == awaitingRestore => stableSince = Never

(* What was slept is the sum of the backoffs of the attempts made.         *)
SleptInv == slept = BudgetOf[attemptsMade]

CycleInv == TypeOK /\ Unannounced /\ SleptInv

(* TypeOK in two parts: arithmetic and flags want different provers.       *)
CycleNumbers ==
    /\ attemptsMade \in 0 .. MaxAttempts
    /\ stableSince \in 0 .. now \cup {Never}
    /\ now \in 0 .. MaxTime
    /\ slept \in Nat
CycleFlags ==
    /\ awaitingRestore \in BOOLEAN /\ running \in BOOLEAN
    /\ polled \in BOOLEAN

LEMMA TypeParts == TypeOK <=> CycleNumbers /\ CycleFlags
  BY DEF TypeOK, CycleNumbers, CycleFlags

LEMMA CycleInitHolds == Init => CycleInv
<1> SUFFICES ASSUME Init PROVE CycleInv
  OBVIOUS
<1>1. CycleNumbers
  BY CycleAttemptsAssumption, TimeAssumption DEF Init, CycleNumbers
<1>2. CycleFlags /\ Unannounced
  BY DEF Init, CycleFlags, Unannounced
<1>3. SleptInv
  BY BudgetOfIs DEF Init, SleptInv
<1> QED BY <1>1, <1>2, <1>3, TypeParts DEF CycleInv

LEMMA CycleNumbersStep ==
  ASSUME CycleNumbers, [Next]_vars
  PROVE  CycleNumbers'
<1>1. CASE Tick
  BY <1>1, TimeAssumption, NeverAssumption DEF Tick, cycle, CycleNumbers
<1>2. CASE BeginAttempt
  <2>1. attemptsMade + 1 \in 1 .. MaxAttempts
    BY <1>2, CycleAttemptsAssumption DEF BeginAttempt, MoreToTry, CycleNumbers
  <2>2. Backoff[attemptsMade + 1] \in Nat
    BY <2>1, BackoffAssumption
  <2>3. slept' = slept + Backoff[attemptsMade + 1] /\ attemptsMade' = attemptsMade + 1
        /\ stableSince' = Never /\ now' = now
    BY <1>2 DEF BeginAttempt, BackoffOf, Counted, NoSince
  <2> QED BY <2>1, <2>2, <2>3, CycleAttemptsAssumption DEF CycleNumbers
<1>3. CASE NoteStable
  <2>1. /\ now' = now
        /\ attemptsMade' \in {attemptsMade, 0} /\ slept' \in {slept, 0}
        /\ stableSince' \in {stableSince, now}
    BY <1>3 DEF NoteStable, WindowStart
  <2> QED BY <2>1, CycleAttemptsAssumption, TimeAssumption DEF CycleNumbers
<1>4. CASE NoteUnstable
  BY <1>4 DEF NoteUnstable, CycleNumbers
<1>5. CASE Resume \/ Interrupt \/ UNCHANGED vars
  BY <1>5 DEF Resume, Interrupt, vars, cycle, CycleNumbers
<1> QED BY <1>1, <1>2, <1>3, <1>4, <1>5 DEF Next

LEMMA CycleFlagsStep ==
  ASSUME CycleFlags, [Next]_vars
  PROVE  CycleFlags'
<1>1. CASE Tick
  BY <1>1 DEF Tick, cycle, CycleFlags
<1>2. CASE Resume \/ Interrupt
  BY <1>2 DEF Resume, Interrupt, cycle, CycleFlags
<1>3. CASE BeginAttempt
  BY <1>3 DEF BeginAttempt, CycleFlags
<1>4. CASE NoteStable
  <2>1. awaitingRestore' = FALSE /\ polled' = TRUE /\ running' = running
    BY <1>4 DEF NoteStable
  <2> QED BY <2>1 DEF CycleFlags
<1>5. CASE NoteUnstable
  BY <1>5 DEF NoteUnstable, CycleFlags
<1>6. CASE UNCHANGED vars
  BY <1>6 DEF vars, cycle, CycleFlags
<1> QED BY <1>1, <1>2, <1>3, <1>4, <1>5, <1>6 DEF Next

LEMMA UnannouncedStep == CycleInv /\ [Next]_vars => Unannounced'
  BY DEF CycleInv, Unannounced, Next, Tick, Resume, Interrupt, BeginAttempt, NoSince, NoteStable,
         NoteUnstable, vars, cycle

LEMMA SleptStep ==
  ASSUME CycleInv, [Next]_vars
  PROVE  SleptInv'
<1>1. slept = BudgetOf[attemptsMade] /\ attemptsMade \in 0 .. MaxAttempts
  BY DEF CycleInv, SleptInv, TypeOK
<1>2. CASE BeginAttempt
  <2> DEFINE n == attemptsMade + 1
  <2>1. n \in 1 .. MaxAttempts /\ n - 1 = attemptsMade
    BY <1>1, <1>2, CycleAttemptsAssumption DEF BeginAttempt, MoreToTry
  <2>2. slept' = slept + Backoff[n] /\ attemptsMade' = n
    BY <1>2 DEF BeginAttempt, BackoffOf, Counted
  <2> HIDE DEF n
  <2>3. BudgetOf[n] = BudgetOf[n - 1] + Backoff[n]
    BY <2>1, BudgetOfIs
  <2>4. BudgetOf[n] = slept + Backoff[n]
    BY <1>1, <2>1, <2>3, Zenon
  <2> QED BY <2>2, <2>4 DEF SleptInv
<1>3. CASE NoteStable
  <2>1. (attemptsMade' = 0 /\ slept' = 0) \/ UNCHANGED <<attemptsMade, slept>>
    BY <1>3 DEF NoteStable
  <2> QED BY <1>1, <2>1, BudgetOfIs DEF SleptInv
<1>4. CASE Tick \/ Resume \/ Interrupt \/ NoteUnstable \/ UNCHANGED vars
  BY <1>1, <1>4 DEF Tick, Resume, Interrupt, NoteUnstable, vars, cycle, SleptInv
<1> QED BY <1>2, <1>3, <1>4 DEF Next

LEMMA CycleInductive == CycleInv /\ [Next]_vars => CycleInv'
<1>1. CycleInv /\ [Next]_vars => CycleNumbers' /\ CycleFlags' /\ Unannounced' /\ SleptInv'
  BY CycleNumbersStep, CycleFlagsStep, TypeParts, UnannouncedStep, SleptStep DEF CycleInv
<1>2. CycleNumbers' /\ CycleFlags' => TypeOK'
  BY DEF CycleNumbers, CycleFlags, TypeOK
<1> QED BY <1>1, <1>2 DEF CycleInv

LEMMA CycleInvIsEnough == CycleInv => TypeOK /\ EpisodeWithinBudget
<1> SUFFICES ASSUME CycleInv PROVE EpisodeWithinBudget
  BY DEF CycleInv
<1>1. slept = BudgetOf[attemptsMade] /\ attemptsMade \in 0 .. MaxAttempts
  BY DEF CycleInv, SleptInv, TypeOK
<1> QED BY <1>1, BudgetsGrow, Zenon DEF EpisodeWithinBudget

LEMMA AnnouncedFirst ==
  ASSUME CycleInv, [Next]_vars, attemptsMade' = 0, attemptsMade # 0
  PROVE  ~awaitingRestore
<1>2. ~BeginAttempt
  BY DEF CycleInv, TypeOK, BeginAttempt, Counted
<1>3. stableSince # Never
  BY <1>2 DEF Next, Tick, Resume, Interrupt, NoteStable, NoteUnstable, vars, cycle
<1> QED BY <1>3 DEF CycleInv, Unannounced

(* ReconnectCycle implements RetryBudget, with its clock mapped to whether *)
(* the window is complete.                                                 *)
LEMMA BudgetInit == Init => Budget!CycleInit
  BY DEF Init, Window, Budget!CycleInit

LEMMA BudgetStep ==
  ASSUME CycleInv, [Next]_vars
  PROVE  [Budget!CycleNext]_(Budget!cycleVars)
<1> USE DEF Budget!CycleNext, Budget!cycleVars
<1>1. CASE Tick
  <2>1. attemptsMade' = attemptsMade /\ stableSince' = stableSince /\ now' = now + 1
    BY <1>1 DEF Tick, cycle
  <2>2. Window' = Window \/ (Window = "open" /\ Window' = "elapsed")
    BY <2>1, ResetAssumption, NeverAssumption DEF CycleInv, TypeOK, Window, WindowComplete
  <2> QED BY <2>1, <2>2 DEF Budget!Elapse
<1>2. CASE BeginAttempt
  BY <1>2 DEF BeginAttempt, MoreToTry, Counted, NoSince, Window, Budget!BeginAttempt,
              Budget!CanRetry, Budget!Consumed, Budget!WindowBroken
<1>3. CASE NoteStable
  <2>1. stableSince' = now /\ now' = now /\ now \in Nat => Window' = "open"
    BY ResetAssumption, NeverAssumption DEF Window, WindowComplete
  <2>2. CASE stableSince' = now /\ now' = now
    BY <1>3, <2>1, <2>2 DEF NoteStable, WindowStart, CycleInv, TypeOK, Window, Budget!NoteStable
  <2>3. CASE UNCHANGED <<attemptsMade, stableSince, now>>
    BY <2>3 DEF Window, WindowComplete
  <2> QED BY <1>3, <2>2, <2>3 DEF NoteStable, WindowStart
<1>4. CASE NoteUnstable
  BY <1>4 DEF NoteUnstable, Window, Budget!NoteUnstable
<1>5. CASE Resume \/ Interrupt \/ UNCHANGED vars
  BY <1>5 DEF Resume, Interrupt, vars, cycle, Window, WindowComplete
<1> QED BY <1>1, <1>2, <1>3, <1>4, <1>5 DEF Next

-----------------------------------------------------------------------------
(* The termination signals.                                                *)
HandlerStates ==
    [step : {"pending", "load", "open", "ask", "decide", "exit", "done"}, now : 0 .. LastInstant]
SignalsNumbers ==
    /\ clock \in 0 .. LastInstant /\ anchor \in 0 .. LastInstant
    /\ stage \in {"idle", "grace", "force"}
    /\ graceWindow \in {DefaultWindow, RecordingWindow}
    /\ handler \in [Deliveries -> HandlerStates]
    /\ mainStep \in {"starting", "arming", "running", "joining", "disarming", "restoring",
                     "exiting"}
    /\ capture \in {"none", "open", "final", "abandoned"}
    /\ exited \in {"no", "orderly", "forced"}
SignalsFlags == windowArmed \in BOOLEAN /\ shutdown \in BOOLEAN

(* No delivery is of a later time than now, and the delivery that opened   *)
(* the grace window can be named as long as it is open.                    *)
DeliveredInv == \A d \in Deliveries : handler[d].now <= clock
AnchorInv == stage = "grace" => First # {}

(* The window is wide from before the capture to behind its end.           *)
WideInv ==
    /\ mainStep = "arming" => graceWindow = RecordingWindow
    /\ capture = "open" => graceWindow = RecordingWindow /\ mainStep \in {"running", "joining"}

SignalsInv == SignalsNumbers /\ SignalsFlags /\ DeliveredInv /\ AnchorInv /\ WideInv

LEMMA SignalsInitHolds == SignalsInit => SignalsInv
<1> SUFFICES ASSUME SignalsInit PROVE SignalsInv
  OBVIOUS
<1> USE WindowAssumption, InstantAssumption DEF SignalsInit
<1>1. SignalsNumbers
  <2>1. Pending \in HandlerStates BY DEF Pending, HandlerStates
  <2> QED BY <2>1 DEF SignalsNumbers
<1>2. SignalsFlags BY Zenon DEF SignalsFlags
<1>3. DeliveredInv BY DEF DeliveredInv, Pending
<1>4. AnchorInv /\ WideInv BY DEF AnchorInv, WideInv
<1> QED BY <1>1, <1>2, <1>3, <1>4 DEF SignalsInv

(* The main thread and the clock.                                          *)
LEMMA MainStepKeeps ==
  ASSUME SignalsInv, TickClock \/ Startup \/ Teardown \/ Closing
  PROVE  SignalsInv'
<1>1. SignalsNumbers /\ SignalsFlags /\ DeliveredInv /\ AnchorInv /\ WideInv BY DEF SignalsInv
<1> USE DEF Startup, Closing, TickClock, ArmRecordingGraceWindow, MarkArmed, StartWithoutRecording,
            Teardown, JoinWorker, DisarmRecordingGraceWindow, RestoreWindow, Leave
<1>2. /\ UNCHANGED <<stage, anchor, shutdown, handler>>
      /\ clock' = clock \/ (clock < LastInstant /\ clock' = clock + 1)
  BY DEF handlerVars
<1>3. windowArmed' \in {windowArmed, TRUE, FALSE} BY Zenon DEF windowVars
<1>4. SignalsFlags' BY <1>1, <1>2, <1>3 DEF SignalsFlags
<1>5. /\ mainStep' \in {mainStep, "arming", "running", "joining", "disarming", "restoring",
                        "exiting"}
      /\ capture' \in {capture, "open", "none", "final", "abandoned"}
      /\ exited' \in {exited, "orderly"}
      /\ graceWindow' \in {graceWindow, RecordingWindow, DefaultWindow}
  BY DEF windowVars, Joined
<1>6. SignalsNumbers' BY <1>1, <1>2, <1>5, InstantAssumption DEF SignalsNumbers
<1>7. DeliveredInv'
  BY <1>1, <1>2 DEF DeliveredInv, SignalsNumbers, HandlerStates
<1>8. AnchorInv' BY <1>1, <1>2 DEF AnchorInv, First
<1>9. WideInv' BY <1>1 DEF WideInv, windowVars, Joined
<1> QED BY <1>4, <1>6, <1>7, <1>8, <1>9 DEF SignalsInv

(* A delivery: the window and the main thread are left alone.              *)
LEMMA HandlerMoves ==
  ASSUME SignalsInv, NEW d \in Deliveries, NEW step, NEW time \in 0 .. LastInstant,
         step \in {"load", "open", "ask", "decide", "exit", "done"}, time <= clock,
         handler' = [handler EXCEPT ![d] = [step |-> step, now |-> time]],
         UNCHANGED <<clock, windowVars, mainStep, capture>>,
         shutdown' \in {shutdown, TRUE}, exited' \in {exited, "forced"},
         stage' \in {"idle", "grace", "force"}, anchor' \in 0 .. LastInstant,
         AnchorInv'
  PROVE  SignalsInv'
<1>1. SignalsNumbers /\ SignalsFlags /\ DeliveredInv /\ AnchorInv /\ WideInv BY DEF SignalsInv
<1>2. [step |-> step, now |-> time] \in HandlerStates BY DEF HandlerStates
<1>3. handler' \in [Deliveries -> HandlerStates] BY <1>1, <1>2 DEF SignalsNumbers
<1>4. SignalsNumbers' BY <1>1, <1>3 DEF SignalsNumbers, windowVars
<1>5. SignalsFlags' BY <1>1 DEF SignalsFlags, windowVars
<1>6. DeliveredInv'
  <2>1. SUFFICES ASSUME NEW e \in Deliveries PROVE handler'[e].now <= clock
    BY DEF DeliveredInv
  <2> QED BY <1>1 DEF DeliveredInv, SignalsNumbers
<1>7. WideInv' BY <1>1 DEF WideInv, windowVars
<1> QED BY <1>4, <1>5, <1>6, <1>7 DEF SignalsInv

LEMMA HandlerSteps ==
  ASSUME SignalsInv, NEW d \in Deliveries, Deliver(d) \/ Handle(d)
  PROVE  SignalsInv'
<1>1. SignalsNumbers /\ SignalsFlags /\ DeliveredInv /\ AnchorInv /\ WideInv BY DEF SignalsInv
<1>2. /\ handler \in [Deliveries -> HandlerStates] /\ clock \in 0 .. LastInstant
      /\ handler[d].now \in 0 .. LastInstant /\ handler[d].now <= clock /\ clock <= clock
      /\ anchor \in 0 .. LastInstant /\ stage \in {"idle", "grace", "force"}
  <2>1. /\ handler \in [Deliveries -> HandlerStates] /\ clock \in 0 .. LastInstant
        /\ anchor \in 0 .. LastInstant /\ stage \in {"idle", "grace", "force"}
    BY <1>1, Zenon DEF SignalsNumbers
  <2>2. handler[d].now \in 0 .. LastInstant BY <2>1 DEF HandlerStates
  <2>3. clock <= clock BY <2>1, InstantAssumption
  <2> QED BY <1>1, <2>1, <2>2, <2>3 DEF DeliveredInv
<1>3. ASSUME NEW step, handler' = [handler EXCEPT ![d].step = step]
      PROVE  handler' = [handler EXCEPT ![d] = [step |-> step, now |-> handler[d].now]]
  <2>1. handler[d] \in HandlerStates BY <1>2
  <2>2. [handler[d] EXCEPT !.step = step] = [step |-> step, now |-> handler[d].now]
    BY <2>1 DEF HandlerStates
  <2>3. handler' = [handler EXCEPT ![d] = [handler[d] EXCEPT !.step = step]] BY <1>3
  <2> QED BY <2>2, <2>3, Zenon
<1>4. ASSUME NEW step, NEW time,
             handler' = [handler EXCEPT ![d] = [step |-> step, now |-> time]],
             \/ step \in {"ask", "done"} /\ time = handler[d].now
             \/ handler[d].step \notin {"ask", "done"},
             UNCHANGED <<stage, anchor>>
      PROVE  AnchorInv'
  <2>1. SUFFICES ASSUME stage = "grace" PROVE First' # {}
    BY <1>4 DEF AnchorInv
  <2>2. PICK e \in Deliveries : handler[e].now = anchor /\ handler[e].step \in {"ask", "done"}
    BY <1>1, <2>1 DEF AnchorInv, First
  <2>3. handler'[e].now = anchor' /\ handler'[e].step \in {"ask", "done"}
    BY <1>2, <1>4, <2>2
  <2> QED BY <2>3 DEF First
<1>5. CASE Deliver(d)
  <2>1. /\ handler' = [handler EXCEPT ![d] = [step |-> "load", now |-> clock]]
        /\ handler[d].step = "pending"
        /\ UNCHANGED <<clock, stage, anchor, shutdown, windowVars, mainStep, capture, exited>>
    BY <1>5 DEF Deliver, At
  <2>2. AnchorInv' BY <1>4, <2>1
  <2> QED BY <1>2, <2>1, <2>2, HandlerMoves
<1>6. CASE LoadState(d) \/ Swallow(d)
  <2>1. PICK step \in {"open", "decide", "done"} : Goto(d, step)
    BY <1>6 DEF LoadState, Swallow
  <2>2. /\ UNCHANGED <<clock, stage, anchor, shutdown, windowVars, mainStep, capture, exited>>
        /\ handler[d].step \in {"load", "decide"}
    BY <1>6 DEF LoadState, Swallow, At
  <2>3. handler' = [handler EXCEPT ![d] = [step |-> step, now |-> handler[d].now]]
    BY <1>3, <2>1 DEF Goto
  <2>4. AnchorInv' BY <1>4, <2>2, <2>3
  <2> QED BY <1>2, <2>2, <2>3, <2>4, HandlerMoves
<1>7. CASE OpenWindow(d)
  <2>1. /\ UNCHANGED <<clock, shutdown, windowVars, mainStep, capture, exited>>
        /\ handler[d].step = "open"
    BY <1>7 DEF OpenWindow, At
  <2>2. CASE Goto(d, "load") /\ UNCHANGED <<stage, anchor>>
    <3>1. handler' = [handler EXCEPT ![d] = [step |-> "load", now |-> handler[d].now]]
      BY <1>3, <2>2 DEF Goto
    <3>2. AnchorInv' BY <1>4, <2>1, <2>2, <3>1
    <3> QED BY <1>2, <2>1, <2>2, <3>1, <3>2, HandlerMoves
  <2>3. CASE stage' = "grace" /\ anchor' = handler[d].now /\ Goto(d, "ask")
    <3>1. handler' = [handler EXCEPT ![d] = [step |-> "ask", now |-> handler[d].now]]
      BY <1>3, <2>3 DEF Goto
    <3>2. handler'[d].step = "ask" /\ handler'[d].now = anchor' BY <1>2, <2>3, <3>1
    <3>3. AnchorInv' BY <3>2 DEF AnchorInv, First
    <3> QED BY <1>2, <2>1, <2>3, <3>1, <3>3, HandlerMoves
  <2> QED BY <1>7, <2>2, <2>3 DEF OpenWindow, AskNext
<1>8. CASE AskShutdown(d)
  <2>1. /\ UNCHANGED <<clock, stage, anchor, windowVars, mainStep, capture, exited>>
        /\ shutdown' = TRUE /\ Goto(d, "done")
    BY <1>8 DEF AskShutdown
  <2>2. handler' = [handler EXCEPT ![d] = [step |-> "done", now |-> handler[d].now]]
    BY <1>3, <2>1 DEF Goto
  <2>3. AnchorInv' BY <1>4, <2>1, <2>2
  <2>4. shutdown' \in {shutdown, TRUE} BY <2>1, Zenon
  <2> QED BY <1>2, <2>1, <2>2, <2>3, <2>4, HandlerMoves
<1>9. CASE ForceExit(d)
  <2>1. /\ UNCHANGED <<clock, shutdown, windowVars, mainStep, capture, exited>>
        /\ stage' = "force" /\ anchor' = 0 /\ Goto(d, "exit")
    BY <1>9 DEF ForceExit
  <2>2. handler' = [handler EXCEPT ![d] = [step |-> "exit", now |-> handler[d].now]]
    BY <1>3, <2>1 DEF Goto
  <2>3. AnchorInv' BY <2>1 DEF AnchorInv
  <2>4. 0 \in 0 .. LastInstant BY InstantAssumption
  <2> QED BY <1>2, <2>1, <2>2, <2>3, <2>4, HandlerMoves
<1>10. CASE Exit(d)
  <2>1. exited' = "forced" /\ UNCHANGED <<clock, handlerVars, windowVars, mainStep, capture>>
    BY <1>10 DEF Exit
  <2> QED BY <1>1, <2>1 DEF handlerVars, windowVars, SignalsInv, SignalsNumbers, SignalsFlags,
      DeliveredInv, AnchorInv, First, WideInv
<1> QED BY <1>5, <1>6, <1>7, <1>8, <1>9, <1>10 DEF Handle

LEMMA SignalsInductive == SignalsInv /\ [SignalsNext]_signalsVars => SignalsInv'
<1> SUFFICES ASSUME SignalsInv, [SignalsNext]_signalsVars PROVE SignalsInv'
  OBVIOUS
<1>1. CASE UNCHANGED signalsVars
  BY <1>1 DEF signalsVars, handlerVars, windowVars, SignalsInv, SignalsNumbers, SignalsFlags,
     DeliveredInv, AnchorInv, First, WideInv
<1>2. CASE SignalsNext
  BY <1>2, MainStepKeeps, HandlerSteps DEF SignalsNext
<1> QED BY <1>1, <1>2

LEMMA SignalsTypesFollow == SignalsInv => SignalsTypeOK
  BY Zenon DEF SignalsInv, SignalsNumbers, SignalsFlags, HandlerStates, SignalsTypeOK

(* A delivery that gives up has another one behind it, at least the window *)
(* of the moment in the past.                                              *)
LEMMA EscalatesDeliberately ==
  ASSUME SignalsInv, NEW d \in Deliveries, stage = "grace", ForceExit(d)
  PROVE  First \ {d} # {} /\ clock - anchor >= Required
<1>1. SignalsNumbers /\ DeliveredInv /\ AnchorInv /\ WideInv BY DEF SignalsInv
<1>2. handler[d].step = "decide" /\ Elapsed(handler[d].now) >= graceWindow
  BY DEF ForceExit, At, GivesUp
<1>3. First \ {d} # {}
  <2>1. PICK e \in First : TRUE BY <1>1 DEF AnchorInv
  <2>2. e # d BY <1>2, <2>1 DEF First
  <2> QED BY <2>1, <2>2
<1>4. clock - anchor >= Required
  <2>1. /\ clock \in Nat /\ anchor \in Nat /\ handler[d].now \in Nat /\ handler[d].now <= clock
        /\ graceWindow \in {DefaultWindow, RecordingWindow}
    BY <1>1, InstantAssumption DEF SignalsNumbers, HandlerStates, DeliveredInv
  <2>2. Required \in Nat /\ Required <= graceWindow /\ graceWindow \in Nat \ {0}
    BY <1>1, <2>1, WindowAssumption DEF Required, WideInv
  <2> QED BY <1>2, <2>1, <2>2 DEF Elapsed
<1> QED BY <1>3, <1>4

-----------------------------------------------------------------------------
(* The wakeup of the control loop.                                         *)
WakeupFlags ==
    /\ {unserved, notifying, notified, quantumRaised, overtaken} \subseteq BOOLEAN
WakeupSteps ==
    /\ loop \in {"serve", "quantum", "told", "wait", "asleep"}
    /\ callback \in {"idle", "raise"}
WakeupFrames ==
    {frames, lastFrames, quantumSeen, quantumTold} \subseteq Quanta \cup {0}

(* Between its store and its notification a listener is notifying; the     *)
(* Boolean stays up from there to the serving of what was stored.          *)
PostedInv == unserved => (notified \/ notifying \/ loop = "serve")

(* What the loop is about to tell, or has told, is the quantum in force,   *)
(* unless the callback is about to raise the flag, or raised it meanwhile. *)
QuantumInv ==
    \/ overtaken \/ callback = "raise"
    \/ loop # "told" /\ (quantumRaised \/ quantumTold = frames)
    \/ loop = "told" /\ quantumSeen = frames

WakeupInv ==
    WakeupFlags /\ WakeupSteps /\ WakeupFrames /\ PostedInv /\ QuantumInv

LEMMA WakeupInitHolds == WakeupInit => WakeupInv
<1> SUFFICES ASSUME WakeupInit PROVE WakeupInv
  OBVIOUS
<1>1. WakeupFlags BY Zenon DEF WakeupInit, WakeupFlags
<1>2. WakeupSteps /\ WakeupFrames BY DEF WakeupInit, WakeupSteps, WakeupFrames
<1>3. PostedInv /\ QuantumInv BY DEF WakeupInit, PostedInv, QuantumInv
<1> QED BY <1>1, <1>2, <1>3 DEF WakeupInv

LEMMA WakeupInductive == WakeupInv /\ [WakeupNext]_wakeupVars => WakeupInv'
<1> SUFFICES ASSUME WakeupInv, [WakeupNext]_wakeupVars PROVE WakeupInv'
  OBVIOUS
<1>1. WakeupFlags /\ WakeupSteps /\ WakeupFrames /\ PostedInv /\ QuantumInv BY DEF WakeupInv
<1> USE DEF WakeupNext, LoopStep, Post, Notify, SeeQuantum, RaiseQuantum, Serve, FindQuantum,
            TellQuantum, WaitTimeout, WakeUp, AlreadyNotified, wakeupVars, postVars, quantumVars
<1>2. WakeupFlags'
  <2>1. /\ unserved' \in {unserved, TRUE, FALSE} /\ notifying' \in {notifying, TRUE, FALSE}
        /\ notified' \in {notified, TRUE, FALSE}
        /\ quantumRaised' \in {quantumRaised, TRUE, FALSE}
    BY Zenon
  <2>2. overtaken' \in {overtaken, overtaken \/ loop = "told"} BY Zenon
  <2> QED BY <1>1, <2>1, <2>2 DEF WakeupFlags
<1>3. WakeupSteps' BY <1>1 DEF WakeupSteps
<1>4. WakeupFrames' BY <1>1 DEF WakeupFrames
<1>5. PostedInv' BY <1>1 DEF WakeupFlags, WakeupSteps, PostedInv
<1>6. QuantumInv' BY <1>1 DEF WakeupFlags, WakeupSteps, QuantumInv
<1> QED BY <1>2, <1>3, <1>4, <1>5, <1>6 DEF WakeupInv

LEMMA WakeupInvIsEnough == WakeupInv => WakeupTypeOK /\ NoLostWakeup /\ QuantumIsTold
<1> SUFFICES ASSUME WakeupInv PROVE WakeupTypeOK /\ NoLostWakeup /\ QuantumIsTold
  OBVIOUS
<1>1. WakeupTypeOK
  BY Zenon DEF WakeupInv, WakeupFlags, WakeupSteps, WakeupFrames, WakeupTypeOK
<1>2. NoLostWakeup BY DEF WakeupInv, PostedInv, NoLostWakeup
<1>3. QuantumIsTold BY DEF WakeupInv, WakeupFlags, WakeupSteps, QuantumInv, QuantumIsTold
<1> QED BY <1>1, <1>2, <1>3

-----------------------------------------------------------------------------
(* The probe for the default sink.                                         *)
ProbeSteps == {"spawn", "wait", "absorb", "drain", "sleep", "reap", "parse", "done"}
ProbeStates ==
    /\ child \in {"unborn", "running", "asleep", "exited", "reaped"}
    /\ holders \subseteq {"child", "grandchild"}
    /\ probe \in [step : ProbeSteps, until : Nat]
    /\ sink \in {"unknown", "none", "name"}
ProbeFlags == killed \in BOOLEAN /\ truncated \in BOOLEAN /\ eof \in BOOLEAN
ProbeCounts ==
    /\ pipe \in 0 .. PipeBytes /\ written \in 0 .. MaxWritten /\ keptBytes \in 0 .. Ceiling
    /\ elapsed \in Nat

Graces == IF ReapGrace < DrainGrace THEN DrainGrace ELSE ReapGrace

(* Every wait is of a step whose end is known when it begins.              *)
TimeInv ==
    /\ elapsed <= ProbeTimeout + Slice + Graces
    /\ probe.step \in {"absorb", "drain", "sleep", "reap"} => elapsed <= probe.until
    /\ probe.step = "spawn" => elapsed = 0
    /\ probe.step = "absorb" => probe.until <= ProbeTimeout
    /\ probe.step = "sleep" => probe.until <= ProbeTimeout + Slice
    /\ probe.step \in {"drain", "reap"} => probe.until <= ProbeTimeout + Slice + Graces
    /\ probe.step = "wait" => elapsed <= ProbeTimeout + Slice

(* A byte that was written is in the pipe, captured or known to be lost;   *)
(* the end is seen only where nobody holds the pipe and it is empty.       *)
BytesInv ==
    /\ probe.step = "spawn" => ~eof
    /\ truncated \/ keptBytes + pipe = written
    /\ (eof /\ ~truncated) => (pipe = 0 /\ holders = {})
    /\ (probe.step = "parse" /\ ~truncated) => eof

ProbeInv == ProbeStates /\ ProbeFlags /\ ProbeCounts /\ TimeInv /\ BytesInv

LEMMA ProbeInitHolds == ProbeInit => ProbeInv
<1> SUFFICES ASSUME ProbeInit PROVE ProbeInv
  OBVIOUS
<1> USE ProbeAssumption DEF ProbeInit
<1>1. ProbeStates BY DEF ProbeStates, ProbeSteps
<1>2. ProbeFlags BY Zenon DEF ProbeFlags
<1>3. ProbeCounts BY DEF ProbeCounts
<1>4. TimeInv
  <2>1. probe.step = "spawn" /\ elapsed = 0 OBVIOUS
  <2>2. Graces \in Nat BY DEF Graces
  <2> QED BY <2>1, <2>2 DEF TimeInv, Slice
<1>5. BytesInv BY DEF BytesInv
<1> QED BY <1>1, <1>2, <1>3, <1>4, <1>5 DEF ProbeInv

LEMMA GracesBound ==
  /\ ProbeTimeout \in Nat /\ DrainGrace \in Nat /\ ReapGrace \in Nat /\ Graces \in Nat
  /\ DrainGrace <= Graces /\ ReapGrace <= Graces
  BY ProbeAssumption DEF Graces

(* A step that begins or ends a wait, and leaves the clock alone.          *)
LEMMA AwaitStep ==
  ASSUME ProbeInv, elapsed' = elapsed, NEW step \in ProbeSteps, NEW until \in Nat,
         Await(step, until),
         step \notin {"spawn", "absorb", "drain", "sleep", "reap", "wait"} \/
         /\ step # "spawn"
         /\ step = "wait" => elapsed <= ProbeTimeout + Slice
         /\ step # "wait" => elapsed <= until
         /\ step = "absorb" => until <= ProbeTimeout
         /\ step = "sleep" => until <= ProbeTimeout + Slice
         /\ step \in {"drain", "reap"} => until <= ProbeTimeout + Slice + Graces
  PROVE  TimeInv' /\ probe' \in [step : ProbeSteps, until : Nat] /\ probe'.step = step
<1>1. probe'.step = step /\ probe'.until = until /\ probe' \in [step : ProbeSteps, until : Nat]
  BY DEF Await
<1>2. elapsed' <= ProbeTimeout + Slice + Graces BY DEF ProbeInv, TimeInv
<1> QED BY <1>1, <1>2 DEF TimeInv

LEMMA ConcludeStep ==
  ASSUME ProbeInv, elapsed' = elapsed, NEW answer, Conclude(answer)
  PROVE  TimeInv' /\ probe' \in [step : ProbeSteps, until : Nat] /\ probe'.step = "done"
         /\ sink' = answer
<1>1. probe'.step = "done" /\ probe' \in [step : ProbeSteps, until : Nat] /\ sink' = answer
  BY DEF Conclude, ProbeInv, ProbeStates, ProbeSteps
<1>2. elapsed' <= ProbeTimeout + Slice + Graces BY DEF ProbeInv, TimeInv
<1> QED BY <1>1, <1>2 DEF TimeInv

-----------------------------------------------------------------------------
LEMMA ChildStepKeeps == ProbeInv /\ ChildStep => ProbeInv'
<1> SUFFICES ASSUME ProbeInv, ChildStep PROVE ProbeInv'
  OBVIOUS
<1>1. ProbeStates /\ ProbeFlags /\ ProbeCounts /\ TimeInv /\ BytesInv BY DEF ProbeInv
<1>2. UNCHANGED <<elapsed, killed, keptBytes, truncated, eof, probe, sink>>
  BY DEF ChildStep, WriteByte, ChildExits, ChildSleeps, ChildWakes, GrandchildCloses,
     captureVars
<1>3. ProbeFlags' /\ TimeInv'
  BY <1>1, <1>2 DEF ProbeFlags, TimeInv
<1>4. ASSUME NEW p \in {"child", "grandchild"}, WriteByte(p) PROVE ProbeInv'
  <2>1. /\ p \in holders /\ written < MaxWritten /\ pipe < PipeBytes
        /\ written' = written + 1 /\ pipe' = pipe + 1 /\ UNCHANGED <<child, holders>>
    BY <1>4 DEF WriteByte
  <2>2. ProbeStates' BY <1>1, <1>2, <2>1 DEF ProbeStates
  <2>3. ProbeCounts' BY <1>1, <1>2, <2>1, ProbeAssumption DEF ProbeCounts
  <2>4. BytesInv' BY <1>1, <1>2, <2>1 DEF BytesInv, ProbeCounts
  <2> QED BY <1>3, <2>2, <2>3, <2>4 DEF ProbeInv
<1>5. CASE ChildExits \/ ChildSleeps \/ ChildWakes \/ GrandchildCloses
  <2>1. /\ holders' \subseteq holders /\ UNCHANGED <<written, pipe>>
        /\ child' \in {child, "exited", "asleep", "running"}
    BY <1>5 DEF ChildExits, ChildSleeps, ChildWakes, GrandchildCloses
  <2>2. ProbeStates' BY <1>1, <1>2, <2>1 DEF ProbeStates
  <2>3. ProbeCounts' BY <1>1, <1>2, <2>1 DEF ProbeCounts
  <2>4. BytesInv' BY <1>1, <1>2, <2>1 DEF BytesInv
  <2> QED BY <1>3, <2>2, <2>3, <2>4 DEF ProbeInv
<1> QED BY <1>4, <1>5 DEF ChildStep

LEMMA PassTimeKeeps == ProbeInv /\ PassTime => ProbeInv'
<1> SUFFICES ASSUME ProbeInv, PassTime PROVE ProbeInv'
  OBVIOUS
<1>1. ProbeStates /\ ProbeFlags /\ ProbeCounts /\ TimeInv /\ BytesInv BY DEF ProbeInv
<1>2. /\ probe.step \in {"absorb", "drain", "sleep", "reap"} /\ elapsed < probe.until
      /\ elapsed' = elapsed + 1
      /\ UNCHANGED <<child, holders, written, killed, pipe, keptBytes, truncated, eof, probe, sink>>
  BY DEF PassTime, childVars, captureVars
<1>3. ProbeStates' /\ ProbeFlags' /\ BytesInv'
  BY <1>1, <1>2 DEF ProbeStates, ProbeFlags, BytesInv
<1>4. ProbeCounts' BY <1>1, <1>2 DEF ProbeCounts
<1>5. TimeInv'
  <2>1. elapsed \in Nat /\ probe.until \in Nat BY <1>1 DEF ProbeCounts, ProbeStates
  <2> QED BY <1>1, <1>2, <2>1, GracesBound DEF TimeInv, Slice
<1> QED BY <1>3, <1>4, <1>5 DEF ProbeInv

(* What the probe does without reading.                                    *)
LEMMA WaitingKeeps ==
  ASSUME ProbeInv,
         Spawn \/ ChildIsReaped \/ KillAtDeadline \/ ListenOn \/ QueryFails \/ Reap
           \/ SleepEnds \/ ParseSinkName
  PROVE  ProbeInv'
<1>1. ProbeStates /\ ProbeFlags /\ ProbeCounts /\ TimeInv /\ BytesInv BY DEF ProbeInv
<1>2. UNCHANGED <<elapsed, written, pipe, keptBytes, truncated, eof>>
  BY DEF Spawn, ChildIsReaped, KillAtDeadline, ListenOn, QueryFails, Reap, SleepEnds,
     ParseSinkName, childVars, captureVars
<1>3. killed' \in {killed, TRUE}
  BY Zenon DEF Spawn, ChildIsReaped, KillAtDeadline, ListenOn, QueryFails, Reap, SleepEnds,
     ParseSinkName
<1>4. ProbeFlags' BY <1>1, <1>2, <1>3 DEF ProbeFlags
<1>5. ProbeCounts' BY <1>1, <1>2 DEF ProbeCounts
<1>6. ASSUME child' \in {child, "running", "reaped"},
             \/ holders' = holders
             \/ probe.step = "spawn" /\ holders' \subseteq {"child", "grandchild"},
             probe' \in [step : ProbeSteps, until : Nat], probe'.step # "spawn",
             sink' \in {"unknown", "none", "name"}, TimeInv',
             probe'.step = "parse" => eof
      PROVE  ProbeInv'
  <2>1. ProbeStates' BY <1>1, <1>6 DEF ProbeStates
  <2>2. BytesInv' BY <1>1, <1>2, <1>6 DEF BytesInv
  <2> QED BY <1>4, <1>5, <1>6, <2>1, <2>2 DEF ProbeInv
<1>7. sink \in {"unknown", "none", "name"} /\ elapsed \in Nat /\ elapsed' = elapsed
  BY <1>1, <1>2 DEF ProbeStates, ProbeCounts
<1>8. ASSUME NEW step \in ProbeSteps \ {"spawn", "parse"}, NEW until \in Nat, Await(step, until),
             sink' = sink, child' \in {child, "running", "reaped"},
             \/ holders' = holders
             \/ probe.step = "spawn" /\ holders' \subseteq {"child", "grandchild"},
             step = "wait" => elapsed <= ProbeTimeout + Slice,
             step # "wait" => elapsed <= until,
             step = "absorb" => until <= ProbeTimeout,
             step = "sleep" => until <= ProbeTimeout + Slice,
             step \in {"drain", "reap"} => until <= ProbeTimeout + Slice + Graces
      PROVE  ProbeInv'
  <2>1. TimeInv' /\ probe' \in [step : ProbeSteps, until : Nat] /\ probe'.step = step
    BY <1>7, <1>8, AwaitStep
  <2> QED BY <1>6, <1>7, <1>8, <2>1
<1>9. ASSUME Conclude("none") \/ Conclude("name"), child' \in {child, "reaped"},
             holders' = holders
      PROVE  ProbeInv'
  <2>1. PICK answer \in {"none", "name"} : Conclude(answer) BY <1>9
  <2>2. TimeInv' /\ probe' \in [step : ProbeSteps, until : Nat] /\ probe'.step = "done"
        /\ sink' = answer
    BY <1>7, <2>1, ConcludeStep
  <2> QED BY <1>6, <1>9, <2>1, <2>2
<1>10. CASE Spawn
  <2>1. CASE Conclude("none") /\ UNCHANGED <<child, holders>>
    BY <1>9, <2>1
  <2>2. CASE /\ Await("wait", 0) /\ child' = "running" /\ UNCHANGED sink
             /\ holders' \in {{"child"}, {"child", "grandchild"}}
    <3>1. elapsed <= ProbeTimeout + Slice
      BY <1>1, <1>10, GracesBound DEF Spawn, TimeInv, Slice
    <3>2. probe.step = "spawn" /\ holders' \subseteq {"child", "grandchild"}
      BY <1>10, <2>2 DEF Spawn
    <3> QED BY <1>8, <2>2, <3>1, <3>2 DEF ProbeSteps
  <2> QED BY <1>10, <2>1, <2>2 DEF Spawn
<1>11. CASE ChildIsReaped
  <2>1. /\ child' = "reaped" /\ holders' = holders /\ sink' = sink
        /\ IF eof THEN Await("parse", elapsed) ELSE Await("drain", elapsed + DrainGrace)
        /\ probe.step = "wait"
    BY <1>11 DEF ChildIsReaped
  <2>2. CASE eof
    <3>1. Await("parse", elapsed) /\ "parse" \in ProbeSteps BY <2>1, <2>2 DEF ProbeSteps
    <3>2. TimeInv' /\ probe' \in [step : ProbeSteps, until : Nat] /\ probe'.step = "parse"
      BY <1>7, <3>1, AwaitStep
    <3> QED BY <1>6, <1>7, <2>1, <2>2, <3>2
  <2>3. CASE ~eof
    <3>1. Await("drain", elapsed + DrainGrace) BY <2>1, <2>3
    <3>2. /\ elapsed + DrainGrace \in Nat /\ elapsed <= elapsed + DrainGrace
          /\ elapsed + DrainGrace <= ProbeTimeout + Slice + Graces
      BY <1>1, <1>7, <2>1, GracesBound DEF TimeInv, Slice
    <3> QED BY <1>8, <2>1, <3>1, <3>2 DEF ProbeSteps
  <2> QED BY <2>2, <2>3
<1>12. CASE KillAtDeadline
  <2>1. /\ child' = child /\ holders' = holders /\ sink' = sink /\ probe.step = "wait"
        /\ Await("reap", elapsed + ReapGrace)
    BY <1>12 DEF KillAtDeadline, childVars
  <2>2. /\ elapsed + ReapGrace \in Nat /\ elapsed <= elapsed + ReapGrace
        /\ elapsed + ReapGrace <= ProbeTimeout + Slice + Graces
    BY <1>1, <1>7, <2>1, GracesBound DEF TimeInv, Slice
  <2> QED BY <1>8, <2>1, <2>2 DEF ProbeSteps
<1>13. CASE ListenOn
  <2> DEFINE end == Smaller(ProbeTimeout, elapsed + Slice)
  <2>1. /\ child' = child /\ holders' = holders /\ sink' = sink /\ elapsed < ProbeTimeout
        /\ Await("absorb", end)
    BY <1>13 DEF ListenOn, childVars
  <2>2. end \in Nat /\ elapsed <= end /\ end <= ProbeTimeout
    BY <1>7, <2>1, GracesBound DEF Smaller, Slice
  <2> HIDE DEF end
  <2> QED BY <1>8, <2>1, <2>2 DEF ProbeSteps
<1>14. CASE QueryFails \/ Reap \/ ParseSinkName
  BY <1>9, <1>14 DEF QueryFails, Reap, ParseSinkName, childVars
<1>15. CASE SleepEnds
  <2>1. /\ child' = child /\ holders' = holders /\ sink' = sink /\ probe.step = "sleep"
        /\ Await("wait", elapsed)
    BY <1>15 DEF SleepEnds, childVars
  <2>2. elapsed <= ProbeTimeout + Slice
    <3>1. elapsed <= probe.until /\ probe.until <= ProbeTimeout + Slice
      BY <1>1, <2>1 DEF TimeInv
    <3>2. probe.until \in Nat BY <1>1 DEF ProbeStates
    <3> QED BY <1>7, <3>1, <3>2, GracesBound DEF Slice
  <2> QED BY <1>7, <1>8, <2>1, <2>2 DEF ProbeSteps
<1> QED BY <1>10, <1>11, <1>12, <1>13, <1>14, <1>15

(* StdoutCapture::absorb                                                   *)
LEMMA AbsorbingKeeps ==
  ASSUME ProbeInv, ReadChunk \/ SeeEnd \/ ReadFails
  PROVE  ProbeInv'
<1>1. ProbeStates /\ ProbeFlags /\ ProbeCounts /\ TimeInv /\ BytesInv BY DEF ProbeInv
<1>2. UNCHANGED <<elapsed, child, holders, written, killed, probe, sink>>
  BY DEF ReadChunk, SeeEnd, ReadFails, childVars
<1>3. probe.step \in {"absorb", "drain"} /\ ~eof
  BY DEF ReadChunk, SeeEnd, ReadFails, Absorbing
<1>4. ProbeStates' /\ TimeInv'
  BY <1>1, <1>2 DEF ProbeStates, TimeInv
<1>5. CASE ReadChunk
  <2> DEFINE n == Smaller(pipe, ScratchBytes)
  <2>1. /\ pipe' = pipe - n /\ keptBytes' = keptBytes + Taken(n)
        /\ truncated' = (truncated \/ Taken(n) < n) /\ eof' = eof
    BY <1>5 DEF ReadChunk
  <2>2. /\ pipe \in 0 .. PipeBytes /\ keptBytes \in 0 .. Ceiling /\ written \in 0 .. MaxWritten
        /\ ScratchBytes \in Nat /\ PipeBytes \in Nat /\ Ceiling \in Nat /\ elapsed \in Nat
    BY <1>1, ProbeAssumption DEF ProbeCounts
  <2>3. n \in Nat /\ n <= pipe BY <2>2 DEF Smaller
  <2> HIDE DEF n
  <2>4. Taken(n) \in Nat /\ Taken(n) <= n /\ keptBytes + Taken(n) <= Ceiling
    BY <2>2, <2>3 DEF Taken, Smaller
  <2>5. pipe' \in 0 .. PipeBytes /\ keptBytes' \in 0 .. Ceiling
    BY <2>1, <2>2, <2>3, <2>4
  <2>6. ProbeCounts' BY <1>1, <1>2, <2>5 DEF ProbeCounts
  <2>7. ProbeFlags'
    <3>1. (truncated \/ Taken(n) < n) \in BOOLEAN BY Zenon
    <3> QED BY <1>1, <1>2, <2>1, <3>1 DEF ProbeFlags
  <2>8. BytesInv'
    <3>1. truncated' \/ (~truncated /\ Taken(n) = n)
      <4>1. truncated' \/ (~truncated /\ ~(Taken(n) < n)) BY <2>1, Zenon
      <4>2. ~(Taken(n) < n) => Taken(n) = n BY <2>3, <2>4
      <4> QED BY <4>1, <4>2
    <3>2. truncated' \/ keptBytes' + pipe' = written'
      BY <1>1, <1>2, <2>1, <2>2, <2>3, <3>1 DEF BytesInv
    <3> QED BY <1>2, <1>3, <2>1, <3>2 DEF BytesInv
  <2> QED BY <1>4, <2>6, <2>7, <2>8 DEF ProbeInv
<1>6. CASE SeeEnd \/ ReadFails
  <2>1. /\ UNCHANGED <<pipe, keptBytes>> /\ eof' = TRUE /\ truncated' \in {truncated, TRUE}
        /\ truncated' = TRUE \/ (pipe = 0 /\ holders = {} /\ truncated' = truncated)
    BY <1>6, Zenon DEF SeeEnd, ReadFails
  <2>2. ProbeCounts' BY <1>1, <1>2, <2>1 DEF ProbeCounts
  <2>3. ProbeFlags' BY <1>1, <1>2, <2>1, Zenon DEF ProbeFlags
  <2>4. BytesInv' BY <1>1, <1>2, <1>3, <2>1 DEF BytesInv
  <2> QED BY <1>4, <2>2, <2>3, <2>4 DEF ProbeInv
<1> QED BY <1>5, <1>6

LEMMA AbsorbEndKeeps ==
  ASSUME ProbeInv, AbsorbUntil \/ PollInterrupted
  PROVE  ProbeInv'
<1>1. ProbeStates /\ ProbeFlags /\ ProbeCounts /\ TimeInv /\ BytesInv BY DEF ProbeInv
<1>2. AbsorbEnds /\ probe.step \in {"absorb", "drain"}
  BY DEF AbsorbUntil, PollInterrupted, Absorbing
<1>3. /\ UNCHANGED <<elapsed, child, holders, written, killed, pipe, keptBytes, eof, sink>>
      /\ truncated' = (truncated \/ (probe.step = "drain" /\ ~eof))
  BY <1>2 DEF AbsorbEnds, childVars, CutShort
<1>4. ProbeCounts' BY <1>1, <1>3 DEF ProbeCounts
<1>5. ProbeFlags'
  <2>1. (truncated \/ (probe.step = "drain" /\ ~eof)) \in BOOLEAN BY Zenon
  <2> QED BY <1>1, <1>3, <2>1 DEF ProbeFlags
<1>6. elapsed \in Nat /\ elapsed' = elapsed BY <1>1, <1>3 DEF ProbeCounts
<1>7. ASSUME TimeInv', probe' \in [step : ProbeSteps, until : Nat], probe'.step # "spawn",
             probe'.step = "parse" => probe.step = "drain"
      PROVE  ProbeInv'
  <2>1. ProbeStates' BY <1>1, <1>3, <1>7 DEF ProbeStates
  <2>2. BytesInv' BY <1>1, <1>3, <1>7 DEF BytesInv
  <2> QED BY <1>4, <1>5, <1>7, <2>1, <2>2 DEF ProbeInv
<1>8. CASE probe.step = "drain"
  <2>1. Await("parse", elapsed) /\ "parse" \in ProbeSteps
    BY <1>2, <1>8 DEF AbsorbEnds, ProbeSteps
  <2>2. TimeInv' /\ probe' \in [step : ProbeSteps, until : Nat] /\ probe'.step = "parse"
    BY <1>6, <2>1, AwaitStep
  <2> QED BY <1>7, <1>8, <2>2
<1>9. CASE probe.step = "absorb"
  <2>1. /\ elapsed <= ProbeTimeout + Slice /\ elapsed + Slice <= ProbeTimeout + Slice
        /\ elapsed + Slice \in Nat /\ elapsed <= elapsed + Slice
    <3>1. elapsed <= probe.until /\ probe.until <= ProbeTimeout BY <1>1, <1>9 DEF TimeInv
    <3>2. probe.until \in Nat BY <1>1 DEF ProbeStates
    <3> QED BY <1>6, <3>1, <3>2, GracesBound DEF Slice
  <2>2. CASE eof
    <3>1. Await("sleep", elapsed + Slice) /\ "sleep" \in ProbeSteps
      BY <1>2, <1>9, <2>2 DEF AbsorbEnds, ProbeSteps
    <3>2. TimeInv' /\ probe' \in [step : ProbeSteps, until : Nat] /\ probe'.step = "sleep"
      BY <1>6, <2>1, <3>1, AwaitStep
    <3> QED BY <1>7, <3>2
  <2>3. CASE ~eof
    <3>1. Await("wait", elapsed) /\ "wait" \in ProbeSteps
      BY <1>2, <1>9, <2>3 DEF AbsorbEnds, ProbeSteps
    <3>2. TimeInv' /\ probe' \in [step : ProbeSteps, until : Nat] /\ probe'.step = "wait"
      BY <1>6, <2>1, <3>1, AwaitStep
    <3> QED BY <1>7, <3>2
  <2> QED BY <2>2, <2>3
<1> QED BY <1>2, <1>8, <1>9

LEMMA ProbeInductive == ProbeInv /\ [ProbeNext]_probeVars => ProbeInv'
<1> SUFFICES ASSUME ProbeInv, [ProbeNext]_probeVars PROVE ProbeInv'
  OBVIOUS
<1>1. CASE UNCHANGED probeVars
  BY <1>1 DEF probeVars, childVars, captureVars, ProbeInv, ProbeStates, ProbeFlags, ProbeCounts,
     TimeInv, BytesInv
<1>2. CASE ProbeNext
  BY <1>2, ChildStepKeeps, PassTimeKeeps, WaitingKeeps, AbsorbingKeeps, AbsorbEndKeeps
  DEF ProbeNext, ProbeStep
<1> QED BY <1>1, <1>2

LEMMA ProbeInvIsEnough == ProbeInv => ProbeTypeOK /\ ProbeIsBounded /\ NothingCutSilently
<1> SUFFICES ASSUME ProbeInv PROVE ProbeTypeOK /\ ProbeIsBounded /\ NothingCutSilently
  OBVIOUS
<1>1. ProbeStates /\ ProbeFlags /\ ProbeCounts /\ TimeInv /\ BytesInv BY DEF ProbeInv
<1>2. ProbeTypeOK
  <2>1. {killed, truncated, eof} \subseteq BOOLEAN BY <1>1, Zenon DEF ProbeFlags
  <2> QED BY <1>1, <2>1 DEF ProbeStates, ProbeSteps, ProbeCounts, ProbeTypeOK
<1>3. ProbeIsBounded BY <1>1 DEF TimeInv, Graces, ProbeIsBounded
<1>4. NothingCutSilently
  <2>1. keptBytes \in Nat /\ pipe \in Nat BY <1>1, ProbeAssumption DEF ProbeCounts
  <2> QED BY <1>1, <2>1 DEF BytesInv, NothingCutSilently
<1> QED BY <1>2, <1>3, <1>4

-----------------------------------------------------------------------------
(* What the protocols promise.                                             *)

(* TypeOK: begin_attempt never hands out more attempts than the policy's;  *)
(* EpisodeWithinBudget: between two replenishments the host never sleeps   *)
(* longer than total_backoff_budget, however long the schedule.            *)
THEOREM EpisodeBounded == Spec => [](TypeOK /\ EpisodeWithinBudget)
  BY CycleInitHolds, CycleInductive, CycleInvIsEnough, PTL DEF Spec

(* note_stable never swallows the announcement of a recovery.              *)
THEOREM RecoveryAnnounced == Spec => RecoveryIsAnnounced
<1>1. CycleInv /\ [Next]_vars => [attemptsMade' = 0 /\ attemptsMade # 0 => ~awaitingRestore]_vars
  BY AnnouncedFirst
<1> QED BY CycleInitHolds, CycleInductive, <1>1, PTL DEF Spec, RecoveryIsAnnounced

(* The cycle that run.rs drives keeps to the budget on which               *)
(* BackendLifecycle is built.                                              *)
THEOREM Refinement == Spec => ImplementsBudget
  BY BudgetInit, BudgetStep, CycleInitHolds, CycleInductive, PTL
  DEF Spec, ImplementsBudget, Budget!CycleSpec

(* with_backoff_timeout returns the longest schedule that fits the timeout *)
(* and backoff_for_attempt neither wraps nor shrinks, for every policy     *)
(* that fits the machine's width.                                          *)
THEOREM SchedulesBounded == PolicySpec => [](LargestSchedule /\ BackoffNeverWraps)
  BY PolicyInitHolds, PolicyInductive, PolicyInvIsEnough, PTL DEF PolicySpec

(* No interleaving of deliveries, arming and disarming lets a signal cut a *)
(* recording off that another did not precede by the wide window.          *)
THEOREM EscalationDeliberate == SignalsSpec => EscalationIsDeliberate
<1>1. SignalsInv /\ [SignalsNext]_signalsVars =>
          [\A d \in Deliveries :
               (stage = "grace" /\ ForceExit(d)) =>
                   /\ First \ {d} # {}
                   /\ clock - anchor >= Required]_signalsVars
  BY EscalatesDeliberately
<1> QED BY SignalsInitHolds, SignalsInductive, <1>1, PTL
        DEF SignalsSpec, EscalationIsDeliberate

(* The control loop never waits out its timeout over a notification, and a *)
(* new quantum is told unless the report before overlapped it.             *)
THEOREM NoWakeupLost == WakeupSpec => [](NoLostWakeup /\ QuantumIsTold)
  BY WakeupInitHolds, WakeupInductive, WakeupInvIsEnough, PTL DEF WakeupSpec

(* query_default_sink_name returns in time whatever its child does, and    *)
(* never parses output that was cut without knowing it.                    *)
THEOREM ProbeBounded == ProbeSpec => [](ProbeIsBounded /\ NothingCutSilently)
  BY ProbeInitHolds, ProbeInductive, ProbeInvIsEnough, PTL DEF ProbeSpec
=============================================================================
