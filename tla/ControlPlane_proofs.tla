---------------------------- MODULE ControlPlane_proofs ----------------------------
(***************************************************************************)
(* What TLAPS proves of ControlPlane: the reports, and that every promise  *)
(* its runs check holds of every behaviour of the composition.  A protocol *)
(* sees nothing of a turn that is not its own but stuttering, so the       *)
(* conjunction of the protocols' invariants is inductive.                  *)
(***************************************************************************)
EXTENDS ControlPlane, WaitProtocols_proofs, DataProtocols_proofs

-----------------------------------------------------------------------------
(* A session of the playback stream reads quanta that only grow: each of   *)
(* them renews the budget of polls, the last one ends the ramp.            *)
BringupStates == [last : 0 .. BringupQuantums, polls : 0 .. SuppressedPolls + 1,
                  drained : BOOLEAN, completed : BOOLEAN]
TelemetryTypes ==
    /\ quanta \in 0 .. BringupQuantums /\ host \in 0 .. MaxHosts
    /\ polling \in {"idle", "sum", "quanta", "drain"}
    /\ overloads \in Nat /\ xruns \in Nat /\ pendingDrops \in Nat
    /\ inHand \in Nat /\ (inHand # 0 => polling = "sum")
    /\ accounted \in Nat /\ masked \in Nat /\ maskedPolls \in Nat
    /\ bringup \in BringupStates
RampFlag == ramping \in BOOLEAN
RampInv ==
    /\ bringup.completed <=> bringup.last = BringupQuantums
    /\ bringup.completed \/ bringup.polls <= SuppressedPolls
    /\ maskedPolls # 0 =>
           /\ bringup.last <= quanta
           /\ maskedPolls <= SuppressedPolls * bringup.last
                              + (IF bringup.completed THEN 1 ELSE bringup.polls)

TelemetryInv == TelemetryTypes /\ RampFlag /\ NothingUncounted /\ RampInv

LEMMA FreshIsBringup ==
  /\ FreshBringup \in BringupStates
  /\ FreshBringup.last = 0 /\ FreshBringup.polls = 0 /\ ~FreshBringup.completed
<1>1. 0 \in 0 .. BringupQuantums /\ 0 \in 0 .. SuppressedPolls + 1
  BY TelemetryAssumption
<1> QED BY <1>1 DEF FreshBringup, BringupStates

LEMMA TelemetryInitHolds == TelemetryInit => TelemetryInv
<1> SUFFICES ASSUME TelemetryInit PROVE TelemetryInv
  OBVIOUS
<1>1. TelemetryTypes
  BY FreshIsBringup, TelemetryAssumption DEF TelemetryInit, TelemetryTypes
<1>2. RampFlag BY DEF TelemetryInit, RampFlag
<1>3. NothingUncounted BY DEF TelemetryInit, NothingUncounted
<1>4. RampInv
  BY FreshIsBringup, TelemetryAssumption DEF TelemetryInit, RampInv
<1> QED BY <1>1, <1>2, <1>3, <1>4 DEF TelemetryInv

LEMMA Budgets ==
  ASSUME NEW s \in Nat, NEW a \in Nat, NEW b \in Nat, a < b
  PROVE  s * a \in Nat /\ s * b \in Nat /\ s * a + s <= s * b
<1>1. PICK d \in Nat : b = a + 1 + d
  <2>1. b - a - 1 \in Nat /\ b = a + 1 + (b - a - 1) OBVIOUS
  <2> QED BY <2>1
<1>2. s * b = s * a + s + s * d BY <1>1
<1>3. s * d \in Nat /\ s * a \in Nat /\ s * b \in Nat OBVIOUS

<1> QED BY <1>2, <1>3

(* What the loop's poll does with the state of the ramp.                   *)
LEMMA RearmedState ==
  ASSUME TelemetryInv
  PROVE  /\ Rearmed \in BringupStates /\ Rearmed.last = quanta
         /\ Rearmed.completed => quanta = BringupQuantums
         /\ Rearmed.completed \/ Rearmed.polls <= SuppressedPolls
         /\ quanta < bringup.last => Rearmed.polls = 0
         /\ bringup.last < quanta => Rearmed.polls = 0
         /\ quanta = bringup.last => Rearmed = bringup
<1> USE DEF BringupStates
<1>1. /\ bringup \in BringupStates /\ quanta \in 0 .. BringupQuantums
      /\ SuppressedPolls \in Nat \ {0} /\ BringupQuantums \in Nat \ {0}
      /\ bringup.completed <=> bringup.last = BringupQuantums
      /\ bringup.completed \/ bringup.polls <= SuppressedPolls
  BY TelemetryAssumption DEF TelemetryInv, TelemetryTypes, RampInv
<1>2. CASE quanta < bringup.last
  <2>1. Rearmed = [FreshBringup EXCEPT !.last = quanta] BY <1>2 DEF Rearmed
  <2>2. /\ Rearmed \in BringupStates /\ Rearmed.last = quanta /\ Rearmed.polls = 0
        /\ ~Rearmed.completed
    BY <1>1, <2>1, FreshIsBringup
  <2> QED BY <1>1, <1>2, <2>2
<1>3. CASE bringup.last < quanta
  <2>1. Rearmed = [bringup EXCEPT !.last = quanta, !.polls = 0] BY <1>1, <1>3 DEF Rearmed
  <2>2. 0 \in 0 .. SuppressedPolls + 1 BY <1>1
  <2>3. Rearmed \in BringupStates BY <1>1, <2>1, <2>2
  <2>4. Rearmed.last = quanta /\ Rearmed.polls = 0 BY <1>1, <2>1
  <2>5. Rearmed.completed = bringup.completed BY <1>1, <2>1
  <2> QED BY <1>1, <1>3, <2>3, <2>4, <2>5
<1>4. CASE quanta = bringup.last
  <2>1. Rearmed = bringup BY <1>1, <1>4 DEF Rearmed
  <2> QED BY <1>1, <1>4, <2>1
<1>5. quanta < bringup.last \/ bringup.last < quanta \/ quanta = bringup.last BY <1>1
<1> QED BY <1>2, <1>3, <1>4, <1>5

LEMMA ReadQuantaStep ==
  ASSUME TelemetryInv, ReadQuanta
  PROVE  TelemetryTypes' /\ RampFlag' /\ RampInv'
<1> DEFINE b == Rearmed
           steady == quanta >= BringupQuantums
<1>1. /\ polling = "quanta" /\ polling' = "drain"
      /\ ramping' = StillRamping(b)
      /\ bringup' = [b EXCEPT !.polls = IF StillRamping(b) THEN @ + 1 ELSE @,
                              !.drained = @ \/ (steady /\ ~b.completed),
                              !.completed = @ \/ steady]
      /\ maskedPolls' = IF StillRamping(b) THEN maskedPolls + 1 ELSE maskedPolls
      /\ UNCHANGED <<inHand, audioVars, streamVars, sumVars, masked, droppedBlocks, overloaded>>
  BY DEF ReadQuanta
<1>2. /\ b \in BringupStates /\ b.last = quanta
      /\ b.completed => quanta = BringupQuantums
      /\ b.completed \/ b.polls <= SuppressedPolls
      /\ quanta < bringup.last => b.polls = 0
      /\ bringup.last < quanta => b.polls = 0
      /\ quanta = bringup.last => b = bringup
  BY RearmedState
<1>3. /\ SuppressedPolls \in Nat \ {0} /\ BringupQuantums \in Nat \ {0}
      /\ quanta \in 0 .. BringupQuantums /\ bringup \in BringupStates /\ maskedPolls \in Nat
  BY TelemetryAssumption DEF TelemetryInv, TelemetryTypes
<1>4. StillRamping(b) <=> /\ ~b.completed
                          /\ IF quanta < BringupQuantums THEN b.polls < SuppressedPolls
                                                         ELSE ~b.drained
  BY DEF StillRamping, WithinBudget
<1>5. RampFlag'
  <2>1. StillRamping(b) \in BOOLEAN BY Zenon DEF StillRamping
  <2> QED BY <1>1, <2>1, Zenon DEF RampFlag
<1> HIDE DEF b
<1>6. /\ bringup' \in BringupStates /\ bringup'.last = quanta
      /\ bringup'.polls = IF StillRamping(b) THEN b.polls + 1 ELSE b.polls
      /\ bringup'.completed <=> quanta = BringupQuantums
  <2>1. /\ b.polls \in 0 .. SuppressedPolls + 1 /\ b.last \in 0 .. BringupQuantums
        /\ b.drained \in BOOLEAN /\ b.completed \in BOOLEAN
    BY <1>2 DEF BringupStates
  <2>2. (IF StillRamping(b) THEN b.polls + 1 ELSE b.polls) \in 0 .. SuppressedPolls + 1
    BY <1>2, <1>3, <1>4, <2>1
  <2>3. steady <=> quanta = BringupQuantums BY <1>3
  <2>4. (b.completed \/ steady) \in BOOLEAN /\ (b.drained \/ (steady /\ ~b.completed)) \in BOOLEAN
    BY <2>1
  <2> HIDE DEF steady
  <2>5. bringup' \in BringupStates
    BY <1>1, <1>2, <2>1, <2>2, <2>4 DEF BringupStates
  <2>6. /\ bringup'.last = b.last
        /\ bringup'.polls = IF StillRamping(b) THEN b.polls + 1 ELSE b.polls
        /\ bringup'.completed = (b.completed \/ steady)
    BY <1>1, <1>2 DEF BringupStates
  <2> QED BY <1>2, <2>3, <2>5, <2>6
<1>7. TelemetryTypes'
  <2>1. maskedPolls' \in Nat BY <1>1, <1>3
  <2> QED BY <1>1, <1>6, <2>1 DEF TelemetryInv, TelemetryTypes, audioVars, streamVars, sumVars
<1>8. RampInv'
  <2>1. quanta' = quanta /\ bringup'.last = quanta BY <1>1, <1>6 DEF audioVars
  <2>2. bringup'.completed \/ bringup'.polls <= SuppressedPolls
    BY <1>2, <1>3, <1>4, <1>6 DEF BringupStates
  <2>3. ASSUME maskedPolls' # 0
        PROVE  maskedPolls' <= SuppressedPolls * quanta
                                  + (IF bringup'.completed THEN 1 ELSE bringup'.polls)
    <3>1. maskedPolls # 0 =>
              /\ bringup.last <= quanta
              /\ maskedPolls <= SuppressedPolls * bringup.last
                                 + (IF bringup.completed THEN 1 ELSE bringup.polls)
      BY DEF TelemetryInv, RampInv
    <3>2. /\ bringup.last \in 0 .. BringupQuantums /\ bringup.polls \in Nat
          /\ bringup.completed <=> bringup.last = BringupQuantums
          /\ bringup.completed \/ bringup.polls <= SuppressedPolls
      BY <1>3 DEF TelemetryInv, RampInv, BringupStates
    <3>3. /\ SuppressedPolls * quanta \in Nat /\ SuppressedPolls * bringup.last \in Nat
          /\ bringup.last < quanta =>
                 SuppressedPolls * bringup.last + SuppressedPolls <= SuppressedPolls * quanta
      <4>1. SuppressedPolls \in Nat /\ quanta \in Nat /\ bringup.last \in Nat BY <1>3, <3>2
      <4>2. SuppressedPolls * quanta \in Nat /\ SuppressedPolls * bringup.last \in Nat BY <4>1
      <4> QED BY <4>1, <4>2, Budgets
    <3>4. CASE maskedPolls = 0
      <4>1. maskedPolls' = 1 /\ StillRamping(b) BY <1>1, <2>3, <3>4
      <4>2. bringup'.polls >= 1 BY <1>2, <1>6, <4>1 DEF BringupStates
      <4> QED BY <1>2, <1>6, <3>3, <4>1, <4>2 DEF BringupStates
    <3>5. CASE maskedPolls # 0 /\ bringup.last < quanta
      <4>1. maskedPolls <= SuppressedPolls * quanta
        BY <1>3, <3>1, <3>2, <3>3, <3>5
      <4>2. b.polls = 0 /\ b.polls \in Nat BY <1>2, <3>5
      <4> QED BY <1>1, <1>3, <1>6, <3>3, <4>1, <4>2
    <3>6. CASE maskedPolls # 0 /\ bringup.last = quanta
      <4>1. b = bringup BY <1>2, <3>6
      <4>2. SuppressedPolls * bringup.last = SuppressedPolls * quanta BY <3>6
      <4> QED BY <1>1, <1>2, <1>3, <1>4, <1>6, <3>1, <3>2, <3>3, <3>6, <4>1, <4>2
    <3> QED BY <1>3, <3>1, <3>2, <3>4, <3>5, <3>6
  <2> QED BY <1>3, <1>6, <2>1, <2>2, <2>3 DEF RampInv
<1> QED BY <1>5, <1>7, <1>8

LEMMA TelemetryInductive == TelemetryInv /\ [TelemetryNext]_telemetryVars => TelemetryInv'
<1> SUFFICES ASSUME TelemetryInv, [TelemetryNext]_telemetryVars PROVE TelemetryInv'
  OBVIOUS
<1>1. TelemetryTypes /\ RampFlag /\ NothingUncounted /\ RampInv BY DEF TelemetryInv
<1> USE DEF TelemetryInv
<1>2. CASE OverloadQuantum \/ DropBlock
  <2>1. UNCHANGED <<quanta, host, polling, xruns, inHand, accounted, masked, maskedPolls,
                    bringup, ramping>>
    BY <1>2 DEF OverloadQuantum, DropBlock, streamVars, stepVars, sumVars
  <2>2. \/ overloads' = overloads + 1 /\ overloaded' = overloaded + 1
           /\ UNCHANGED <<pendingDrops, droppedBlocks>>
        \/ pendingDrops' = pendingDrops + 1 /\ droppedBlocks' = droppedBlocks + 1
           /\ UNCHANGED <<overloads, overloaded>>
    BY <1>2 DEF OverloadQuantum, DropBlock
  <2>3. TelemetryTypes' BY <1>1, <2>1, <2>2 DEF TelemetryTypes
  <2>4. NothingUncounted' BY <1>1, <2>1, <2>2 DEF TelemetryTypes, NothingUncounted
  <2> QED BY <1>1, <2>1, <2>3, <2>4 DEF RampFlag, RampInv
<1>3. CASE PlaybackQuantum \/ EnterStreaming
  <2>1. UNCHANGED <<host, polling, xruns, inHand, accounted, masked, overloads, pendingDrops,
                    bringup, ramping, droppedBlocks, overloaded>>
    BY <1>3 DEF PlaybackQuantum, EnterStreaming, streamVars, stepVars, sumVars, pastVars
  <2>2. \/ quanta < BringupQuantums /\ quanta' = quanta + 1 /\ maskedPolls' = maskedPolls
        \/ quanta' = 0 /\ maskedPolls' = 0
    BY <1>3 DEF PlaybackQuantum, EnterStreaming, pastVars
  <2>3. TelemetryTypes' BY <1>1, <2>1, <2>2, TelemetryAssumption DEF TelemetryTypes
  <2>4. NothingUncounted' BY <1>1, <2>1 DEF NothingUncounted
  <2>5. RampInv'
    <3>1. quanta \in Nat /\ bringup.last \in Nat BY <1>1 DEF TelemetryTypes, BringupStates
    <3> QED BY <1>1, <2>1, <2>2, <3>1 DEF RampInv
  <2> QED BY <1>1, <2>1, <2>3, <2>4, <2>5 DEF RampFlag
<1>4. CASE LeaveStreaming \/ UNCHANGED telemetryVars
  <2>1. UNCHANGED <<host, polling, xruns, inHand, accounted, masked, overloads, pendingDrops,
                    quanta, maskedPolls, bringup, ramping, droppedBlocks, overloaded>>
    BY <1>4 DEF LeaveStreaming, telemetryVars, audioVars, streamVars, stepVars, sumVars, pastVars
  <2> QED BY <1>1, <2>1 DEF TelemetryTypes, RampFlag, NothingUncounted, RampInv
<1>5. CASE TakeOverloads \/ SumOverloads
  <2>1. /\ UNCHANGED <<host, accounted, masked, pendingDrops, quanta, maskedPolls, bringup,
                       ramping, droppedBlocks, overloaded>>
        /\ polling' \in {"sum", "quanta"}
    BY <1>5 DEF TakeOverloads, SumOverloads, audioVars, streamVars, sumVars, pastVars
  <2>2. \/ /\ inHand' = overloads /\ overloads' = 0 /\ xruns' = xruns
           /\ polling = "idle" /\ polling' = "sum"
        \/ inHand' = 0 /\ overloads' = overloads /\ xruns' = xruns + inHand
    BY <1>5 DEF TakeOverloads, SumOverloads, audioVars, sumVars
  <2>3. TelemetryTypes' BY <1>1, <2>1, <2>2 DEF TelemetryTypes
  <2>5. NothingUncounted' BY <1>1, <2>1, <2>2 DEF TelemetryTypes, NothingUncounted
  <2> QED BY <1>1, <2>1, <2>3, <2>5 DEF RampFlag, RampInv
<1>6. CASE ReadQuanta
  <2>1. UNCHANGED <<inHand, overloads, xruns, droppedBlocks, pendingDrops, accounted, masked,
                    overloaded>>
    BY <1>6 DEF ReadQuanta, audioVars, sumVars
  <2> QED BY <1>1, <1>6, <2>1, ReadQuantaStep DEF NothingUncounted
<1>7. CASE DrainDrops
  <2>1. /\ UNCHANGED <<host, overloads, xruns, inHand, quanta, maskedPolls, ramping,
                       droppedBlocks, overloaded>>
        /\ polling = "drain" /\ polling' = "idle" /\ pendingDrops' = 0
    BY <1>7 DEF DrainDrops, streamVars
  <2>2. \/ masked' = masked + pendingDrops /\ accounted' = accounted
        \/ accounted' = accounted + pendingDrops /\ masked' = masked
    BY <1>7 DEF DrainDrops
  <2>3. /\ bringup' \in BringupStates /\ bringup'.last = bringup.last
        /\ bringup'.polls = bringup.polls /\ bringup'.completed = bringup.completed
    <3>1. bringup' = bringup
            \/ bringup' = [bringup EXCEPT !.drained = @ \/ pendingDrops > 0]
      BY <1>7 DEF DrainDrops
    <3>2. bringup \in BringupStates BY <1>1 DEF TelemetryTypes
    <3>3. (bringup.drained \/ pendingDrops > 0) \in BOOLEAN
      <4>1. bringup.drained \in BOOLEAN BY <3>2 DEF BringupStates
      <4> QED BY <4>1
    <3> QED BY <3>1, <3>2, <3>3 DEF BringupStates
  <2>4. TelemetryTypes' BY <1>1, <2>1, <2>2, <2>3 DEF TelemetryTypes
  <2>5. NothingUncounted' BY <1>1, <2>1, <2>2 DEF TelemetryTypes, NothingUncounted
  <2>6. RampInv' BY <1>1, <2>1, <2>3 DEF RampInv
  <2> QED BY <1>1, <2>1, <2>4, <2>5, <2>6 DEF RampFlag
<1>8. CASE TearDownHost
  <2>1. /\ UNCHANGED <<overloads, xruns, inHand, quanta, polling, ramping, masked,
                       droppedBlocks, overloaded>>
        /\ accounted' = accounted + pendingDrops /\ pendingDrops' = 0
        /\ host' = (IF host < MaxHosts THEN host + 1 ELSE 0) /\ maskedPolls' = 0
        /\ bringup' = FreshBringup
    BY <1>8 DEF TearDownHost, DrainedAtTeardown, FreshPollState, stepVars
  <2>2. host' \in 0 .. MaxHosts
    BY <1>1, <2>1, TelemetryAssumption DEF TelemetryTypes
  <2>3. TelemetryTypes' BY <1>1, <2>1, <2>2, FreshIsBringup DEF TelemetryTypes
  <2>4. NothingUncounted' BY <1>1, <2>1 DEF TelemetryTypes, NothingUncounted
  <2>5. RampInv' BY <2>1, FreshIsBringup, TelemetryAssumption DEF RampInv
  <2> QED BY <1>1, <2>1, <2>3, <2>4, <2>5 DEF RampFlag
<1> QED BY <1>2, <1>3, <1>4, <1>5, <1>6, <1>7, <1>8 DEF TelemetryNext, PollStatus

LEMMA TelemetryInvIsEnough ==
  TelemetryInv => TelemetryTypeOK /\ NothingUncounted /\ SuppressionIsBounded
<1> SUFFICES ASSUME TelemetryInv
             PROVE  TelemetryTypeOK /\ NothingUncounted /\ SuppressionIsBounded
  OBVIOUS
<1>1. TelemetryTypes /\ RampFlag /\ NothingUncounted /\ RampInv BY DEF TelemetryInv
<1>2. TelemetryTypeOK
  <2>1. bringup.drained \in BOOLEAN /\ bringup.completed \in BOOLEAN /\ ramping \in BOOLEAN
    BY <1>1 DEF TelemetryTypes, BringupStates, RampFlag
  <2> QED BY <1>1, <2>1 DEF TelemetryTypes, BringupStates, TelemetryTypeOK
<1>3. SuppressionIsBounded
  <2>1. /\ SuppressedPolls \in Nat /\ BringupQuantums \in Nat /\ maskedPolls \in Nat
        /\ bringup.last \in 0 .. BringupQuantums /\ bringup.polls \in Nat
    BY <1>1, TelemetryAssumption DEF TelemetryTypes, BringupStates
  <2>2. /\ SuppressedPolls * BringupQuantums \in Nat /\ SuppressedPolls * bringup.last \in Nat
        /\ BringupQuantums * SuppressedPolls = SuppressedPolls * BringupQuantums
    BY <2>1
  <2>3. bringup.last < BringupQuantums =>
          SuppressedPolls * bringup.last + SuppressedPolls <= SuppressedPolls * BringupQuantums
    BY <2>1, Budgets
  <2>4. CASE bringup.completed
    BY <1>1, <2>1, <2>2, <2>4 DEF RampInv, SuppressionIsBounded
  <2>5. CASE ~bringup.completed
    BY <1>1, <2>1, <2>2, <2>3, <2>5 DEF RampInv, SuppressionIsBounded
  <2> QED BY <2>4, <2>5
<1> QED BY <1>1, <1>2, <1>3

-----------------------------------------------------------------------------
(* The lines.                                                              *)
LinesInv == LinesTypeOK /\ FailuresAreKept

LEMMA LinesInitHolds == LinesInit => LinesInv
  BY LinesAssumption DEF LinesInit, LinesInv, LinesTypeOK, FailuresAreKept

LEMMA LinesInductive == LinesInv /\ [LinesNext]_lineVars => LinesInv'
<1> SUFFICES ASSUME LinesInv, [LinesNext]_lineVars PROVE LinesInv'
  OBVIOUS
<1> USE DEF LinesInv, LinesTypeOK, FailuresAreKept
<1>1. ASSUME NEW s \in Bits \cup Counters, RaiseSignal(s) PROVE LinesInv'
  BY <1>1 DEF RaiseSignal, pollLineVars, rtThreadVars
<1>2. CASE PinThread
  <2>1. PICK errors \in SUBSET {"affinity"} : LeaveErrors(errors) BY <1>2 DEF PinThread
  <2>2. errors \subseteq Failures BY <2>1 DEF Failures
  <2> QED BY <1>2, <2>1, <2>2 DEF PinThread, LeaveErrors, pollLineVars
<1>3. CASE PromoteThread
  <2>1. PICK errors \in SUBSET {"scheduler", "policy"} : LeaveErrors(errors)
    BY <1>3 DEF PromoteThread
  <2>2. errors \subseteq Failures BY <2>1 DEF Failures
  <2> QED BY <1>3, <2>1, <2>2 DEF PromoteThread, LeaveErrors, pollLineVars
<1>4. CASE LoadBits
  BY <1>4 DEF LoadBits, rtThreadVars
<1>5. CASE ClearBits
  BY <1>5 DEF ClearBits, Observe, rtThreadVars
<1>6. CASE SwapErrors
  BY <1>6 DEF SwapErrors
<1>7. CASE TellPriority
  BY <1>7 DEF TellPriority
<1>8. CASE ReadCounters
  BY <1>8 DEF ReadCounters, Observe, rtThreadVars
<1>9. CASE EndBringup
  <2>1. bringups' \in 0 .. MaxBringups BY <1>9, LinesAssumption DEF EndBringup
  <2> QED BY <1>9, <2>1 DEF EndBringup
<1>10. CASE UNCHANGED lineVars
  BY <1>10 DEF lineVars, pollLineVars, rtThreadVars
<1> QED BY <1>1, <1>2, <1>3, <1>4, <1>5, <1>6, <1>7, <1>8, <1>9, <1>10 DEF LinesNext, PollLines

-----------------------------------------------------------------------------
(* The gate.                                                               *)
GateInv == GateTypeOK /\ TransitionsAreCounted

LEMMA GateInitHolds == GateInit => GateInv
<1> SUFFICES ASSUME GateInit PROVE GateInv
  OBVIOUS
<1>1. {silent, fading, wasSilent, wasFading} \subseteq BOOLEAN
  BY Zenon DEF GateInit
<1>2. /\ gateTime \in 0 .. LastPoll /\ lastLine \in NoLine .. LastPoll
      /\ gateStep \in {"silent", "fading"}
      /\ {suppressed, transitions, linesSum} \subseteq Nat
  BY GateAssumption DEF GateInit, NoLine
<1>3. TransitionsAreCounted BY DEF GateInit, TransitionsAreCounted
<1> QED BY <1>1, <1>2, <1>3, Zenon DEF GateInv, GateTypeOK

LEMMA TransitionStep ==
  ASSUME GateInv, Transition, gateTime' = gateTime
  PROVE  /\ lastLine' \in NoLine .. LastPoll
         /\ {suppressed', transitions', linesSum'} \subseteq Nat
         /\ TransitionsAreCounted'
  BY GateAssumption DEF GateInv, GateTypeOK, TransitionsAreCounted, Transition, NoLine

LEMMA GateInductive == GateInv /\ [GateNext]_gateVars => GateInv'
<1> SUFFICES ASSUME GateInv, [GateNext]_gateVars PROVE GateInv'
  OBVIOUS
<1>1. GateTypeOK /\ TransitionsAreCounted BY DEF GateInv
<1>2. ASSUME gateTime' \in 0 .. LastPoll, lastLine' \in NoLine .. LastPoll,
             {suppressed', transitions', linesSum'} \subseteq Nat,
             gateStep' \in {"silent", "fading"},
             {silent', fading', wasSilent', wasFading'} \subseteq BOOLEAN,
             TransitionsAreCounted'
      PROVE  GateInv'
  BY <1>2, Zenon DEF GateInv, GateTypeOK
<1>3. gateStep' \in {"silent", "fading"}
  BY <1>1 DEF GateTypeOK, GateNext, PassGateTime, MoveGate, TestSilent, TestFading, gateVars
<1>4. {silent', fading', wasSilent', wasFading'} \subseteq BOOLEAN
  BY <1>1 DEF GateTypeOK, GateNext, PassGateTime, MoveGate, TestSilent, TestFading, gateVars,
     rtGate
<1>5. gateTime' \in 0 .. LastPoll
  BY <1>1, GateAssumption DEF GateTypeOK, GateNext, PassGateTime, MoveGate, TestSilent,
     TestFading, gateVars
<1>6. CASE Transition /\ gateTime' = gateTime
  BY <1>2, <1>3, <1>4, <1>5, <1>6, TransitionStep
<1>7. CASE UNCHANGED <<throttle, transitions>>
  <2>1. UNCHANGED <<lastLine, suppressed, linesSum, transitions>> BY <1>7 DEF throttle
  <2>2. /\ lastLine' \in NoLine .. LastPoll
        /\ {suppressed', transitions', linesSum'} \subseteq Nat
        /\ TransitionsAreCounted'
    BY <1>1, <2>1 DEF GateTypeOK, TransitionsAreCounted
  <2> QED BY <1>2, <1>3, <1>4, <1>5, <2>2
<1>8. (Transition /\ gateTime' = gateTime) \/ UNCHANGED <<throttle, transitions>>
  BY DEF GateNext, PassGateTime, MoveGate, TestSilent, TestFading, gateVars
<1> QED BY <1>6, <1>7, <1>8

-----------------------------------------------------------------------------
(* The composition.                                                        *)

WaitInv == CycleInv /\ PolicyInv /\ SignalsInv /\ WakeupInv /\ ProbeInv
DataInv == LatencyInv /\ LogInv /\ PathInv
ReportInv == TelemetryInv /\ LinesInv /\ GateInv
ControlInv == selected \in Protocols /\ WaitInv /\ DataInv /\ ReportInv

WaitActs ==
    /\ [Next]_vars /\ [PolicyNext]_policyVars /\ [SignalsNext]_signalsVars
    /\ [WakeupNext]_wakeupVars /\ [ProbeNext]_probeVars
DataActs == [LatencyNext]_latencyVars /\ [LogNext]_logVars /\ [PathNext]_pathVars
ReportActs == [TelemetryNext]_telemetryVars /\ [LinesNext]_lineVars /\ [GateNext]_gateVars

LEMMA EveryProtocolSteps ==
  ASSUME [ControlNext]_controlVars
  PROVE  WaitActs /\ DataActs /\ ReportActs /\ selected' = selected
<1>1. CASE WaitTurn
  <2>1. WaitActs
    BY <1>1 DEF WaitTurn, WaitActs
  <2>2. UNCHANGED <<reportVars, dataVars, selected>>
    BY <1>1 DEF WaitTurn
  <2> QED BY <2>1, <2>2 DEF reportVars, dataVars, DataActs, ReportActs
<1>2. CASE DataTurn
  <2>1. DataActs
    BY <1>2 DEF DataTurn, DataActs
  <2>2. UNCHANGED <<reportVars, waitVars, selected>>
    BY <1>2 DEF DataTurn
  <2> QED BY <2>1, <2>2 DEF reportVars, waitVars, WaitActs, ReportActs
<1>3. CASE ReportTurn
  <2>1. ReportActs
    BY <1>3 DEF ReportTurn, ReportActs
  <2>2. UNCHANGED <<waitVars, dataVars, selected>>
    BY <1>3 DEF ReportTurn
  <2> QED BY <2>1, <2>2 DEF waitVars, dataVars, WaitActs, DataActs
<1>4. CASE UNCHANGED controlVars
  BY <1>4 DEF controlVars, reportVars, waitVars, dataVars, WaitActs, DataActs, ReportActs
<1> QED BY <1>1, <1>2, <1>3, <1>4 DEF ControlNext

LEMMA ControlInitHolds == ControlInit => ControlInv
<1> SUFFICES ASSUME ControlInit PROVE ControlInv
  OBVIOUS
<1>1. WaitInv
  BY CycleInitHolds, PolicyInitHolds, SignalsInitHolds, WakeupInitHolds, ProbeInitHolds
  DEF ControlInit, WaitInv
<1>2. DataInv
  BY LatencyInitHolds, LogInitHolds, PathInitHolds DEF ControlInit, DataInv
<1>3. ReportInv
  BY TelemetryInitHolds, LinesInitHolds, GateInitHolds DEF ControlInit, ReportInv
<1> QED BY <1>1, <1>2, <1>3 DEF ControlInit, ControlInv

LEMMA ControlInductive == ControlInv /\ [ControlNext]_controlVars => ControlInv'
<1> SUFFICES ASSUME ControlInv, [ControlNext]_controlVars PROVE ControlInv'
  OBVIOUS
<1>1. WaitActs /\ DataActs /\ ReportActs /\ selected' = selected
  BY EveryProtocolSteps
<1>2. WaitInv'
  BY <1>1, CycleInductive, PolicyInductive, SignalsInductive, WakeupInductive, ProbeInductive
  DEF ControlInv, WaitInv, WaitActs
<1>3. DataInv'
  BY <1>1, LatencyInductive, LogInductive, PathInductive DEF ControlInv, DataInv, DataActs
<1>4. ReportInv'
  BY <1>1, TelemetryInductive, LinesInductive, GateInductive
  DEF ControlInv, ReportInv, ReportActs
<1>5. (selected \in Protocols)'
  BY <1>1 DEF ControlInv, Protocols
<1> QED BY <1>2, <1>3, <1>4, <1>5 DEF ControlInv

THEOREM ControlInvariant == ControlSpec => []ControlInv
  BY ControlInitHolds, ControlInductive, PTL DEF ControlSpec

(* Every protocol keeps its types, whichever is selected.                  *)
THEOREM ControlTypesHold == ControlSpec => []ControlTypeOK
<1>1. ControlInv => ControlTypeOK
  BY CycleInvIsEnough, SignalsTypesFollow, WakeupInvIsEnough, ProbeInvIsEnough,
     LatencyTypesFollow, LogInvIsEnough, PathInvIsEnough, TelemetryInvIsEnough
  DEF ControlInv, WaitInv, DataInv, ReportInv, LinesInv, GateInv, ControlTypeOK
<1> QED BY <1>1, ControlInvariant, PTL

(* begin_attempt, with_backoff_timeout, the control loop's wait and the    *)
(* probe for the sink take no longer than they are meant to.               *)
THEOREM WaitsBounded == ControlSpec => []WaitsAreBounded
<1>1. ControlInv => WaitsAreBounded
  BY CycleInvIsEnough, PolicyInvIsEnough, WakeupInvIsEnough, ProbeInvIsEnough
  DEF ControlInv, WaitInv, WaitsAreBounded
<1> QED BY <1>1, ControlInvariant, PTL

(* No event of PipeWire's log is lost uncounted on its way to the host's,  *)
(* for any number of threads and events and any capacity of the ring.      *)
THEOREM LogIsWhole == ControlSpec => []LogIsComplete
<1>1. ControlInv => LogIsComplete
  BY LogInvIsEnough DEF ControlInv, DataInv, LogIsComplete
<1> QED BY <1>1, ControlInvariant, PTL

(* What the audio threads counted, failed at or changed is told, and the   *)
(* start-up ramp excuses drift for a bounded number of polls.              *)
THEOREM TelemetryHonest == ControlSpec => []TelemetryIsHonest
<1>1. ControlInv => TelemetryIsHonest
  BY TelemetryInvIsEnough, WakeupInvIsEnough, ProbeInvIsEnough
  DEF ControlInv, WaitInv, ReportInv, LinesInv, GateInv, TelemetryIsHonest
<1> QED BY <1>1, ControlInvariant, PTL

(* No buffer the graph hands over makes a callback leave the channel or    *)
(* play stale bytes.                                                       *)
THEOREM HostMemorySound == ControlSpec => []HostMemoryIsSound
<1>1. ControlInv => HostMemoryIsSound
  BY PathInvIsEnough DEF ControlInv, DataInv, HostMemoryIsSound
<1> QED BY <1>1, ControlInvariant, PTL

-----------------------------------------------------------------------------
(* The action properties and the refinement.                               *)

(* A second signal cuts a recording off only when it is meant to.          *)
THEOREM ControlEscalates == ControlSpec => EscalationIsDeliberate
<1>1. ControlInv /\ [ControlNext]_controlVars =>
          [\A d \in Deliveries :
               (stage = "grace" /\ ForceExit(d)) =>
                   /\ First \ {d} # {}
                   /\ clock - anchor >= Required]_signalsVars
  BY EscalatesDeliberately DEF ControlInv, WaitInv
<1> QED BY ControlInvariant, <1>1, PTL DEF ControlSpec, EscalationIsDeliberate

(* A recovery is announced before its budget is replenished.               *)
THEOREM ControlAnnounces == ControlSpec => RecoveryIsAnnounced
<1>1. ControlInv /\ [ControlNext]_controlVars =>
          [attemptsMade' = 0 /\ attemptsMade # 0 => ~awaitingRestore]_vars
  BY EveryProtocolSteps, AnnouncedFirst DEF ControlInv, WaitInv, WaitActs
<1> QED BY ControlInvariant, <1>1, PTL DEF ControlSpec, RecoveryIsAnnounced

(* The latencies that are summed were in force together.                   *)
THEOREM ControlSnapshot == ControlSpec => SnapshotIsCoherent
<1>1. ControlInv /\ [ControlNext]_controlVars =>
          [(reader.step = "validate" /\ reader'.step = "publish") =>
               reader.seen = appliedLatency]_latencyVars
  BY EveryProtocolSteps, ValidatedIsCoherent DEF ControlInv, DataInv, DataActs, LatencyInv
<1> QED BY ControlInvariant, <1>1, PTL DEF ControlSpec, SnapshotIsCoherent

(* The reader copies one block to the end of both channels, and once.      *)
THEOREM ControlCopies == ControlSpec => BlockStaysWhole
<1>1. ControlInv /\ [ControlNext]_controlVars =>
          [/\ copied' \subseteq {source'.gen}
           /\ (player = "stamp" => source.gen > played)]_pathVars
  BY EveryProtocolSteps, BlockStays DEF ControlInv, DataInv, DataActs
<1> QED BY ControlInvariant, <1>1, PTL DEF ControlSpec, BlockStaysWhole

(* The clocked reconnect cycle implements RetryBudget, the abstraction     *)
(* BackendLifecycle is built on.                                           *)
THEOREM ControlRefines == ControlSpec => ImplementsBudget
<1>1. ControlInit => Budget!CycleInit
  BY BudgetInit DEF ControlInit
<1>2. ControlInv /\ [ControlNext]_controlVars => [Budget!CycleNext]_(Budget!cycleVars)
  BY EveryProtocolSteps, BudgetStep DEF ControlInv, WaitInv, WaitActs
<1> QED BY ControlInvariant, <1>1, <1>2, PTL
        DEF ControlSpec, ImplementsBudget, Budget!CycleSpec
=============================================================================
