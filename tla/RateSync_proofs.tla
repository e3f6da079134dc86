--------------------------- MODULE RateSync_proofs ---------------------------
(***************************************************************************)
(* What TLAPS proves of RateSync, for every set of rates, every ring       *)
(* capacity and every bound.                                               *)
(***************************************************************************)
EXTENDS RateSync, TLAPS

(***************************************************************************)
(* The inductive invariant.                                                *)
(***************************************************************************)

(* Nothing is stamped with a generation that was not requested yet.        *)
Stamps ==
    /\ failedGen <= gen
    /\ job.gen <= gen
    /\ \A i \in DOMAIN ring : ring[i].gen <= gen

(* Between the store of the first rate and the advance of the generation   *)
(* the request is a mixture.                                               *)
Publishing == rtPc \in {"storeNam", "advance"}

(* What is stamped with the current generation carries the current rates.  *)
RingSnapshot ==
    ~Publishing => \A i \in Current : ring[i].rates = <<reqHost, reqNam>>

JobSnapshot ==
    ~Publishing /\ job.gen = gen =>
        /\ mainPc \in {"nam", "build", "push"} => job.rates[1] = reqHost
        /\ mainPc \in {"build", "push"} => job.rates[2] = reqNam

(* Unmuted, the latest generation is resolved, except for the instant in   *)
(* which a new generation is out and the mute is not armed yet.            *)
Resolution == rtPc # "arm" /\ ~pending => applied = gen

(* What the callback knows of the rates it wants, step by step.            *)
Target == <<desired, nam>>
WantedOrGivenUp == active = Target \/ failedRates = Target

Wants ==
    /\ rtPc \in {"invalidate", "disarm"} => active = Target
    /\ rtPc \in {"storeHost", "storeNam", "advance", "arm"} => last = Target
    /\ rtPc = "guard" => WantedOrGivenUp \/ (pending /\ last = Target)
    /\ rtPc \in {"clearNeeds", "clearMarker", "idle"} /\ outcome = "proceed"
         => WantedOrGivenUp

(* A failure on file while a request is out is that of the same rates.     *)
Filed ==
    \/ pending /\ rtPc # "invalidate"
    \/ rtPc \in {"storeHost", "storeNam", "advance", "arm"}
  => failedRates = NoRates \/ failedRates = last

IInv ==
    /\ TypeOK /\ Stamps /\ RingSnapshot /\ JobSnapshot
    /\ Resolution /\ Wants /\ Filed

-----------------------------------------------------------------------------
(* Two facts about the ring.                                               *)
LEMMA ElementInSet ==
  ASSUME NEW S, NEW s \in Seq(S), NEW i \in DOMAIN s
  PROVE  s[i] \in S
  BY SMT

LEMMA AppendFacts ==
  ASSUME NEW S, NEW s \in Seq(S), NEW e \in S
  PROVE  /\ Append(s, e) \in Seq(S)
         /\ Len(Append(s, e)) = Len(s) + 1
         /\ \A i \in DOMAIN Append(s, e) :
              \/ i \in DOMAIN s /\ Append(s, e)[i] = s[i]
              \/ Append(s, e)[i] = e
  BY SMT

Payloads == [gen : Nat, rates : Tuples]

LEMMA InstallFacts ==
  ASSUME RingTypes, NEW i \in Current
  PROVE  /\ i \in DOMAIN ring
         /\ ring[i].gen = gen /\ ring[i].rates \in Tuples
<1>1. i \in DOMAIN ring /\ ring[i].gen = gen BY DEF Current
<1>2. ring[i] \in Payloads BY <1>1, ElementInSet DEF RingTypes, Payloads
<1> QED BY <1>1, <1>2 DEF Payloads

LEMMA WantedType ==
  ASSUME SharedTypes, CallbackTypes
  PROVE  NextDesired \in Rates /\ Wanted \in Tuples /\ Wanted \in RateTuples
<1>1. NextDesired \in Rates
  BY RateAssumption DEF SharedTypes, CallbackTypes, NextDesired, NoRate
<1> QED BY <1>1 DEF CallbackTypes, Wanted, RateTuples, Tuples

-----------------------------------------------------------------------------
LEMMA InvInit == Init => IInv
<1> SUFFICES ASSUME Init PROVE IInv
  OBVIOUS
<1> USE DEF Init
<1>1. SharedTypes
  <2>1. needs \in BOOLEAN /\ pending \in BOOLEAN BY Zenon
  <2>2. changes \in 0 .. MaxChanges BY BoundAssumption, SMT
  <2>3. gen \in Nat /\ applied \in Nat /\ failedGen \in Nat BY SMT DEF NoFailure
  <2> QED BY <2>1, <2>2, <2>3 DEF SharedTypes
<1>2. RingTypes
  <2>1. ring \in Seq(Payloads) BY SMT
  <2>2. Len(ring) <= RingCapacity BY RingAssumption, SMT
  <2> QED BY <2>1, <2>2 DEF RingTypes, Payloads
<1>3. CallbackTypes
  <2>1. NoRates \in RateTuples BY DEF NoRates, RateTuples
  <2>2. active \in Tuples BY RateAssumption DEF Tuples
  <2> QED BY <2>1, <2>2, RateAssumption, SMT DEF CallbackTypes
<1>4. LoopTypes
  <2>1. NoRates \in RateTuples BY DEF NoRates, RateTuples
  <2>2. job \in [gen : Nat, rates : RateTuples] BY <2>1, SMT
  <2> QED BY <2>2, BoundAssumption, SMT DEF LoopTypes
<1>5. Stamps BY SMT DEF Stamps, NoFailure
<1>6. RingSnapshot BY SMT DEF RingSnapshot, Current
<1>7. JobSnapshot BY SMT DEF JobSnapshot
<1>8. Resolution BY SMT DEF Resolution
<1>9. Wants BY SMT DEF Wants, WantedOrGivenUp, Target
<1>10. Filed BY SMT DEF Filed
<1> QED
  BY <1>1, <1>2, <1>3, <1>4, <1>5, <1>6, <1>7, <1>8, <1>9, <1>10 DEF IInv, TypeOK

-----------------------------------------------------------------------------
(* A step takes one action, or changes nothing.                            *)
LEMMA StepCases ==
  ASSUME [Next]_vars
  PROVE  \/ \E r \in Rates : Negotiate(r)
         \/ DrainResamplers
         \/ \E r \in Rates : LoadModel(r)
         \/ NoLoadModel \/ SyncRate \/ Invalidate \/ Disarm
         \/ StoreHost \/ StoreNam \/ AdvanceGeneration \/ Arm
         \/ RollbackGuard \/ ClearNeeds \/ ClearMarker
         \/ CheckNeeds \/ CaptureGeneration \/ CaptureHost \/ CaptureNam
         \/ BuildSucceeds \/ BuildFails \/ Push \/ PushFull
         \/ ClearRequest \/ RearmIfSuperseded
         \/ UNCHANGED vars
  BY DEF Next, Callback, ControlLoop

(* Which actions change what.                                              *)
LEMMA RingFrame ==
  ASSUME [Next]_vars
  PROVE  \/ DrainResamplers \/ Push
         \/ UNCHANGED ring
  BY StepCases
     DEF Negotiate, LoadModel, NoLoadModel, SyncRate, Invalidate, Disarm,
         StoreHost, StoreNam, AdvanceGeneration, Arm, RollbackGuard, ClearNeeds,
         ClearMarker, CheckNeeds, CaptureGeneration, CaptureHost, CaptureNam,
         BuildSucceeds, BuildFails, PushFull, ClearRequest, RearmIfSuperseded, vars

LEMMA GenerationFrame ==
  ASSUME [Next]_vars
  PROVE  \/ Invalidate \/ AdvanceGeneration
         \/ UNCHANGED gen
  BY StepCases
     DEF Negotiate, DrainResamplers, LoadModel, NoLoadModel, SyncRate, Disarm,
         StoreHost, StoreNam, Arm, RollbackGuard, ClearNeeds, ClearMarker,
         CheckNeeds, CaptureGeneration, CaptureHost, CaptureNam, BuildSucceeds,
         BuildFails, Push, PushFull, ClearRequest, RearmIfSuperseded,
         rtVars, requestVars, vars

LEMMA JobFrame ==
  ASSUME [Next]_vars
  PROVE  \/ CaptureGeneration \/ CaptureHost \/ CaptureNam
         \/ UNCHANGED job
  BY StepCases
     DEF Negotiate, DrainResamplers, LoadModel, NoLoadModel, SyncRate, Invalidate,
         Disarm, StoreHost, StoreNam, AdvanceGeneration, Arm, RollbackGuard,
         ClearNeeds, ClearMarker, CheckNeeds, BuildSucceeds, BuildFails, Push,
         PushFull, ClearRequest, RearmIfSuperseded, mainVars, vars

LEMMA MarkerFrame ==
  ASSUME [Next]_vars
  PROVE  \/ ClearMarker \/ BuildSucceeds \/ BuildFails
         \/ UNCHANGED failedGen
  BY StepCases
     DEF Negotiate, DrainResamplers, LoadModel, NoLoadModel, SyncRate, Invalidate,
         Disarm, StoreHost, StoreNam, AdvanceGeneration, Arm, RollbackGuard,
         ClearNeeds, CheckNeeds, CaptureGeneration, CaptureHost, CaptureNam, Push,
         PushFull, ClearRequest, RearmIfSuperseded, vars

(* What only the callback writes.                                          *)
LEMMA CallbackFrame ==
  ASSUME [Next]_vars
  PROVE  \/ DrainResamplers
         \/ \E r \in Rates : LoadModel(r)
         \/ NoLoadModel \/ SyncRate \/ Invalidate \/ Disarm
         \/ StoreHost \/ StoreNam \/ AdvanceGeneration \/ Arm
         \/ RollbackGuard \/ ClearNeeds \/ ClearMarker
         \/ UNCHANGED <<requestVars, rtPc, budget, swapVars, nam, syncVars, outcome>>
  BY StepCases
     DEF Negotiate, CheckNeeds, CaptureGeneration, CaptureHost, CaptureNam,
         BuildSucceeds, BuildFails, Push, PushFull, ClearRequest,
         RearmIfSuperseded, rtVars, vars

(* What only the control loop writes.                                      *)
LEMMA LoopFrame ==
  ASSUME [Next]_vars
  PROVE  \/ CheckNeeds \/ CaptureGeneration \/ CaptureHost \/ CaptureNam
         \/ BuildSucceeds \/ BuildFails \/ Push \/ PushFull
         \/ ClearRequest \/ RearmIfSuperseded
         \/ UNCHANGED mainVars
  BY StepCases
     DEF Negotiate, DrainResamplers, LoadModel, NoLoadModel, SyncRate, Invalidate,
         Disarm, StoreHost, StoreNam, AdvanceGeneration, Arm, RollbackGuard,
         ClearNeeds, ClearMarker, vars

-----------------------------------------------------------------------------
(* The types.                                                              *)
LEMMA RingTypesStep ==
  ASSUME IInv, [Next]_vars
  PROVE  RingTypes'
<1>1. RingTypes BY DEF IInv, TypeOK
<1>2. CASE DrainResamplers
  <2>1. ring' = <<>> BY <1>2 DEF DrainResamplers
  <2>2. ring' \in Seq(Payloads) BY <2>1, SMT
  <2>3. Len(ring') <= RingCapacity BY <2>1, RingAssumption, SMT
  <2> QED BY <2>2, <2>3 DEF RingTypes, Payloads
<1>3. CASE Push
  <2>1. job \in Payloads
    <3>1. job \in [gen : Nat, rates : RateTuples] /\ job.rates \in Tuples
      BY <1>3 DEF IInv, TypeOK, LoopTypes, Push
    <3> QED BY <3>1, SMT DEF Payloads
  <2>2. ring \in Seq(Payloads) BY <1>1 DEF RingTypes, Payloads
  <2>3. ring' = Append(ring, job) /\ Len(ring) < RingCapacity BY <1>3 DEF Push
  <2>4. ring' \in Seq(Payloads) /\ Len(ring') = Len(ring) + 1
    BY <2>1, <2>2, <2>3, AppendFacts
  <2>5. Len(ring) \in Nat BY <2>2, SMT
  <2>6. Len(ring') <= RingCapacity BY <2>3, <2>4, <2>5, RingAssumption, SMT
  <2> QED BY <2>4, <2>6 DEF RingTypes, Payloads
<1>4. CASE UNCHANGED ring BY <1>1, <1>4, Zenon DEF RingTypes
<1> QED BY <1>2, <1>3, <1>4, RingFrame

LEMMA LoopTypesStep ==
  ASSUME IInv, [Next]_vars
  PROVE  LoopTypes'
<1> USE DEF LoopTypes
<1>1. LoopTypes /\ SharedTypes BY DEF IInv, TypeOK
<1>2. CASE CheckNeeds BY <1>1, <1>2, SMT DEF CheckNeeds
<1>3. CASE CaptureGeneration
  <2>1. job' \in [gen : Nat, rates : RateTuples]
    BY <1>1, <1>3, SMT DEF CaptureGeneration, SharedTypes
  <2> QED BY <1>1, <1>3, <2>1, SMT DEF CaptureGeneration
<1>4. CASE CaptureHost
  <2>1. job' = [job EXCEPT !.rates = [job.rates EXCEPT ![1] = reqHost]]
    BY <1>4 DEF CaptureHost
  <2>2. [job.rates EXCEPT ![1] = reqHost] \in RateTuples
    BY <1>1, SMT DEF SharedTypes, RateTuples
  <2>3. job' \in [gen : Nat, rates : RateTuples] BY <1>1, <2>1, <2>2, SMT
  <2> QED BY <1>1, <1>4, <2>3, SMT DEF CaptureHost
<1>5. CASE CaptureNam
  <2>1. job' = [job EXCEPT !.rates = [job.rates EXCEPT ![2] = reqNam]]
    BY <1>5 DEF CaptureNam
  <2>2. /\ [job.rates EXCEPT ![2] = reqNam] \in RateTuples
        /\ job.rates[1] # NoRate /\ reqNam # NoRate
             => [job.rates EXCEPT ![2] = reqNam] \in Tuples
    BY <1>1, SMT DEF SharedTypes, RateTuples, Tuples
  <2>3. /\ job' \in [gen : Nat, rates : RateTuples]
        /\ job'.rates = [job.rates EXCEPT ![2] = reqNam]
    BY <1>1, <2>1, <2>2, SMT
  <2> QED BY <1>1, <1>5, <2>2, <2>3, SMT DEF CaptureNam
<1>6. CASE BuildSucceeds BY <1>1, <1>6, SMT DEF BuildSucceeds
<1>7. CASE BuildFails BY <1>1, <1>7, BoundAssumption, SMT DEF BuildFails
<1>8. CASE Push BY <1>1, <1>8, SMT DEF Push
<1>9. CASE PushFull BY <1>1, <1>9, SMT DEF PushFull
<1>10. CASE ClearRequest BY <1>1, <1>10, SMT DEF ClearRequest
<1>11. CASE RearmIfSuperseded BY <1>1, <1>11, SMT DEF RearmIfSuperseded
<1>12. CASE UNCHANGED mainVars BY <1>1, <1>12, Zenon DEF mainVars
<1> QED
  BY <1>2, <1>3, <1>4, <1>5, <1>6, <1>7, <1>8, <1>9, <1>10, <1>11, <1>12, LoopFrame

LEMMA CallbackTypesStep ==
  ASSUME IInv, [Next]_vars
  PROVE  CallbackTypes'
<1> USE DEF CallbackTypes
<1>1. CallbackTypes /\ SharedTypes /\ RingTypes BY DEF IInv, TypeOK
<1>2. CASE DrainResamplers
  <2>1. CASE \E i \in Current : Install(i)
    <3>1. PICK i \in Current : Install(i) BY <2>1
    <3>2. active' \in Tuples BY <1>1, <3>1, InstallFacts DEF Install
    <3> QED BY <1>1, <1>2, <3>1, <3>2, SMT DEF DrainResamplers, Install, syncVars
  <2>2. CASE Current = {} /\ budget' = 1 /\ UNCHANGED swapVars
    BY <1>1, <1>2, <2>2, SMT DEF DrainResamplers, swapVars, syncVars
  <2> QED BY <1>2, <2>1, <2>2 DEF DrainResamplers
<1>3. CASE \E r \in Rates : LoadModel(r)
  BY <1>1, <1>3, SMT DEF LoadModel, HasBudget, swapVars, syncVars
<1>4. CASE NoLoadModel BY <1>1, <1>4, SMT DEF NoLoadModel, swapVars, syncVars
<1>5. CASE SyncRate
  <2> USE DEF SyncRate, swapVars
  <2>1. NextDesired \in Rates /\ Wanted \in RateTuples BY <1>1, WantedType
  <2>2. NoRates \in RateTuples BY DEF NoRates, RateTuples
  <2>3. CASE AtActive
    BY <1>1, <1>5, <2>1, <2>2, <2>3, SMT DEF AtActive, ForgetFailure, KeepFailure
  <2>4. CASE KeepWaiting BY <1>1, <1>5, <2>1, <2>4, SMT DEF KeepWaiting
  <2>5. CASE StartRequest
    BY <1>1, <1>5, <2>1, <2>2, <2>5, SMT DEF StartRequest, ForgetFailure, KeepFailure
  <2> QED BY <1>5, <2>3, <2>4, <2>5
<1>6. CASE Invalidate BY <1>1, <1>6, SMT DEF Invalidate, syncVars
<1>7. CASE Disarm BY <1>1, <1>7, SMT DEF Disarm, swapVars, syncVars
<1>8. CASE StoreHost BY <1>1, <1>8, SMT DEF StoreHost, swapVars, syncVars
<1>9. CASE StoreNam BY <1>1, <1>9, SMT DEF StoreNam, swapVars, syncVars
<1>10. CASE AdvanceGeneration
  BY <1>1, <1>10, SMT DEF AdvanceGeneration, swapVars, syncVars
<1>11. CASE Arm BY <1>1, <1>11, SMT DEF Arm, syncVars
<1>12. CASE RollbackGuard
  BY <1>1, <1>12, SMT
     DEF RollbackGuard, NothingToResolve, StillBuilding, StaleFailure, RollBack
<1>13. CASE ClearNeeds BY <1>1, <1>13, SMT DEF ClearNeeds, swapVars, syncVars
<1>14. CASE ClearMarker BY <1>1, <1>14, SMT DEF ClearMarker, swapVars, syncVars
<1>15. CASE UNCHANGED <<requestVars, rtPc, budget, swapVars, nam, syncVars, outcome>>
  BY <1>1, <1>15, Zenon DEF swapVars, syncVars
<1> QED
  BY <1>2, <1>3, <1>4, <1>5, <1>6, <1>7, <1>8, <1>9, <1>10, <1>11, <1>12, <1>13,
     <1>14, <1>15, CallbackFrame

LEMMA SharedTypesStep ==
  ASSUME IInv, [Next]_vars
  PROVE  SharedTypes'
<1>1. SharedTypes /\ RingTypes /\ CallbackTypes /\ LoopTypes BY DEF IInv, TypeOK
<1>2. gen' \in Nat
  BY <1>1, GenerationFrame, SMT DEF SharedTypes, Invalidate, AdvanceGeneration
<1>3. failedGen' \in Nat
  <2>1. job.gen \in Nat BY <1>1, SMT DEF LoopTypes
  <2> QED BY <1>1, <2>1, MarkerFrame, SMT
          DEF SharedTypes, ClearMarker, BuildSucceeds, BuildFails, NoFailure
<1>4. cell' \in Rates \cup {NoRate}
  BY <1>1, StepCases, Zenon
     DEF SharedTypes, Negotiate, DrainResamplers, LoadModel, NoLoadModel, SyncRate,
         Invalidate, Disarm, StoreHost, StoreNam, AdvanceGeneration, Arm,
         RollbackGuard, ClearNeeds, ClearMarker, CheckNeeds, CaptureGeneration,
         CaptureHost, CaptureNam, BuildSucceeds, BuildFails, Push, PushFull,
         ClearRequest, RearmIfSuperseded, rtVars, vars
<1>5. changes' \in 0 .. MaxChanges
  <2>1. \/ changes < MaxChanges /\ changes' = changes + 1
        \/ changes' = changes
    BY StepCases, Zenon
       DEF Negotiate, DrainResamplers, LoadModel, NoLoadModel, SyncRate,
           Invalidate, Disarm, StoreHost, StoreNam, AdvanceGeneration, Arm,
           RollbackGuard, ClearNeeds, ClearMarker, CheckNeeds, CaptureGeneration,
           CaptureHost, CaptureNam, BuildSucceeds, BuildFails, Push, PushFull,
           ClearRequest, RearmIfSuperseded, vars
  <2> QED BY <1>1, <2>1, BoundAssumption, SMT DEF SharedTypes
<1>6. needs' \in BOOLEAN
  BY <1>1, StepCases, Zenon
     DEF SharedTypes, Negotiate, DrainResamplers, LoadModel, NoLoadModel, SyncRate,
         Invalidate, Disarm, StoreHost, StoreNam, AdvanceGeneration, Arm,
         RollbackGuard, ClearNeeds, ClearMarker, CheckNeeds, CaptureGeneration,
         CaptureHost, CaptureNam, BuildSucceeds, BuildFails, Push, PushFull,
         ClearRequest, RearmIfSuperseded, vars
<1>7. /\ reqHost' \in Rates \cup {NoRate} /\ reqNam' \in Rates \cup {NoRate}
      /\ pending' \in BOOLEAN /\ applied' \in Nat
  <2> USE DEF SharedTypes
  <2>1. CASE DrainResamplers
    <3>1. CASE \E i \in Current : Install(i)
      <4>1. PICK i \in Current : Install(i) BY <3>1
      <4>2. applied' = gen /\ pending' = FALSE
        BY <1>1, <4>1, InstallFacts DEF Install, Resolved
      <4> QED BY <1>1, <2>1, <4>2 DEF DrainResamplers, requestVars
    <3>2. CASE Current = {} /\ budget' = 1 /\ UNCHANGED swapVars
      BY <1>1, <2>1, <3>2 DEF DrainResamplers, requestVars, swapVars
    <3> QED BY <2>1, <3>1, <3>2 DEF DrainResamplers
  <2>2. CASE (\E r \in Rates : LoadModel(r)) \/ NoLoadModel \/ SyncRate \/ Disarm
               \/ ClearNeeds \/ ClearMarker
    BY <1>1, <2>2
       DEF LoadModel, NoLoadModel, SyncRate, Disarm, ClearNeeds, ClearMarker,
           requestVars, swapVars
  <2>3. CASE Invalidate
    <3>1. gen + 1 \in Nat BY <1>1, SMT
    <3> QED BY <1>1, <2>3, <3>1 DEF Invalidate, Resolved
  <2>4. CASE StoreHost \/ StoreNam
    BY <1>1, <2>4 DEF StoreHost, StoreNam, CallbackTypes, swapVars
  <2>5. CASE AdvanceGeneration BY <1>1, <2>5 DEF AdvanceGeneration, swapVars
  <2>6. CASE Arm BY <1>1, <2>6 DEF Arm, requestVars
  <2>7. CASE RollbackGuard
    BY <1>1, <2>7
       DEF RollbackGuard, NothingToResolve, StillBuilding, StaleFailure, RollBack,
           Resolved, requestVars
  <2>8. CASE UNCHANGED <<requestVars, rtPc, budget, swapVars, nam, syncVars, outcome>>
    BY <1>1, <2>8 DEF requestVars, swapVars
  <2> QED BY <2>1, <2>2, <2>3, <2>4, <2>5, <2>6, <2>7, <2>8, CallbackFrame
<1> QED BY <1>2, <1>3, <1>4, <1>5, <1>6, <1>7 DEF SharedTypes

-----------------------------------------------------------------------------
(* The generations.                                                        *)
LEMMA GenerationGrows ==
  ASSUME IInv, [Next]_vars
  PROVE  gen' \in Nat /\ gen \in Nat /\ gen <= gen'
<1>1. gen \in Nat BY DEF IInv, TypeOK, SharedTypes
<1> QED BY <1>1, GenerationFrame, SMT DEF Invalidate, AdvanceGeneration

LEMMA StampsStep ==
  ASSUME IInv, [Next]_vars
  PROVE  Stamps'
<1>1. /\ SharedTypes /\ RingTypes /\ LoopTypes /\ Stamps
      /\ gen' \in Nat /\ gen \in Nat /\ gen <= gen'
  BY GenerationGrows DEF IInv, TypeOK
<1>2. job.gen \in Nat /\ failedGen \in Nat BY <1>1, SMT DEF LoopTypes, SharedTypes
<1>3. failedGen' <= gen'
  BY <1>1, <1>2, MarkerFrame, SMT
     DEF Stamps, ClearMarker, BuildSucceeds, BuildFails, NoFailure
<1>4. job'.gen <= gen'
  <2>1. CASE CaptureGeneration
    <3>1. job'.gen = gen
      BY <1>1, <2>1, SMT DEF CaptureGeneration, LoopTypes
    <3> QED BY <1>1, <3>1
  <2>2. CASE CaptureHost
    <3>1. job'.gen = job.gen BY <1>1, <2>2, SMT DEF CaptureHost, LoopTypes
    <3> QED BY <1>1, <1>2, <3>1, SMT DEF Stamps
  <2>3. CASE CaptureNam
    <3>1. job'.gen = job.gen BY <1>1, <2>3, SMT DEF CaptureNam, LoopTypes
    <3> QED BY <1>1, <1>2, <3>1, SMT DEF Stamps
  <2>4. CASE UNCHANGED job BY <1>1, <1>2, <2>4, SMT DEF Stamps
  <2> QED BY <2>1, <2>2, <2>3, <2>4, JobFrame
<1>5. ASSUME NEW i \in DOMAIN ring' PROVE ring'[i].gen <= gen'
  <2>1. CASE DrainResamplers
    <3>1. DOMAIN ring' = {} BY <2>1, SMT DEF DrainResamplers
    <3> QED BY <1>5, <3>1
  <2>2. CASE Push
    <3>1. ring \in Seq(Payloads) BY <1>1 DEF RingTypes, Payloads
    <3>2. job \in Payloads
      <4>1. job \in [gen : Nat, rates : RateTuples] /\ job.rates \in Tuples
        BY <1>1, <2>2 DEF LoopTypes, Push
      <4> QED BY <4>1, SMT DEF Payloads
    <3>3. \/ i \in DOMAIN ring /\ ring'[i] = ring[i]
          \/ ring'[i] = job
      BY <1>5, <2>2, <3>1, <3>2, AppendFacts DEF Push
    <3>4. CASE i \in DOMAIN ring /\ ring'[i] = ring[i]
      <4>1. ring[i] \in Payloads BY <3>1, <3>4, ElementInSet
      <4>2. ring[i].gen \in Nat BY <4>1 DEF Payloads
      <4> QED BY <1>1, <3>4, <4>2, SMT DEF Stamps
    <3>5. CASE ring'[i] = job BY <1>1, <1>2, <3>5, SMT DEF Stamps
    <3> QED BY <3>3, <3>4, <3>5
  <2>3. CASE UNCHANGED ring
    <3>1. ring[i] \in Payloads BY <1>1, <1>5, <2>3, ElementInSet DEF RingTypes, Payloads
    <3>2. ring[i].gen \in Nat BY <3>1 DEF Payloads
    <3> QED BY <1>1, <1>5, <2>3, <3>2, SMT DEF Stamps
  <2> QED BY <2>1, <2>2, <2>3, RingFrame
<1> QED BY <1>3, <1>4, <1>5 DEF Stamps

-----------------------------------------------------------------------------
(* The snapshots: the request changes only while it is being published,    *)
(* and a publication ends with a new generation.                           *)
LEMMA RequestFrame ==
  ASSUME IInv, [Next]_vars, ~Publishing'
  PROVE  \/ gen' = gen + 1 /\ UNCHANGED <<ring, job>>
         \/ gen' = gen /\ UNCHANGED <<reqHost, reqNam>> /\ ~Publishing
<1>1. CASE DrainResamplers BY <1>1 DEF DrainResamplers, requestVars, Publishing
<1>2. CASE \E r \in Rates : LoadModel(r)
  BY <1>2 DEF LoadModel, requestVars, Publishing
<1>3. CASE NoLoadModel \/ SyncRate
  BY <1>3 DEF NoLoadModel, SyncRate, requestVars, Publishing
<1>4. CASE Invalidate BY <1>4 DEF Invalidate, mainVars
<1>5. CASE Disarm BY <1>5 DEF Disarm, requestVars, Publishing
<1>6. CASE StoreHost \/ StoreNam BY <1>6 DEF StoreHost, StoreNam, Publishing
<1>7. CASE AdvanceGeneration BY <1>7 DEF AdvanceGeneration, mainVars
<1>8. CASE Arm \/ RollbackGuard \/ ClearNeeds \/ ClearMarker
  BY <1>8 DEF Arm, RollbackGuard, ClearNeeds, ClearMarker, requestVars, Publishing
<1>9. CASE UNCHANGED <<requestVars, rtPc, budget, swapVars, nam, syncVars, outcome>>
  BY <1>9 DEF requestVars, Publishing
<1> QED BY <1>1, <1>2, <1>3, <1>4, <1>5, <1>6, <1>7, <1>8, <1>9, CallbackFrame

LEMMA RingSnapshotStep ==
  ASSUME IInv, [Next]_vars
  PROVE  RingSnapshot'
<1> SUFFICES ASSUME ~Publishing', NEW i \in DOMAIN ring', ring'[i].gen = gen'
             PROVE  ring'[i].rates = <<reqHost', reqNam'>>
  BY DEF RingSnapshot, Current
<1>1. /\ SharedTypes /\ RingTypes /\ LoopTypes /\ Stamps
      /\ RingSnapshot /\ JobSnapshot
  BY DEF IInv, TypeOK
<1>2. gen \in Nat BY <1>1 DEF SharedTypes
<1>3. ring \in Seq(Payloads) BY <1>1 DEF RingTypes, Payloads
<1>4. CASE gen' = gen + 1 /\ UNCHANGED <<ring, job>>
  <2>1. i \in DOMAIN ring /\ ring[i].gen = gen + 1 BY <1>4
  <2>2. ring[i].gen <= gen BY <1>1, <2>1 DEF Stamps
  <2> QED BY <1>2, <2>1, <2>2, SMT
<1>5. CASE gen' = gen /\ UNCHANGED <<reqHost, reqNam>> /\ ~Publishing
  <2>1. ASSUME i \in DOMAIN ring, ring'[i] = ring[i]
        PROVE  ring'[i].rates = <<reqHost', reqNam'>>
    BY <1>1, <1>5, <2>1 DEF RingSnapshot, Current
  <2>2. CASE DrainResamplers
    <3>1. DOMAIN ring' = {} BY <2>2, SMT DEF DrainResamplers
    <3> QED BY <3>1
  <2>3. CASE Push
    <3>1. job \in [gen : Nat, rates : RateTuples] /\ job.rates \in Tuples
      BY <1>1, <2>3 DEF LoopTypes, Push
    <3>2. job \in Payloads BY <3>1, SMT DEF Payloads
    <3>3. \/ i \in DOMAIN ring /\ ring'[i] = ring[i]
          \/ ring'[i] = job
      BY <2>3, <1>3, <3>2, AppendFacts DEF Push
    <3>4. ASSUME ring'[i] = job
          PROVE  ring'[i].rates = <<reqHost', reqNam'>>
      <4>1. job.gen = gen BY <1>5, <3>4
      <4>2. job.rates[1] = reqHost /\ job.rates[2] = reqNam
        BY <1>1, <1>5, <2>3, <4>1 DEF JobSnapshot, Push
      <4>3. job.rates = <<job.rates[1], job.rates[2]>> BY <3>1, SMT DEF Tuples
      <4> QED BY <1>5, <3>4, <4>2, <4>3
    <3> QED BY <2>1, <3>3, <3>4
  <2>4. CASE UNCHANGED ring BY <2>1, <2>4
  <2> QED BY <2>2, <2>3, <2>4, RingFrame
<1> QED BY <1>4, <1>5, RequestFrame

LEMMA JobSnapshotStep ==
  ASSUME IInv, [Next]_vars
  PROVE  JobSnapshot'
<1> SUFFICES ASSUME ~Publishing', job'.gen = gen'
             PROVE  /\ mainPc' \in {"nam", "build", "push"} => job'.rates[1] = reqHost'
                    /\ mainPc' \in {"build", "push"} => job'.rates[2] = reqNam'
  BY DEF JobSnapshot
<1>1. SharedTypes /\ LoopTypes /\ Stamps /\ JobSnapshot BY DEF IInv, TypeOK
<1>2. gen \in Nat /\ job.gen \in Nat BY <1>1, SMT DEF SharedTypes, LoopTypes
<1>3. CASE gen' = gen + 1 /\ UNCHANGED <<ring, job>>
  BY <1>1, <1>2, <1>3, SMT DEF Stamps
<1>4. CASE gen' = gen /\ UNCHANGED <<reqHost, reqNam>> /\ ~Publishing
  <2> USE <1>1, <1>4
  <2>1. job \in [gen : Nat, rates : RateTuples] BY DEF LoopTypes
  <2>2. CASE CheckNeeds BY <2>2 DEF CheckNeeds
  <2>3. CASE CaptureGeneration BY <2>3 DEF CaptureGeneration
  <2>4. CASE CaptureHost
    <3>1. job'.rates[1] = reqHost BY <2>1, <2>4, SMT DEF CaptureHost, RateTuples
    <3> QED BY <2>4, <3>1 DEF CaptureHost
  <2>5. CASE CaptureNam
    <3>1. /\ job'.rates[2] = reqNam /\ job'.rates[1] = job.rates[1]
          /\ job'.gen = job.gen
      BY <2>1, <2>5, SMT DEF CaptureNam, RateTuples
    <3>2. job.rates[1] = reqHost BY <2>5, <3>1 DEF CaptureNam, JobSnapshot
    <3> QED BY <3>1, <3>2
  <2>6. CASE BuildSucceeds BY <2>6, SMT DEF BuildSucceeds, JobSnapshot
  <2>7. CASE BuildFails BY <2>7 DEF BuildFails
  <2>8. CASE Push BY <2>8 DEF Push
  <2>9. CASE PushFull BY <2>9 DEF PushFull
  <2>10. CASE ClearRequest \/ RearmIfSuperseded
    BY <2>10 DEF ClearRequest, RearmIfSuperseded
  <2>11. CASE UNCHANGED mainVars BY <2>11 DEF mainVars, JobSnapshot
  <2> QED
    BY <2>2, <2>3, <2>4, <2>5, <2>6, <2>7, <2>8, <2>9, <2>10, <2>11, LoopFrame
<1> QED BY <1>3, <1>4, RequestFrame

-----------------------------------------------------------------------------
(* The mute.                                                               *)
LEMMA ResolutionStep ==
  ASSUME IInv, [Next]_vars
  PROVE  Resolution'
<1>1. Resolution /\ RingTypes /\ SharedTypes BY DEF IInv, TypeOK
<1> USE DEF Resolution
<1>2. CASE DrainResamplers
  <2>1. CASE \E i \in Current : Install(i)
    <3>1. PICK i \in Current : Install(i) BY <2>1
    <3> QED BY <1>1, <1>2, <3>1, InstallFacts
            DEF DrainResamplers, Install, Resolved, requestVars
  <2>2. CASE Current = {} /\ budget' = 1 /\ UNCHANGED swapVars
    BY <1>1, <1>2, <2>2 DEF DrainResamplers, swapVars, requestVars
  <2> QED BY <1>2, <2>1, <2>2 DEF DrainResamplers
<1>3. CASE \E r \in Rates : LoadModel(r)
  BY <1>1, <1>3 DEF LoadModel, swapVars, requestVars
<1>4. CASE NoLoadModel BY <1>1, <1>4 DEF NoLoadModel, swapVars, requestVars
<1>5. CASE SyncRate BY <1>1, <1>5 DEF SyncRate, swapVars, requestVars
<1>6. CASE Invalidate BY <1>1, <1>6 DEF Invalidate, Resolved
<1>7. CASE Disarm BY <1>1, <1>7 DEF Disarm, swapVars, requestVars
<1>8. CASE StoreHost \/ StoreNam BY <1>1, <1>8 DEF StoreHost, StoreNam, swapVars
<1>9. CASE AdvanceGeneration BY <1>9 DEF AdvanceGeneration
<1>10. CASE Arm BY <1>1, <1>10 DEF Arm
<1>11. CASE RollbackGuard
  BY <1>1, <1>11
     DEF RollbackGuard, NothingToResolve, StillBuilding, StaleFailure, RollBack,
         Resolved, requestVars
<1>12. CASE ClearNeeds \/ ClearMarker
  BY <1>1, <1>12 DEF ClearNeeds, ClearMarker, swapVars, requestVars
<1>13. CASE UNCHANGED <<requestVars, rtPc, budget, swapVars, nam, syncVars, outcome>>
  BY <1>1, <1>13 DEF swapVars, requestVars
<1> QED
  BY <1>2, <1>3, <1>4, <1>5, <1>6, <1>7, <1>8, <1>9, <1>10, <1>11, <1>12, <1>13,
     CallbackFrame

LEMMA WantsStep ==
  ASSUME IInv, [Next]_vars
  PROVE  Wants'
<1>1. Wants /\ Stamps /\ SharedTypes BY DEF IInv, TypeOK
<1> USE DEF Wants, Target, WantedOrGivenUp
<1>2. CASE DrainResamplers BY <1>2 DEF DrainResamplers
<1>3. CASE \E r \in Rates : LoadModel(r) BY <1>3 DEF LoadModel
<1>4. CASE NoLoadModel BY <1>4 DEF NoLoadModel
<1>5. CASE SyncRate
  <2>1. Wanted = <<desired', nam'>> /\ active' = active /\ pending' = pending
    BY <1>5 DEF SyncRate, Wanted, swapVars
  <2>2. CASE AtActive BY <2>1, <2>2 DEF AtActive
  <2>3. CASE KeepWaiting
    <3>1. Known BY <1>1, WantedType, RateAssumption DEF IInv, TypeOK, Known,
                   CallbackTypes, NoRate
    <3>2. rtPc' = "guard" BY <2>3 DEF KeepWaiting
    <3>3. CASE GaveUp BY <2>1, <2>3, <3>2, <3>3 DEF KeepWaiting, GaveUp
    <3>4. CASE InFlight BY <2>1, <2>3, <3>2, <3>4 DEF KeepWaiting, InFlight
    <3> QED BY <2>3, <3>1, <3>3, <3>4 DEF KeepWaiting
  <2>4. CASE StartRequest BY <2>1, <2>4 DEF StartRequest
  <2> QED BY <1>5, <2>2, <2>3, <2>4 DEF SyncRate
<1>6. CASE Invalidate BY <1>1, <1>6 DEF Invalidate, syncVars
<1>7. CASE Disarm BY <1>1, <1>7 DEF Disarm, syncVars, swapVars
<1>8. CASE StoreHost BY <1>1, <1>8 DEF StoreHost, syncVars
<1>9. CASE StoreNam BY <1>1, <1>9 DEF StoreNam, syncVars
<1>10. CASE AdvanceGeneration BY <1>1, <1>10 DEF AdvanceGeneration, syncVars
<1>11. CASE Arm BY <1>1, <1>11 DEF Arm, syncVars
<1>12. CASE RollbackGuard
  <2> USE DEF RollbackGuard
  <2>1. WantedOrGivenUp \/ (pending /\ last = Target) BY <1>1, <1>12
  <2>2. CASE NothingToResolve
    <3>1. ~(failedGen > gen) BY <1>1, SMT DEF Stamps, SharedTypes
    <3> QED BY <1>12, <2>1, <2>2, <3>1 DEF NothingToResolve
  <2>3. CASE StillBuilding BY <1>12, <2>3 DEF StillBuilding
  <2>4. CASE StaleFailure BY <1>12, <2>4 DEF StaleFailure
  <2>5. CASE RollBack
    <3>1. CASE active = Target BY <1>12, <2>5, <3>1 DEF RollBack
    <3>2. CASE last = Target BY <1>12, <2>5, <3>2 DEF RollBack
    <3>3. failedRates = Target => last = Target
      <4>1. desired # NoRate
        BY RateAssumption DEF IInv, TypeOK, CallbackTypes, NoRate
      <4>2. Target # NoRates BY <4>1 DEF NoRates
      <4>3. failedRates = NoRates \/ failedRates = last
        BY <1>12, <2>5 DEF IInv, Filed, RollBack
      <4> QED BY <4>2, <4>3
    <3> QED BY <2>1, <3>1, <3>2, <3>3
  <2> QED BY <1>12, <2>2, <2>3, <2>4, <2>5
<1>13. CASE ClearNeeds BY <1>1, <1>13 DEF ClearNeeds, syncVars, swapVars
<1>14. CASE ClearMarker BY <1>1, <1>14 DEF ClearMarker, syncVars, swapVars
<1>15. CASE UNCHANGED <<requestVars, rtPc, budget, swapVars, nam, syncVars, outcome>>
  BY <1>1, <1>15 DEF swapVars, syncVars
<1> QED
  BY <1>2, <1>3, <1>4, <1>5, <1>6, <1>7, <1>8, <1>9, <1>10, <1>11, <1>12, <1>13,
     <1>14, <1>15, CallbackFrame

LEMMA FiledStep ==
  ASSUME IInv, [Next]_vars
  PROVE  Filed'
<1>1. Filed BY DEF IInv
<1> USE DEF Filed
<1>2. CASE DrainResamplers
  <2>1. CASE \E i \in Current : Install(i)
    BY <1>2, <2>1 DEF DrainResamplers, Install, Resolved
  <2>2. CASE Current = {} /\ budget' = 1 /\ UNCHANGED swapVars
    BY <1>1, <1>2, <2>2 DEF DrainResamplers, swapVars, syncVars
  <2> QED BY <1>2, <2>1, <2>2 DEF DrainResamplers
<1>3. CASE \E r \in Rates : LoadModel(r)
  BY <1>1, <1>3 DEF LoadModel, swapVars, syncVars
<1>4. CASE NoLoadModel BY <1>1, <1>4 DEF NoLoadModel, swapVars, syncVars
<1>5. CASE SyncRate
  <2> USE DEF SyncRate, ForgetFailure, KeepFailure, swapVars
  <2>1. CASE AtActive BY <1>1, <1>5, <2>1 DEF AtActive
  <2>2. CASE KeepWaiting BY <1>1, <1>5, <2>2 DEF KeepWaiting
  <2>3. CASE StartRequest BY <1>1, <1>5, <2>3 DEF StartRequest
  <2> QED BY <1>5, <2>1, <2>2, <2>3
<1>6. CASE Invalidate BY <1>6 DEF Invalidate, Resolved
<1>7. CASE Disarm BY <1>1, <1>7 DEF Disarm, swapVars, syncVars
<1>8. CASE StoreHost BY <1>1, <1>8 DEF StoreHost, swapVars, syncVars
<1>9. CASE StoreNam BY <1>1, <1>9 DEF StoreNam, swapVars, syncVars
<1>10. CASE AdvanceGeneration
  BY <1>1, <1>10 DEF AdvanceGeneration, swapVars, syncVars
<1>11. CASE Arm BY <1>1, <1>11 DEF Arm, syncVars
<1>12. CASE RollbackGuard
  BY <1>1, <1>12
     DEF RollbackGuard, NothingToResolve, StillBuilding, StaleFailure, RollBack,
         Resolved
<1>13. CASE ClearNeeds \/ ClearMarker
  BY <1>1, <1>13 DEF ClearNeeds, ClearMarker, swapVars, syncVars
<1>14. CASE UNCHANGED <<requestVars, rtPc, budget, swapVars, nam, syncVars, outcome>>
  BY <1>1, <1>14 DEF swapVars, syncVars
<1> QED
  BY <1>2, <1>3, <1>4, <1>5, <1>6, <1>7, <1>8, <1>9, <1>10, <1>11, <1>12, <1>13,
     <1>14, CallbackFrame

-----------------------------------------------------------------------------
LEMMA InvStep ==
  ASSUME IInv, [Next]_vars
  PROVE  IInv'
  BY SharedTypesStep, RingTypesStep, CallbackTypesStep, LoopTypesStep, StampsStep,
     RingSnapshotStep, JobSnapshotStep, ResolutionStep, WantsStep, FiledStep
     DEF IInv, TypeOK

LEMMA Invariance == Spec => []IInv
  BY InvInit, InvStep, PTL DEF Spec

(* In every reachable state the fields have their types, whatever the      *)
(* rates, the ring capacity and the bounds are (the fields of              *)
(* RateSyncState and of the shared status flags).                          *)
THEOREM TypeCorrect == Spec => []TypeOK
<1>1. IInv => TypeOK BY DEF IInv
<1> QED BY <1>1, Invariance, PTL

(* Whenever the callback is between two quanta and not muted, the latest   *)
(* requested generation is the applied one (rt_quantum_prologue, the       *)
(* invariant its rollback states).                                         *)
THEOREM UnmutedResolved == Spec => []UnmutedIsResolved
<1>1. IInv => UnmutedIsResolved BY DEF IInv, Resolution, UnmutedIsResolved
<1> QED BY <1>1, Invariance, PTL

(* A callback that lets audio through runs at the rates it wants, or has   *)
(* given them up after a failed build (sync_rate and the rollback guard).  *)
THEOREM WantedRates == Spec => []ProceedsAtWantedRates
<1>1. IInv => ProceedsAtWantedRates
  BY DEF IInv, Wants, WantedOrGivenUp, Target, ProceedsAtWantedRates
<1> QED BY <1>1, Invariance, PTL

(* The resampler that the drain installs was built for exactly the two     *)
(* rates of the latest request, although the control loop reads them and   *)
(* the generation one by one while the callback may be replacing them      *)
(* (handle_resampler_rebuild, the drain of resampler_swap.rs).             *)
THEOREM SnapshotIsOfOneRequest == Spec => InstalledAsRequested
<1>1. ASSUME IInv, [Next]_vars
      PROVE  active' # active => active' = <<reqHost, reqNam>>
  <2>1. CASE DrainResamplers
    <3>1. CASE \E i \in Current : Install(i)
      <4>1. PICK i \in Current : Install(i) BY <3>1
      <4>2. ~Publishing BY <2>1 DEF DrainResamplers, Publishing
      <4>3. ring[i].rates = <<reqHost, reqNam>>
        BY <1>1, <4>1, <4>2 DEF IInv, RingSnapshot
      <4> QED BY <4>1, <4>3 DEF Install
    <3>2. CASE Current = {} /\ budget' = 1 /\ UNCHANGED swapVars
      BY <3>2 DEF swapVars
    <3> QED BY <2>1, <3>1, <3>2 DEF DrainResamplers
  <2>2. CASE (\E r \in Rates : LoadModel(r)) \/ NoLoadModel \/ SyncRate
    BY <2>2 DEF LoadModel, NoLoadModel, SyncRate, swapVars
  <2>3. CASE Invalidate \/ Disarm \/ StoreHost \/ StoreNam \/ AdvanceGeneration
    BY <2>3 DEF Invalidate, Disarm, StoreHost, StoreNam, AdvanceGeneration, swapVars
  <2>4. CASE Arm \/ RollbackGuard \/ ClearNeeds \/ ClearMarker
    BY <2>4 DEF Arm, RollbackGuard, ClearNeeds, ClearMarker, swapVars
  <2>5. CASE UNCHANGED <<requestVars, rtPc, budget, swapVars, nam, syncVars, outcome>>
    BY <2>5 DEF swapVars
  <2> QED BY <1>1, <2>1, <2>2, <2>3, <2>4, <2>5, CallbackFrame
<1>2. IInv /\ [Next]_vars
        => [active' # active => active' = <<reqHost, reqNam>>]_vars
  BY <1>1
<1> QED BY <1>2, Invariance, PTL DEF Spec, InstalledAsRequested

-----------------------------------------------------------------------------
(* Who answers a muted callback.                                           *)

(* Muted, the callback waits for the flag, for a handler that has yet to   *)
(* notice that it is late, for a payload or for the failure marker.        *)
Served ==
    pending /\ rtPc # "arm" =>
        \/ needs
        \/ mainPc = "rearm" /\ job.gen # gen
        \/ Current # {}
        \/ failedGen = gen

(* A handler about to clear the flag has answered the current request, or  *)
(* the callback is past it.                                                *)
Answered ==
    mainPc = "clear" /\ job.gen = gen /\ (pending \/ rtPc = "arm") =>
        Current # {} \/ failedGen = gen

(* Nobody but the handler, at its end, takes the flag from a muted         *)
(* callback.                                                               *)
Flagged == pending /\ mainPc \notin {"idle", "rearm"} => needs

Releases ==
    /\ rtPc \in {"disarm", "clearNeeds"} => ~pending
    /\ rtPc = "clearMarker" /\ pending => outcome = "skip"

ServedInv == Served /\ Answered /\ Flagged /\ Releases

(* With at most one failing build, a marker that the guard found stale is  *)
(* still stale when it is cleared.                                         *)
MarkerInv ==
    /\ failedGen # NoFailure => failures > 0
    /\ rtPc = "clearMarker" /\ outcome = "skip" => failures > 0 /\ failedGen < gen
    /\ rtPc = "clearNeeds" => outcome = "proceed"

LEMMA ServedInit == Init => ServedInv /\ MarkerInv
  BY SMT DEF Init, ServedInv, Served, Answered, Flagged, Releases, MarkerInv, NoFailure

(* A new generation leaves every handler behind.                           *)
LEMMA ServedStep ==
  ASSUME IInv, ServedInv, [Next]_vars,
         ClearMarker /\ outcome = "skip" => failedGen # gen
  PROVE  ServedInv'
<1> USE DEF ServedInv, requestVars, syncVars, swapVars, rtVars, mainVars
<1>1. /\ Served /\ Answered /\ Flagged /\ Releases
      /\ gen \in Nat /\ failedGen <= gen /\ failedGen \in Nat /\ job.gen <= gen /\ job.gen \in Nat
      /\ RingTypes
  BY DEF IInv, TypeOK, SharedTypes, LoopTypes, Stamps
<1>2. CASE DrainResamplers
  <2>1. rtPc' = "commands" /\ UNCHANGED <<gen, needs, failedGen, mainPc, job, outcome>>
    BY <1>2 DEF DrainResamplers
  <2>2. CASE \E i \in Current : Install(i)
    <3>1. ~pending' BY <2>2 DEF Install, Resolved
    <3> QED BY <2>1, <3>1 DEF Served, Answered, Flagged, Releases
  <2>3. CASE Current = {} /\ UNCHANGED pending
    <3>1. rtPc = "idle" BY <1>2 DEF DrainResamplers
    <3> QED BY <1>1, <2>1, <2>3, <3>1 DEF Served, Answered, Flagged, Releases
  <2> QED BY <1>2, <2>2, <2>3 DEF DrainResamplers
<1>3. CASE /\ UNCHANGED <<needs, mainPc, job, ring, failedGen, gen, pending>>
           /\ rtPc # "arm" /\ rtPc' \notin {"arm", "disarm", "clearNeeds", "clearMarker"}
  BY <1>1, <1>3 DEF Served, Answered, Flagged, Releases, Current
<1>4. CASE (\E r \in Rates : LoadModel(r)) \/ NoLoadModel \/ SyncRate \/ StoreHost \/ StoreNam
  <2>1. UNCHANGED <<needs, mainPc, job, ring, failedGen, gen, pending>>
    BY <1>4 DEF LoadModel, NoLoadModel, SyncRate, StoreHost, StoreNam
  <2>2. rtPc # "arm" /\ rtPc' \notin {"arm", "disarm", "clearNeeds", "clearMarker"}
    BY <1>4 DEF LoadModel, NoLoadModel, SyncRate, StoreHost, StoreNam, AtActive, KeepWaiting,
       StartRequest
  <2> QED BY <1>3, <2>1, <2>2
<1>5. CASE Invalidate
  <2>1. ~pending' /\ rtPc' = "disarm" BY <1>5 DEF Invalidate, Resolved
  <2> QED BY <2>1 DEF Served, Answered, Flagged, Releases
<1>6. CASE Disarm
  <2>1. ~pending' /\ rtPc' = "guard" BY <1>1, <1>6 DEF Disarm, Releases
  <2> QED BY <2>1 DEF Served, Answered, Flagged, Releases
<1>7. CASE AdvanceGeneration
  <2>1. /\ rtPc' = "arm" /\ gen' = gen + 1 /\ UNCHANGED <<job, needs, mainPc, pending>>
    BY <1>7 DEF AdvanceGeneration
  <2>2. job'.gen # gen' BY <1>1, <2>1, SMT
  <2> QED BY <1>1, <2>1, <2>2 DEF Served, Answered, Flagged, Releases
<1>8. CASE Arm
  <2>1. /\ rtPc = "arm" /\ rtPc' = "guard" /\ needs' /\ UNCHANGED <<job, mainPc, ring, failedGen, gen>>
    BY <1>8 DEF Arm
  <2> QED BY <1>1, <2>1 DEF Served, Answered, Flagged, Releases, Current
<1>9. CASE RollbackGuard
  <2>1. /\ rtPc = "guard" /\ UNCHANGED <<needs, mainPc, job, ring, failedGen, gen>>
        /\ rtPc' \in {"idle", "clearMarker", "clearNeeds"} /\ (pending' => pending)
        /\ rtPc' = "clearNeeds" => ~pending'
        /\ rtPc' = "clearMarker" => outcome' = "skip"
    BY <1>9 DEF RollbackGuard, NothingToResolve, StillBuilding, StaleFailure, RollBack, Resolved
  <2> QED BY <1>1, <2>1 DEF Served, Answered, Flagged, Releases, Current
<1>10. CASE ClearNeeds
  <2>1. ~pending' /\ rtPc' = "clearMarker" BY <1>1, <1>10 DEF ClearNeeds, Releases
  <2> QED BY <2>1 DEF Served, Answered, Flagged, Releases
<1>11. CASE ClearMarker
  <2>1. /\ rtPc = "clearMarker" /\ rtPc' = "idle"
        /\ UNCHANGED <<needs, mainPc, job, ring, gen, pending>>
    BY <1>11 DEF ClearMarker
  <2>2. pending => failedGen # gen BY <1>1, <1>11, <2>1 DEF Releases
  <2> QED BY <1>1, <2>1, <2>2 DEF Served, Answered, Flagged, Releases, Current
<1>12. CASE CheckNeeds
  BY <1>1, <1>12 DEF CheckNeeds, Served, Answered, Flagged, Releases, Current
<1>13. CASE CaptureGeneration \/ CaptureHost \/ CaptureNam
  <2>1. /\ UNCHANGED <<rtPc, outcome, pending, gen, ring, failedGen, needs>>
        /\ mainPc \in {"generation", "host", "nam"} /\ mainPc' \in {"host", "nam", "build", "idle"}
    BY <1>13 DEF CaptureGeneration, CaptureHost, CaptureNam
  <2> QED BY <1>1, <2>1 DEF Served, Answered, Flagged, Releases, Current
<1>14. CASE BuildSucceeds
  <2>1. /\ mainPc = "build" /\ mainPc' = "push" /\ UNCHANGED <<rtPc, outcome, pending, needs>>
    BY <1>14 DEF BuildSucceeds
  <2> QED BY <1>1, <2>1 DEF Served, Answered, Flagged, Releases
<1>15. CASE BuildFails
  <2>1. /\ mainPc = "build" /\ mainPc' = "clear" /\ failedGen' = job.gen
        /\ UNCHANGED <<rtPc, outcome, pending, needs, job, gen>>
    BY <1>15 DEF BuildFails
  <2> QED BY <1>1, <2>1 DEF Served, Answered, Flagged, Releases
<1>16. CASE Push
  <2>1. /\ mainPc = "push" /\ mainPc' = "clear" /\ ring' = Append(ring, job)
        /\ UNCHANGED <<rtPc, outcome, pending, needs, job, gen>>
    BY <1>16 DEF Push
  <2>2. job.gen = gen => Current' # {}
    <3>1. job \in Payloads
      BY <2>1 DEF IInv, TypeOK, LoopTypes, Payloads
    <3>2. ring \in Seq(Payloads) BY <1>1 DEF RingTypes, Payloads
    <3>3. Len(ring) + 1 \in DOMAIN ring' /\ ring'[Len(ring) + 1] = job
      BY <2>1, <3>1, <3>2, SMT
    <3> QED BY <2>1, <3>3, Zenon DEF Current
  <2> QED BY <1>1, <2>1, <2>2 DEF Served, Answered, Flagged, Releases
<1>17. CASE PushFull
  <2>1. /\ mainPc = "push" /\ mainPc' = "idle"
        /\ UNCHANGED <<rtPc, outcome, pending, needs, job, gen, ring, failedGen>>
    BY <1>17 DEF PushFull
  <2> QED BY <1>1, <2>1 DEF Served, Answered, Flagged, Releases
<1>18. CASE ClearRequest
  <2>1. /\ mainPc = "clear" /\ mainPc' = "rearm"
        /\ UNCHANGED <<rtPc, outcome, pending, job, gen, ring, failedGen>>
    BY <1>18 DEF ClearRequest
  <2> QED BY <1>1, <2>1 DEF Served, Answered, Flagged, Releases, Current
<1>19. CASE RearmIfSuperseded
  <2>1. /\ mainPc = "rearm" /\ mainPc' = "idle"
        /\ job.gen # gen => needs'
        /\ job.gen = gen => UNCHANGED needs
        /\ UNCHANGED <<rtPc, outcome, pending, job, gen, ring, failedGen>>
    BY <1>19 DEF RearmIfSuperseded, Superseded
  <2> QED BY <1>1, <2>1 DEF Served, Answered, Flagged, Releases, Current
<1>20. CASE \E r \in Rates : Negotiate(r)
  BY <1>1, <1>20 DEF Negotiate, Served, Answered, Flagged, Releases, Current
<1>21. CASE UNCHANGED vars
  BY <1>1, <1>21 DEF vars, Served, Answered, Flagged, Releases, Current
<1> QED
  BY <1>2, <1>4, <1>5, <1>6, <1>7, <1>8, <1>9, <1>10, <1>11, <1>12, <1>13, <1>14, <1>15,
     <1>16, <1>17, <1>18, <1>19, <1>20, <1>21, StepCases

LEMMA MarkerStep ==
  ASSUME MaxFailures <= 1, IInv, MarkerInv, [Next]_vars
  PROVE  MarkerInv'
<1> USE DEF MarkerInv
<1>1. /\ gen \in Nat /\ failedGen \in Nat /\ failures \in Nat /\ failures <= MaxFailures
      /\ MaxFailures \in {0, 1}
  <2>1. gen \in Nat /\ failedGen \in Nat /\ failures \in 0 .. MaxFailures
    BY DEF IInv, TypeOK, SharedTypes, LoopTypes
  <2>2. MaxFailures \in {0, 1} BY BoundAssumption, SMT
  <2> QED BY <2>1, <2>2, SMT
<1>2. gen' \in Nat /\ gen' >= gen /\ failures' \in Nat /\ failures' >= failures
  <2>1. gen' = gen \/ gen' = gen + 1
    BY GenerationFrame DEF Invalidate, AdvanceGeneration
  <2>2. failures' = failures \/ failures' = failures + 1
    BY LoopFrame DEF CheckNeeds, CaptureGeneration, CaptureHost, CaptureNam, BuildSucceeds,
       BuildFails, Push, PushFull, ClearRequest, RearmIfSuperseded, mainVars
  <2> QED BY <1>1, <2>1, <2>2, SMT
<1>3. CASE BuildFails
  <2>1. failures = 0 /\ failures' = 1 BY <1>1, <1>3, SMT DEF BuildFails
  <2>2. UNCHANGED <<rtPc, outcome>> BY <1>3 DEF BuildFails, rtVars
  <2> QED BY <2>1, <2>2, SMT
<1>4. CASE BuildSucceeds \/ ClearMarker
  <2>1. failedGen' = 0 BY <1>4 DEF BuildSucceeds, ClearMarker, NoFailure
  <2>2. /\ rtPc' = "clearMarker" => rtPc = "clearMarker" /\ UNCHANGED outcome
        /\ rtPc' = "clearNeeds" => rtPc = "clearNeeds" /\ UNCHANGED outcome
    BY <1>4 DEF BuildSucceeds, ClearMarker, rtVars, requestVars
  <2>3. rtPc = "clearMarker" /\ outcome = "skip" => gen > 0 /\ failures > 0
    BY <1>1, SMT
  <2> QED BY <1>1, <1>2, <2>1, <2>2, <2>3, SMT DEF NoFailure
<1>5. CASE ~BuildFails /\ ~BuildSucceeds /\ ~ClearMarker
  <2>1. UNCHANGED failedGen BY <1>5, MarkerFrame
  <2>2. failedGen' # NoFailure => failures' > 0
    BY <1>1, <1>2, <2>1, SMT
  <2>3. CASE RollbackGuard
    <3>1. /\ rtPc' = "clearMarker" => failedGen # NoFailure /\ failedGen < gen
          /\ rtPc' = "clearNeeds" => outcome' = "proceed"
      BY <2>3 DEF RollbackGuard, NothingToResolve, StillBuilding, StaleFailure, RollBack
    <3> QED BY <1>1, <1>2, <2>1, <2>2, <3>1, SMT
  <2>4. CASE ~RollbackGuard
    <3>1. /\ rtPc' = "clearMarker" => rtPc \in {"clearMarker", "clearNeeds"}
          /\ rtPc' = "clearNeeds" => rtPc = "clearNeeds"
          /\ UNCHANGED outcome
      <4>1. \/ (\E r \in Rates : LoadModel(r)) \/ NoLoadModel \/ DrainResamplers \/ Arm
            \/ SyncRate \/ Invalidate \/ Disarm \/ StoreHost \/ StoreNam \/ AdvanceGeneration
            \/ ClearNeeds \/ UNCHANGED <<rtPc, outcome>>
        BY <1>5, <2>4, CallbackFrame
      <4> QED
        BY <4>1
           DEF DrainResamplers, LoadModel, NoLoadModel, SyncRate, Invalidate, Disarm, StoreHost,
               StoreNam, AdvanceGeneration, Arm, ClearNeeds, AtActive, KeepWaiting, StartRequest
    <3>2. rtPc' = "clearMarker" /\ outcome' = "skip" => rtPc = "clearMarker" /\ outcome = "skip"
      BY <3>1
    <3> QED BY <1>1, <1>2, <2>1, <2>2, <3>1, <3>2, SMT
  <2> QED BY <2>3, <2>4
<1> QED BY <1>3, <1>4, <1>5

-----------------------------------------------------------------------------
(* A muted callback always has somebody at work for it, however the        *)
(* threads interleave and however many builds fail, provided that the      *)
(* guard drops no failure marker of the current generation: the lost       *)
(* marker is the only way to a mute that nobody ends (sync_rate,           *)
(* handle_resampler_rebuild, the rollback guard).                          *)
THEOREM MutedIsServed == Spec /\ OnlyStaleMarkersDropped => []PendingIsServed
<1>1. Init => IInv /\ ServedInv BY InvInit, ServedInit
<1>2. IInv /\ ServedInv /\ [Next]_vars
        /\ [ClearMarker /\ outcome = "skip" => failedGen # gen]_vars
      => IInv' /\ ServedInv'
  <2> SUFFICES ASSUME IInv, ServedInv, [Next]_vars,
                      [ClearMarker /\ outcome = "skip" => failedGen # gen]_vars
               PROVE  IInv' /\ ServedInv'
    OBVIOUS
  <2>1. CASE UNCHANGED vars
    <3>1. ~ClearMarker BY <2>1 DEF vars, ClearMarker
    <3> QED BY <3>1, InvStep, ServedStep
  <2>2. CASE ClearMarker /\ outcome = "skip" => failedGen # gen
    BY <2>2, InvStep, ServedStep
  <2> QED BY <2>1, <2>2
<1>3. IInv /\ ServedInv => PendingIsServed
  BY DEF ServedInv, Served, PendingIsServed
<1> QED BY <1>1, <1>2, <1>3, PTL DEF Spec, OnlyStaleMarkersDropped

(* With at most one failing build no marker is dropped by mistake: a       *)
(* second failure has to land between the guard's look at the marker and   *)
(* its clearing.                                                           *)
THEOREM OneFailureIsKept ==
  ASSUME MaxFailures <= 1
  PROVE  Spec => OnlyStaleMarkersDropped
<1>1. Init => IInv /\ MarkerInv BY InvInit, ServedInit
<1>2. IInv /\ MarkerInv /\ [Next]_vars => IInv' /\ MarkerInv'
  BY InvStep, MarkerStep
<1>3. IInv /\ MarkerInv => (ClearMarker /\ outcome = "skip" => failedGen # gen)
  BY SMT DEF IInv, TypeOK, SharedTypes, MarkerInv, ClearMarker
<1> QED BY <1>1, <1>2, <1>3, PTL DEF Spec, OnlyStaleMarkersDropped

(* so that a muted callback is then always served.                         *)
THEOREM PendingServed ==
  ASSUME MaxFailures <= 1
  PROVE  Spec => []PendingIsServed
BY OneFailureIsKept, MutedIsServed, PTL

=============================================================================
