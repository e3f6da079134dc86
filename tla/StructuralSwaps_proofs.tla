------------------------ MODULE StructuralSwaps_proofs ------------------------
(***************************************************************************)
(* What TLAPS proves of StructuralSwaps, for every set of rates, widths    *)
(* and factors, every capacity and every bound.                            *)
(***************************************************************************)
EXTENDS StructuralSwaps, TLAPS

(***************************************************************************)
(* The inductive invariant.                                                *)
(***************************************************************************)

Values(f) == CASE f = "cab" -> Rates [] f = "slim" -> Widths [] f = "os" -> Factors
Envelopes == [gen : Nat, pair : Nat \X Nat]
Commands == [kind : {"model", "gain", "os"}, value : Nat]

RequestTypes ==
    /\ asked \in [Families -> Nat] /\ gen \in [Families -> Nat]
    /\ needs \in [Families -> BOOLEAN]

PairTypes ==
    /\ ring \in [Families -> Seq(Envelopes)] /\ applied \in [Families -> Nat]
    /\ active \in [Families -> Nat \X Nat] /\ failed \in [Families -> Nat]

CommandTypes ==
    /\ params \in Seq(Commands) /\ latest \in [model : Nat, gain : Nat]
    /\ model \in Nat /\ gain \in Nat /\ candidate \in Nat /\ pops \in 0 .. ParamBudget
    /\ \A i \in 1 .. Len(params) :
          /\ params[i].kind = "os" => params[i].value \in Factors
          /\ params[i].kind = "model" => params[i].value # None

StepTypes ==
    /\ rtPc \in {"idle", "drain cab", "commands", "advance os", "arm os", "adapt",
                 "advance slim", "arm slim", "drain slim", "drain os", "check",
                 "advance cab", "arm cab"}
    /\ budget \in {0, 1} /\ muted \in BOOLEAN /\ hostRate \in Rates
    /\ mainPc \in {"check", "first", "second", "build", "clear", "withdraw", "rearm", "release"}
    /\ job \in [family : Families, gen : Nat \cup {NotRead}, value : Nat]

GarbageTypes ==
    /\ gc \in Nat /\ gc <= GcCapacity /\ lot \in Nat /\ lot <= LotSize
    /\ overflow \in Nat /\ dirty \in BOOLEAN /\ (lot > 0 => dirty)
    /\ made \in Nat /\ released \in Nat /\ events \in Nat /\ faults \in Nat

Types == RequestTypes /\ PairTypes /\ CommandTypes /\ StepTypes /\ GarbageTypes

(* A request that is out carries a value of its family.                    *)
Requested ==
    \A f \in Families :
        /\ gen[f] > 0 \/ rtPc \in {Advancing[f], Arming[f]} => asked[f] \in Values(f)
        /\ needs[f] \/ rtPc = Arming[f] => gen[f] > 0

(* The handler works on a request that was made.                           *)
JobInv ==
    /\ mainPc \in {"first", "second", "build", "clear", "withdraw", "rearm"} => gen[job.family] > 0
    /\ mainPc = "second" /\ GenerationFirst(job.family) => job.gen \in 1 .. gen[job.family]
    /\ mainPc = "second" /\ ~GenerationFirst(job.family) => job.value \in Values(job.family)
    /\ mainPc = "build" => /\ job.gen \in 1 .. gen[job.family]
                           /\ job.value \in Values(job.family)

(* What is on its way or in use is buildable and not of the future.        *)
Stamps ==
    \A f \in Families :
        /\ active[f] \in Pairs(f) /\ applied[f] <= gen[f]
        /\ Len(ring[f]) <= RingCapacity
        /\ \A i \in 1 .. Len(ring[f]) : ring[f][i].gen \in 1 .. gen[f] /\ ring[f][i].pair \in Pairs(f)

(* What is stamped with the current generation answers the current value,  *)
(* except while that value is being replaced.                              *)
Answer(f) == IF f = "cab" /\ asked[f] \in BadRates THEN NoPair ELSE Twin(asked[f])

Snapshot ==
    \A f \in {"cab", "os"} : ~Publishing(f) =>
        /\ \A i \in 1 .. Len(ring[f]) : ring[f][i].gen = gen[f] => ring[f][i].pair = Answer(f)
        /\ mainPc = "build" /\ job.family = f /\ job.gen = gen[f] => job.value = asked[f]

(* A command that is the last of its kind in the queue is the latest sent; *)
(* with none left in the queue the latest is with the callback.            *)
Superseding(i) == \E j \in 1 .. Len(params) : i < j /\ params[j].kind = params[i].kind
Loading == IF candidate # None THEN candidate ELSE model

LastQueued ==
    /\ \A i \in 1 .. Len(params) : params[i].kind # "os" /\ ~Superseding(i) =>
          params[i].value = latest[params[i].kind]
    /\ (\A i \in 1 .. Len(params) : params[i].kind # "gain") => gain = latest.gain
    /\ (\A i \in 1 .. Len(params) : params[i].kind # "model") => Loading = latest.model

(* A model waits for the end of its window with the budget still in hand.  *)
Window ==
    candidate # None => budget = 1 /\ rtPc \in {"commands", "advance os", "arm os"}

SwapInv ==
    /\ Types /\ Requested /\ JobInv /\ Stamps /\ Snapshot /\ InstalledAsRequested
    /\ LastQueued /\ Window

-----------------------------------------------------------------------------
(* Sequences and constants.                                                *)
LEMMA ElementInSet ==
  ASSUME NEW S, NEW s \in Seq(S), NEW i \in 1 .. Len(s)
  PROVE  s[i] \in S
  BY SMT

LEMMA AppendFacts ==
  ASSUME NEW S, NEW s \in Seq(S), NEW e \in S
  PROVE  /\ Append(s, e) \in Seq(S) /\ Len(Append(s, e)) = Len(s) + 1 /\ Len(s) \in Nat
         /\ Append(s, e)[Len(s) + 1] = e
         /\ \A i \in 1 .. Len(s) : Append(s, e)[i] = s[i]
  BY SMT

LEMMA TailFacts ==
  ASSUME NEW S, NEW s \in Seq(S), s # <<>>
  PROVE  /\ Tail(s) \in Seq(S) /\ Len(Tail(s)) = Len(s) - 1 /\ Len(s) \in Nat \ {0}
         /\ \A i \in 1 .. Len(Tail(s)) : Tail(s)[i] = s[i + 1]
  BY SMT

LEMMA SuffixFacts ==
  ASSUME NEW S, NEW s \in Seq(S), NEW k \in 1 .. Len(s)
  PROVE  /\ SubSeq(s, k, Len(s)) \in Seq(S) /\ Len(SubSeq(s, k, Len(s))) = Len(s) - k + 1
         /\ \A i \in 1 .. Len(SubSeq(s, k, Len(s))) : SubSeq(s, k, Len(s))[i] = s[k + i - 1]
  BY SMT

LEMMA ValuesArePositive ==
  /\ \A f \in Families : Values(f) \subseteq Nat \ {None}
  /\ FirstRate \in Nat \ {None} /\ Full \in Nat \ {None} /\ StartFactor \in Nat \ {None}
  BY ValueAssumption DEF Values, Families

LEMMA PairsAreTyped ==
  ASSUME NEW f \in Families
  PROVE  Pairs(f) \subseteq Nat \X Nat
<1>1. NoPair \in Nat \X Nat BY DEF NoPair, None
<1>2. \A v \in Nat : Twin(v) \in Nat \X Nat BY DEF Twin
<1>3. \A v \in Rates \cup Widths \cup Factors \cup {Full, StartFactor} : v \in Nat
  BY ValueAssumption
<1>4. CASE f = "cab" BY <1>1, <1>2, <1>3, <1>4 DEF Pairs
<1>5. CASE f = "slim" BY <1>2, <1>3, <1>5 DEF Pairs
<1>6. CASE f = "os" BY <1>2, <1>3, <1>6 DEF Pairs
<1> QED BY <1>4, <1>5, <1>6 DEF Families

(* The step that follows the drain and the request of a family.            *)
AfterDrain == [cab |-> "commands", slim |-> "drain os", os |-> "check"]
AfterArm == [cab |-> "idle", slim |-> "drain slim", os |-> "commands"]

Begin == BeginCallback \/ RequestResampler \/ ResamplerArrives
DrainOne == \E f \in Families : Drain(f, AfterDrain[f])
AdvanceOne == \E f \in Families : AdvanceGeneration(f)
ArmOne == \E f \in Families : Arm(f, AfterArm[f])
SendOne == \E kind \in {"model", "gain", "os"} : Send(kind)

LEMMA CallbackCases ==
  ASSUME Callback
  PROVE  \/ Begin \/ DrainOne \/ TakeGain \/ TakeOversample \/ TakeModel \/ AdvanceOne \/ ArmOne
         \/ EndCommands \/ TrySlimmableRebuild \/ CheckCab \/ SkipQuantum
<1> USE DEF Families, AfterDrain, AfterArm
<1>1. AfterDrain["cab"] = "commands" /\ AfterDrain["slim"] = "drain os" /\ AfterDrain["os"] = "check"
  BY SMT
<1>2. AfterArm["cab"] = "idle" /\ AfterArm["slim"] = "drain slim" /\ AfterArm["os"] = "commands"
  BY SMT
<1> HIDE DEF AfterDrain, AfterArm
<1>3. Drain("cab", "commands") \/ Drain("slim", "drain os") \/ Drain("os", "check") => DrainOne
  BY <1>1, Zenon DEF DrainOne
<1>4. AdvanceGeneration("cab") \/ AdvanceGeneration("slim") \/ AdvanceGeneration("os") => AdvanceOne
  BY Zenon DEF AdvanceOne
<1>5. Arm("cab", "idle") \/ Arm("slim", "drain slim") \/ Arm("os", "commands") => ArmOne
  BY <1>2, Zenon DEF ArmOne
<1> QED BY <1>3, <1>4, <1>5, Zenon DEF Callback, Prologue, Begin

LEMMA Cases ==
  ASSUME [Next]_vars
  PROVE  Callback \/ ControlLoop \/ SendOne \/ UNCHANGED vars
  BY DEF Next, SendOne

(* Which action changes what.                                              *)
LEMMA Frames ==
  ASSUME [Next]_vars
  PROVE  /\ TakeOversample \/ TrySlimmableRebuild \/ CheckCab \/ UNCHANGED asked
         /\ AdvanceOne \/ UNCHANGED gen
         /\ ArmOne \/ Clear \/ RearmIfSuperseded \/ UNCHANGED needs
         /\ DrainOne \/ BuildAndPush \/ UNCHANGED ring
         /\ DrainOne \/ UNCHANGED <<active, applied>>
         /\ DrainOne \/ BuildAndPush \/ BuildFails \/ RejectFactor \/ UNCHANGED failed
         /\ TakeGain \/ TakeOversample \/ TakeModel \/ SendOne \/ UNCHANGED params
         /\ SendOne \/ UNCHANGED latest
         /\ TakeGain \/ UNCHANGED gain
         /\ EndCommands \/ UNCHANGED model
         /\ TakeModel \/ EndCommands \/ UNCHANGED candidate
         /\ Callback \/ UNCHANGED <<rtPc, budget, muted, hostRate, pops>>
         /\ ControlLoop \/ UNCHANGED <<mainPc, job>>
         /\ RejectWidth \/ RejectFactor \/ UNCHANGED refused
         /\ Clear \/ UNCHANGED erased
<1> USE DEF requestVars, pairVars, commandVars, callbackVars, mainVars, boundVars
<1>1. CASE Callback
  <2>1. CASE Begin
    BY <2>1, <1>1 DEF Begin, BeginCallback, RequestResampler, ResamplerArrives, BeginWith
  <2>2. CASE DrainOne BY <2>2, <1>1 DEF DrainOne, Drain
  <2>3. CASE TakeGain \/ TakeOversample \/ TakeModel
    BY <2>3, <1>1 DEF TakeGain, TakeOversample, TakeModel, PopCommand, StoreRequest
  <2>4. CASE AdvanceOne BY <2>4, <1>1 DEF AdvanceOne, AdvanceGeneration
  <2>5. CASE ArmOne BY <2>5, <1>1 DEF ArmOne, Arm
  <2>6. CASE EndCommands \/ TrySlimmableRebuild \/ CheckCab \/ SkipQuantum
    BY <2>6, <1>1 DEF EndCommands, TrySlimmableRebuild, CheckCab, SkipQuantum, StoreRequest
  <2> QED BY <1>1, <2>1, <2>2, <2>3, <2>4, <2>5, <2>6, CallbackCases
<1>2. CASE ControlLoop
  <2>1. CASE CheckNeeds \/ CaptureFirst \/ CaptureSecond \/ GiveUpFailed
    BY <2>1, <1>2 DEF CheckNeeds, CaptureFirst, CaptureSecond, Capture, GiveUpFailed
  <2>2. CASE BuildAndPush BY <2>2, <1>2 DEF BuildAndPush
  <2>3. CASE BuildFails \/ RejectWidth \/ RejectFactor
    BY <2>3, <1>2 DEF BuildFails, RejectWidth, RejectFactor
  <2>4. CASE Clear \/ RearmIfSuperseded \/ ReleaseGarbage
    BY <2>4, <1>2 DEF Clear, RearmIfSuperseded, ReleaseGarbage
  <2> QED BY <1>2, <2>1, <2>2, <2>3, <2>4 DEF ControlLoop
<1>3. CASE SendOne BY <1>3 DEF SendOne, Send
<1>4. CASE UNCHANGED vars BY <1>4 DEF vars
<1> QED BY <1>1, <1>2, <1>3, <1>4, Cases

-----------------------------------------------------------------------------
(* Types.                                                                  *)
Jobs == [family : Families, gen : Nat \cup {NotRead}, value : Nat]

LEMMA HandlerOver ==
  ASSUME StepTypes, NextHandler
  PROVE  mainPc' \in {"check", "release"} /\ job' \in Jobs
<1>1. job \in Jobs BY DEF StepTypes, Jobs
<1>2. job.family # "os" => Job(FamilyAfter[job.family]) \in Jobs
  <2>1. job.family # "os" => FamilyAfter[job.family] \in Families
    BY <1>1 DEF Jobs, Families, FamilyAfter
  <2> QED BY <2>1 DEF Job, Jobs, None
<1> QED BY <1>1, <1>2 DEF NextHandler

LEMMA RequestTypesStep ==
  ASSUME Types, [Next]_vars
  PROVE  RequestTypes'
<1>1. RequestTypes /\ StepTypes /\ CommandTypes BY DEF Types
<1>2. asked' \in [Families -> Nat]
  <2>1. CASE TakeOversample
    <3>1. Head1.value \in Factors /\ Head1.value \in Nat
      <4>1. 1 \in 1 .. Len(params) BY <1>1, <2>1, TailFacts, SMT DEF TakeOversample, MayPop, CommandTypes
      <4>2. params[1].value \in Factors BY <4>1, <1>1, <2>1 DEF TakeOversample, Head1, CommandTypes
      <4> QED BY <4>2, ValueAssumption DEF Head1
    <3> QED BY <1>1, <2>1, <3>1 DEF TakeOversample, StoreRequest, RequestTypes
  <2>2. CASE TrySlimmableRebuild
    BY <1>1, <2>2, ValueAssumption DEF TrySlimmableRebuild, StoreRequest, RequestTypes, requestVars
  <2>3. CASE CheckCab
    <3>1. hostRate \in Nat BY <1>1, ValueAssumption DEF StepTypes
    <3> QED BY <1>1, <2>3, <3>1 DEF CheckCab, StoreRequest, RequestTypes, requestVars
  <2>4. CASE UNCHANGED asked BY <1>1, <2>4 DEF RequestTypes
  <2> QED BY <2>1, <2>2, <2>3, <2>4, Frames
<1>3. gen' \in [Families -> Nat]
  <2>1. CASE AdvanceOne
    BY <1>1, <2>1, SMT DEF AdvanceOne, AdvanceGeneration, RequestTypes
  <2>2. CASE UNCHANGED gen BY <1>1, <2>2 DEF RequestTypes
  <2> QED BY <2>1, <2>2, Frames
<1>4. needs' \in [Families -> BOOLEAN]
  <2>1. CASE ArmOne BY <1>1, <2>1 DEF ArmOne, Arm, RequestTypes
  <2>2. CASE Clear BY <1>1, <2>2 DEF Clear, RequestTypes
  <2>3. CASE RearmIfSuperseded BY <1>1, <2>3 DEF RearmIfSuperseded, RequestTypes
  <2>4. CASE UNCHANGED needs BY <1>1, <2>4 DEF RequestTypes
  <2> QED BY <2>1, <2>2, <2>3, <2>4, Frames
<1> QED BY <1>2, <1>3, <1>4 DEF RequestTypes

(* Where the callback goes, and what it keeps of its budget.               *)
LEMMA StepTypesStep ==
  ASSUME Types, Window, [Next]_vars
  PROVE  StepTypes' /\ pops' \in 0 .. ParamBudget
<1>1. /\ StepTypes /\ RequestTypes /\ pops \in 0 .. ParamBudget
      /\ budget \in {0, 1} /\ muted \in BOOLEAN /\ hostRate \in Rates
  BY DEF Types, CommandTypes, StepTypes
<1>2. /\ \A f \in Families : Advancing[f] \in {"advance os", "advance slim", "advance cab"}
      /\ \A f \in Families : Arming[f] \in {"arm os", "arm slim", "arm cab"}
      /\ \A f \in Families : AfterDrain[f] \in {"commands", "drain os", "check"}
      /\ \A f \in Families : AfterArm[f] \in {"idle", "drain slim", "commands"}
  BY DEF Families, Advancing, Arming, AfterDrain, AfterArm
<1> DEFINE Callee == /\ rtPc' \in {"idle", "drain cab", "commands", "advance os", "arm os", "adapt",
                                   "advance slim", "arm slim", "drain slim", "drain os", "check",
                                   "advance cab", "arm cab"}
                     /\ budget' \in {0, 1} /\ muted' \in BOOLEAN /\ hostRate' \in Rates
                     /\ pops' \in 0 .. ParamBudget
<1>3. Callee
  <2> USE DEF callbackVars, commandVars
  <2>1. CASE Begin
    <3>1. 0 \in 0 .. ParamBudget BY BoundAssumption, SMT
    <3>2. /\ rtPc' = "drain cab" /\ pops' = 0 /\ budget' \in {0, 1} /\ muted' \in BOOLEAN
          /\ hostRate' \in Rates
      BY <1>1, <2>1, Zenon DEF Begin, BeginCallback, RequestResampler, ResamplerArrives, BeginWith
    <3> QED BY <3>1, <3>2
  <2>2. CASE DrainOne
    <3>1. PICK f \in Families : Drain(f, AfterDrain[f]) BY <2>2 DEF DrainOne
    <3>2. budget' = budget \/ (budget > 0 /\ budget' = budget - 1) BY <3>1 DEF Drain
    <3>3. budget' \in {0, 1} BY <1>1, <3>2, SMT
    <3>4. rtPc' = AfterDrain[f] /\ UNCHANGED <<muted, hostRate, pops>> BY <3>1 DEF Drain
    <3> QED BY <1>1, <1>2, <3>3, <3>4 DEF StepTypes
  <2>3. CASE TakeGain \/ TakeModel \/ TakeOversample
    <3>1. pops' \in 0 .. ParamBudget
      BY <1>1, <2>3, BoundAssumption, SMT DEF TakeGain, TakeModel, TakeOversample, MayPop, PopCommand
    <3>2. rtPc' \in {rtPc, "advance os"}
      BY <2>3 DEF TakeGain, TakeModel, TakeOversample, StoreRequest, Advancing
    <3>3. UNCHANGED <<muted, hostRate, budget>>
      BY <2>3 DEF TakeGain, TakeModel, TakeOversample, PopCommand
    <3> QED BY <1>1, <3>1, <3>2, <3>3 DEF StepTypes
  <2>4. CASE AdvanceOne \/ ArmOne
    BY <1>1, <1>2, <2>4 DEF AdvanceOne, ArmOne, AdvanceGeneration, Arm, StepTypes
  <2>5. CASE EndCommands
    <3>1. budget' \in {0, 1}
      BY <1>1, <2>5, SMT DEF EndCommands, StepTypes, Window
    <3> QED BY <1>1, <2>5, <3>1 DEF EndCommands, StepTypes
  <2>6. CASE TrySlimmableRebuild \/ CheckCab \/ SkipQuantum
    BY <1>1, <2>6 DEF TrySlimmableRebuild, CheckCab, SkipQuantum, StoreRequest, Advancing, StepTypes
  <2>7. CASE UNCHANGED <<rtPc, budget, muted, hostRate, pops>> BY <1>1, <2>7 DEF StepTypes
  <2> QED BY <2>1, <2>2, <2>3, <2>4, <2>5, <2>6, <2>7, Frames, CallbackCases
<1> DEFINE Loop == /\ mainPc' \in {"check", "first", "second", "build", "clear", "withdraw", "rearm",
                                   "release"}
                   /\ job' \in Jobs
<1>4. Loop
  <2>1. job \in Jobs /\ job.family \in Families BY <1>1 DEF StepTypes, Jobs
  <2>2. NextHandler => Loop BY <1>1, HandlerOver
  <2> HIDE DEF Loop
  <2>3. CASE CheckNeeds
    BY <1>1, <2>1, <2>2, <2>3 DEF CheckNeeds, Loop, StepTypes
  <2>4. CASE CaptureFirst \/ CaptureSecond
    <3>1. mainPc' \in {"second", "build"} BY <2>4 DEF CaptureFirst, CaptureSecond
    <3>2. gen[job.family] \in Nat /\ asked[job.family] \in Nat BY <1>1, <2>1 DEF RequestTypes
    <3>3. \/ job' = [job EXCEPT !.gen = gen[job.family]]
          \/ job' = [job EXCEPT !.value = asked[job.family]]
      BY <2>4 DEF CaptureFirst, CaptureSecond, Capture
    <3>4. job' \in Jobs BY <2>1, <3>2, <3>3 DEF Jobs
    <3> QED BY <3>1, <3>4 DEF Loop
  <2>5. CASE GiveUpFailed \/ Clear \/ RearmIfSuperseded
    BY <2>1, <2>2, <2>5 DEF GiveUpFailed, Clear, RearmIfSuperseded, Loop
  <2>6. CASE BuildAndPush \/ BuildFails \/ RejectWidth \/ RejectFactor
    BY <2>1, <2>2, <2>6 DEF BuildAndPush, BuildFails, RejectWidth, RejectFactor, Loop
  <2>7. CASE ReleaseGarbage
    BY <2>7 DEF ReleaseGarbage, Job, Jobs, Families, None, Loop
  <2>8. CASE UNCHANGED <<mainPc, job>> BY <1>1, <2>1, <2>8 DEF StepTypes, Loop
  <2> QED BY <2>3, <2>4, <2>5, <2>6, <2>7, <2>8, Frames DEF ControlLoop
<1> QED BY <1>3, <1>4 DEF StepTypes, Jobs

LEMMA LeastIs ==
  ASSUME NEW m \in Nat, NEW n \in Nat
  PROVE  Least(m, n) \in Nat /\ Least(m, n) <= m /\ Least(m, n) <= n
  BY SMT DEF Least

(* The cascade takes any number of boxes without exceeding its ring or its *)
(* parking lot, and remembers that the lot is not empty.                   *)
Cascade ==
    /\ gc \in Nat /\ gc <= GcCapacity /\ lot \in Nat /\ lot <= LotSize
    /\ overflow \in Nat /\ dirty \in BOOLEAN /\ (lot > 0 => dirty)
    /\ made \in Nat /\ released \in Nat

LEMMA RetireKeeps ==
  ASSUME Cascade, NEW n \in Nat, Retire(n)
  PROVE  Cascade'
<1> DEFINE toGc == Least(n, GcCapacity - gc)
           toLot == Least(n - toGc, LotSize - lot)
<1>1. GcCapacity \in Nat /\ LotSize \in Nat BY BoundAssumption
<1>0. gc \in Nat /\ gc <= GcCapacity /\ lot \in Nat /\ lot <= LotSize /\ overflow \in Nat
  BY DEF Cascade
<1>2. toGc \in Nat /\ toGc <= n /\ gc + toGc <= GcCapacity
  <2>1. GcCapacity - gc \in Nat BY <1>0, <1>1, SMT
  <2>2. toGc \in Nat /\ toGc <= n /\ toGc <= GcCapacity - gc BY <2>1, LeastIs
  <2> HIDE DEF toGc
  <2> QED BY <2>2, <1>0, <1>1, SMT
<1>3. toLot \in Nat /\ toLot <= n - toGc /\ lot + toLot <= LotSize
  <2> HIDE DEF toGc
  <2>1. LotSize - lot \in Nat /\ n - toGc \in Nat BY <1>0, <1>1, <1>2, SMT
  <2>2. toLot \in Nat /\ toLot <= n - toGc /\ toLot <= LotSize - lot BY <2>1, LeastIs
  <2> HIDE DEF toLot
  <2>3. n - toGc \in Nat BY <2>1
  <2> QED BY <2>2, <2>3, <1>0, <1>1, SMT
<1>4. /\ gc' = gc + toGc /\ lot' = lot + toLot /\ dirty' = (dirty \/ toLot > 0)
      /\ overflow' = overflow + (n - toGc - toLot) /\ made' = made /\ released' = released
  BY DEF Retire
<1> HIDE DEF toGc, toLot
<1>5. gc' \in Nat /\ gc' <= GcCapacity /\ lot' \in Nat /\ lot' <= LotSize /\ overflow' \in Nat
  BY <1>0, <1>1, <1>2, <1>3, <1>4, SMT
<1>6. lot' > 0 => lot > 0 \/ toLot > 0 BY <1>0, <1>3, <1>4, SMT
<1>7. dirty' \in BOOLEAN /\ (lot' > 0 => dirty')
  BY <1>4, <1>6, Zenon DEF Cascade
<1> QED BY <1>4, <1>5, <1>7 DEF Cascade

LEMMA FlushKeeps ==
  ASSUME Cascade, FlushLot
  PROVE  Cascade'
<1>1. GcCapacity \in Nat /\ LotSize \in Nat BY BoundAssumption
<1>0. gc \in Nat /\ gc <= GcCapacity /\ lot \in Nat /\ lot <= LotSize
  BY DEF Cascade
<1>2. CASE dirty
  <2> DEFINE moved == Least(lot, GcCapacity - gc)
  <2>1. moved \in Nat /\ moved <= lot /\ gc + moved <= GcCapacity
    <3>1. GcCapacity - gc \in Nat BY <1>0, <1>1, SMT
    <3>2. moved \in Nat /\ moved <= lot /\ moved <= GcCapacity - gc BY <3>1, <1>0, LeastIs
    <3> HIDE DEF moved
    <3> QED BY <3>2, <1>0, <1>1, SMT
  <2>2. /\ gc' = gc + moved /\ lot' = lot - moved /\ dirty' = (lot' > 0)
        /\ UNCHANGED <<overflow, made, released>>
    BY <1>2 DEF FlushLot, StillDirty
  <2> HIDE DEF moved
  <2>3. gc' \in Nat /\ gc' <= GcCapacity /\ lot' \in Nat /\ lot' <= LotSize
    BY <1>0, <1>1, <2>1, <2>2, SMT
  <2>4. dirty' \in BOOLEAN /\ (lot' > 0 => dirty')
    <3>1. CASE lot' > 0 BY <3>1, <2>2
    <3>2. CASE ~(lot' > 0) BY <3>2, <2>2
    <3> QED BY <3>1, <3>2, Zenon
  <2>5. overflow' \in Nat /\ made' \in Nat /\ released' \in Nat BY <2>2 DEF Cascade
  <2> QED BY <2>3, <2>4, <2>5 DEF Cascade
<1>3. CASE ~dirty BY <1>3 DEF FlushLot, gcVars, Cascade
<1> QED BY <1>2, <1>3

LEMMA GarbageTypesStep ==
  ASSUME Types, [Next]_vars
  PROVE  GarbageTypes'
<1>1. /\ Cascade /\ events \in Nat /\ faults \in Nat /\ ring \in [Families -> Seq(Envelopes)]
  BY DEF Types, GarbageTypes, Cascade, PairTypes
<1>2. events' \in Nat /\ faults' \in Nat
  <2>1. \/ events' = events /\ faults' = faults
        \/ events' = events + 1 /\ faults' = faults
        \/ events' = events /\ faults' = faults + 1
    <3> USE DEF Event, Fault, boundVars
    <3>1. CASE Callback
      <4>1. CASE Begin BY <4>1, <1>1 DEF Begin, BeginCallback, RequestResampler, ResamplerArrives
      <4>2. CASE DrainOne \/ AdvanceOne \/ ArmOne
        BY <4>2 DEF DrainOne, Drain, AdvanceOne, AdvanceGeneration, ArmOne, Arm
      <4>3. CASE TakeGain \/ TakeOversample \/ TakeModel \/ EndCommands \/ SkipQuantum
        BY <4>3 DEF TakeGain, TakeOversample, TakeModel, PopCommand, EndCommands, SkipQuantum
      <4>4. CASE TrySlimmableRebuild \/ CheckCab BY <4>4 DEF TrySlimmableRebuild, CheckCab
      <4> QED BY <3>1, <4>1, <4>2, <4>3, <4>4, CallbackCases
    <3>2. CASE ControlLoop
      BY <3>2 DEF ControlLoop, CheckNeeds, CaptureFirst, CaptureSecond, Capture, GiveUpFailed,
         BuildAndPush, BuildFails, RejectWidth, RejectFactor, Clear, RearmIfSuperseded,
         ReleaseGarbage
    <3>3. CASE SendOne BY <3>3 DEF SendOne, Send
    <3>4. CASE UNCHANGED vars BY <3>4 DEF vars
    <3> QED BY <3>1, <3>2, <3>3, <3>4, Cases
  <2> QED BY <1>1, <2>1, SMT
<1>3. Cascade'
  <2>1. CASE DrainOne
    <3>1. PICK f \in Families : Drain(f, AfterDrain[f]) BY <2>1 DEF DrainOne
    <3>2. ring[f] \in Seq(Envelopes) /\ Len(ring[f]) \in Nat BY <1>1, SMT
    <3>3. InstallLatest(f) \/ DiscardStale(f) \/ LeaveQueued(f) BY <3>1 DEF Drain
    <3>4. CASE InstallLatest(f) \/ DiscardStale(f)
      BY <3>2, <3>4, <1>1, RetireKeeps DEF InstallLatest, DiscardStale
    <3>5. CASE LeaveQueued(f)
      <4>1. PICK i \in Current(f) : Retire(i - 1) BY <3>5 DEF LeaveQueued
      <4>2. i - 1 \in Nat BY <3>2, SMT DEF Current
      <4> QED BY <4>1, <4>2, <1>1, RetireKeeps
    <3> QED BY <3>3, <3>4, <3>5
  <2>2. CASE Begin
    BY <2>2, <1>1, FlushKeeps DEF Begin, BeginCallback, RequestResampler, ResamplerArrives, BeginWith
  <2>3. CASE TakeModel
    <3>1. Retire(0) \/ Retire(1) BY <2>3 DEF TakeModel
    <3> QED BY <3>1, <1>1, RetireKeeps, SMT
  <2>4. CASE EndCommands
    <3>1. Retire(0) \/ Retire(1) \/ UNCHANGED gcVars BY <2>4 DEF EndCommands
    <3>2. UNCHANGED gcVars => Cascade' BY <1>1 DEF gcVars, Cascade
    <3> QED BY <3>1, <3>2, <1>1, RetireKeeps, SMT
  <2>5. CASE ReleaseGarbage
    BY <2>5, <1>1, BoundAssumption, SMT DEF ReleaseGarbage, Cascade
  <2>6. CASE UNCHANGED <<gc, lot, dirty, overflow, released>> /\ made' \in {made, made + 1}
    BY <2>6, <1>1, SMT DEF Cascade
  <2>7. CASE BuildAndPush \/ SendOne
    BY <2>6, <2>7 DEF BuildAndPush, SendOne, Send
  <2>8. CASE /\ Callback /\ ~DrainOne /\ ~Begin /\ ~TakeModel /\ ~EndCommands
    BY <2>6, <2>8, CallbackCases
       DEF TakeGain, TakeOversample, AdvanceOne, AdvanceGeneration, ArmOne, Arm,
           TrySlimmableRebuild, CheckCab, SkipQuantum, gcVars
  <2>9. CASE ControlLoop /\ ~ReleaseGarbage /\ ~BuildAndPush
    BY <2>6, <2>9
       DEF ControlLoop, CheckNeeds, CaptureFirst, CaptureSecond, Capture, GiveUpFailed,
           BuildFails, RejectWidth, RejectFactor, Clear, RearmIfSuperseded, gcVars
  <2>10. CASE UNCHANGED vars BY <2>6, <2>10 DEF vars, gcVars
  <2> QED BY <2>1, <2>2, <2>3, <2>4, <2>5, <2>7, <2>8, <2>9, <2>10, Cases
<1> QED BY <1>2, <1>3 DEF GarbageTypes, Cascade

LEMMA CommandTypesStep ==
  ASSUME Types, pops' \in 0 .. ParamBudget, [Next]_vars
  PROVE  CommandTypes'
<1>1. CommandTypes /\ events \in Nat BY DEF Types, GarbageTypes
<1>2. params # <<>> => Head1 \in Commands /\ 1 \in 1 .. Len(params)
  <2>1. params # <<>> => 1 \in 1 .. Len(params) BY <1>1, TailFacts, SMT DEF CommandTypes
  <2> QED BY <2>1, <1>1, ElementInSet DEF CommandTypes, Head1
<1>3. /\ params' \in Seq(Commands) /\ latest' \in [model : Nat, gain : Nat]
      /\ \A i \in 1 .. Len(params') :
            /\ params'[i].kind = "os" => params'[i].value \in Factors
            /\ params'[i].kind = "model" => params'[i].value # None
  <2>1. CASE TakeGain \/ TakeOversample \/ TakeModel
    <3>1. params # <<>> /\ params' = Tail(params) /\ UNCHANGED latest
      BY <2>1 DEF TakeGain, TakeOversample, TakeModel, MayPop, PopCommand
    <3>2. /\ params' \in Seq(Commands) /\ Len(params') = Len(params) - 1 /\ Len(params) \in Nat
          /\ \A i \in 1 .. Len(params') : params'[i] = params[i + 1]
      BY <3>1, <1>1, TailFacts DEF CommandTypes
    <3>3. \A i \in 1 .. Len(params') : i + 1 \in 1 .. Len(params) BY <3>2, SMT
    <3> QED BY <3>1, <3>2, <3>3, <1>1 DEF CommandTypes
  <2>2. CASE SendOne
    <3>0. PICK kind \in {"model", "gain", "os"} : Send(kind) BY <2>2 DEF SendOne
    <3>1. PICK v \in IF kind = "os" THEN Factors ELSE {events + 1} :
            /\ params' = Append(params, [kind |-> kind, value |-> v])
            /\ latest' = IF kind = "os" THEN latest ELSE [latest EXCEPT ![kind] = v]
      BY <3>0, Zenon DEF Send
    <3>2. v \in Nat /\ (kind = "os" => v \in Factors) /\ (kind = "model" => v # None)
      <4>1. CASE kind = "os" BY <4>1, ValueAssumption
      <4>2. CASE kind # "os"
        <5>1. v = events + 1 BY <4>2
        <5> QED BY <5>1, <4>2, <1>1, SMT DEF None
      <4> QED BY <4>1, <4>2
    <3> DEFINE c == [kind |-> kind, value |-> v]
    <3>3. c \in Commands /\ c.kind = kind /\ c.value = v BY <3>2 DEF Commands
    <3> HIDE DEF c
    <3>4. /\ params' \in Seq(Commands) /\ Len(params') = Len(params) + 1 /\ Len(params) \in Nat
          /\ params'[Len(params) + 1] = c /\ \A i \in 1 .. Len(params) : params'[i] = params[i]
      BY <3>1, <3>3, <1>1, AppendFacts DEF CommandTypes, c
    <3>5. latest' \in [model : Nat, gain : Nat]
      BY <3>1, <3>2, <1>1 DEF CommandTypes
    <3>6. ASSUME NEW i \in 1 .. Len(params')
          PROVE  /\ params'[i].kind = "os" => params'[i].value \in Factors
                 /\ params'[i].kind = "model" => params'[i].value # None
      <4>1. CASE i = Len(params) + 1 BY <4>1, <3>2, <3>3, <3>4
      <4>2. CASE i # Len(params) + 1
        <5>1. i \in 1 .. Len(params) BY <4>2, <3>4, SMT
        <5> QED BY <5>1, <3>4, <1>1 DEF CommandTypes
      <4> QED BY <4>1, <4>2
    <3> QED BY <3>4, <3>5, <3>6
  <2>3. CASE UNCHANGED <<params, latest>> BY <2>3, <1>1 DEF CommandTypes
  <2> QED BY <2>1, <2>2, <2>3, Frames
<1>4. gain' \in Nat
  BY <1>1, <1>2, Frames DEF CommandTypes, Commands, TakeGain, MayPop
<1>5. candidate' \in Nat /\ model' \in Nat
  <2>1. CASE TakeModel
    BY <2>1, <1>1, <1>2 DEF TakeModel, MayPop, KeepLast, Commands, CommandTypes
  <2>2. CASE EndCommands BY <2>2, <1>1 DEF EndCommands, CommandTypes, None
  <2>3. CASE UNCHANGED <<candidate, model>> BY <2>3, <1>1 DEF CommandTypes
  <2> QED BY <2>1, <2>2, <2>3, Frames
<1> QED BY <1>3, <1>4, <1>5 DEF CommandTypes

-----------------------------------------------------------------------------
(* One family at a time: how its request and its ring may change.          *)
Elsewhere == {"idle", "drain cab", "commands", "adapt", "drain slim", "drain os", "check"}

LEMMA StepNames ==
  /\ \A f, g \in Families : /\ (Advancing[f] = Advancing[g] => f = g)
                            /\ (Arming[f] = Arming[g] => f = g)
                            /\ Advancing[f] # Arming[g]
  /\ \A f \in Families : Advancing[f] \notin Elsewhere /\ Arming[f] \notin Elsewhere
  /\ \A f \in Families : AfterDrain[f] \in Elsewhere /\ AfterArm[f] \in Elsewhere
                         /\ Draining[f] \in Elsewhere
  /\ Advancing["cab"] = "advance cab" /\ Advancing["slim"] = "advance slim"
  /\ Advancing["os"] = "advance os"
  /\ \A f \in Families : Draining[f] \in {"drain cab", "drain slim", "drain os"}
  /\ \A f \in Families : f # "os" => /\ Advancing[f] \in {"advance cab", "advance slim"}
                                     /\ Arming[f] \in {"arm cab", "arm slim"}
  BY DEF Families, Advancing, Arming, AfterDrain, AfterArm, Draining, Elsewhere

LEMMA CommandHead ==
  ASSUME Types, params # <<>>
  PROVE  /\ Head1 \in Commands /\ 1 \in 1 .. Len(params)
         /\ Head1.kind = "os" => Head1.value \in Values("os")
         /\ Head1.kind = "model" => Head1.value # None
<1>1. CommandTypes BY DEF Types
<1>2. 1 \in 1 .. Len(params) BY <1>1, TailFacts, SMT DEF CommandTypes
<1>3. Head1 \in Commands BY <1>1, <1>2, ElementInSet DEF CommandTypes, Head1
<1> QED BY <1>1, <1>2, <1>3 DEF CommandTypes, Head1, Values

LEMMA AskedStep ==
  ASSUME Types, [Next]_vars, NEW f \in Families
  PROVE  \/ asked'[f] = asked[f] /\ (rtPc' = Advancing[f] => rtPc = Advancing[f])
         \/ /\ rtPc' = Advancing[f] /\ rtPc \in Elsewhere
            /\ asked'[f] \in Values(f) /\ gen' = gen
<1> DEFINE Kept == asked'[f] = asked[f] /\ (rtPc' = Advancing[f] => rtPc = Advancing[f])
           Stored == /\ rtPc' = Advancing[f] /\ rtPc \in Elsewhere
                     /\ asked'[f] \in Values(f) /\ gen' = gen
<1> SUFFICES Kept \/ Stored OBVIOUS
<1> HIDE DEF Kept, Stored
<1>1. asked \in [Families -> Nat] /\ hostRate \in Rates BY DEF Types, RequestTypes, StepTypes
<1>2. ASSUME NEW g \in Families, NEW v \in Values(g), StoreRequest(g, v), rtPc \in Elsewhere
      PROVE  Kept \/ Stored
  <2>1. asked' = [asked EXCEPT ![g] = v] /\ rtPc' = Advancing[g] /\ gen' = gen
    BY <1>2, Zenon DEF StoreRequest
  <2>2. CASE f = g BY <2>1, <2>2, <1>1, <1>2 DEF Stored
  <2>3. CASE f # g BY <2>1, <2>3, <1>1, <1>2, StepNames DEF Kept
  <2> QED BY <2>2, <2>3
<1>3. "cab" \in Families /\ "slim" \in Families /\ "os" \in Families BY DEF Families
<1>4. CASE TakeOversample
  <2>1. StoreRequest("os", Head1.value) /\ rtPc \in Elsewhere /\ params # <<>> /\ Head1.kind = "os"
    BY <1>4, Zenon DEF TakeOversample, MayPop, Elsewhere
  <2>2. Head1.value \in Values("os") BY <2>1, CommandHead
  <2> QED BY <2>1, <2>2, <1>2, <1>3
<1>5. CASE TrySlimmableRebuild
  <2>1. rtPc \in Elsewhere BY <1>5 DEF TrySlimmableRebuild, Elsewhere
  <2>2. \/ \E w \in Widths : StoreRequest("slim", w)
        \/ rtPc' = "drain slim" /\ asked' = asked
    BY <1>5 DEF TrySlimmableRebuild, requestVars
  <2>3. CASE \E w \in Widths : StoreRequest("slim", w)
    <3>1. PICK w \in Widths : StoreRequest("slim", w) BY <2>3
    <3>2. w \in Values("slim") BY DEF Values
    <3> QED BY <3>1, <3>2, <2>1, <1>2, <1>3
  <2>4. CASE rtPc' = "drain slim" /\ asked' = asked
    BY <2>4, StepNames DEF Kept, Elsewhere
  <2> QED BY <2>2, <2>3, <2>4
<1>6. CASE CheckCab
  <2>1. rtPc \in Elsewhere BY <1>6 DEF CheckCab, Elsewhere
  <2>2. StoreRequest("cab", hostRate) \/ (rtPc' = "idle" /\ asked' = asked)
    BY <1>6, Zenon DEF CheckCab, requestVars
  <2>3. hostRate \in Values("cab") BY <1>1 DEF Values
  <2>4. CASE rtPc' = "idle" /\ asked' = asked
    BY <2>4, StepNames DEF Kept, Elsewhere
  <2> QED BY <2>1, <2>2, <2>3, <2>4, <1>2, <1>3
<1>7. CASE ~TakeOversample /\ ~TrySlimmableRebuild /\ ~CheckCab
  <2>1. asked' = asked BY <1>7, Frames
  <2>2. rtPc' = rtPc \/ rtPc' \in Elsewhere \/ \E g \in Families : rtPc' = Arming[g]
    <3>1. CASE Callback
      <4>1. CASE Begin
        BY <4>1 DEF Begin, BeginCallback, RequestResampler, ResamplerArrives, BeginWith, Elsewhere
      <4>2. CASE DrainOne BY <4>2, StepNames DEF DrainOne, Drain
      <4>3. CASE TakeGain \/ TakeModel BY <4>3 DEF TakeGain, TakeModel, MayPop, Retire, PopCommand
      <4>4. CASE AdvanceOne BY <4>4 DEF AdvanceOne, AdvanceGeneration
      <4>5. CASE ArmOne BY <4>5, StepNames DEF ArmOne, Arm
      <4>6. CASE EndCommands \/ SkipQuantum BY <4>6 DEF EndCommands, SkipQuantum, Elsewhere
      <4> QED BY <3>1, <1>7, <4>1, <4>2, <4>3, <4>4, <4>5, <4>6, CallbackCases
    <3>2. CASE ~Callback BY <3>2, Frames
    <3> QED BY <3>1, <3>2
  <2> QED BY <2>1, <2>2, StepNames DEF Kept
<1> QED BY <1>4, <1>5, <1>6, <1>7

LEMMA GenStep ==
  ASSUME Types, [Next]_vars, NEW f \in Families
  PROVE  \/ /\ gen'[f] = gen[f]
            /\ rtPc' = Arming[f] => rtPc = Arming[f]
            /\ rtPc = Advancing[f] => rtPc' = Advancing[f]
         \/ /\ AdvanceGeneration(f) /\ rtPc' = Arming[f] /\ gen'[f] = gen[f] + 1
<1>1. gen \in [Families -> Nat] BY DEF Types, RequestTypes
<1>2. CASE AdvanceOne
  <2>1. PICK g \in Families : AdvanceGeneration(g) BY <1>2 DEF AdvanceOne
  <2>2. rtPc = Advancing[g] /\ rtPc' = Arming[g] /\ gen' = [gen EXCEPT ![g] = @ + 1]
    BY <2>1, Zenon DEF AdvanceGeneration
  <2>3. CASE f = g BY <2>1, <2>2, <2>3, <1>1
  <2>4. CASE f # g BY <2>2, <2>4, <1>1, StepNames
  <2> QED BY <2>3, <2>4
<1>3. CASE ~AdvanceOne
  <2>1. gen' = gen BY <1>3, Frames
  <2>2. \/ rtPc' = rtPc
        \/ (\A g \in Families : rtPc # Advancing[g]) /\ \A g \in Families : rtPc' # Arming[g]
    <3>1. CASE Callback
      <4>1. CASE Begin
        <5>1. rtPc \in Elsewhere /\ rtPc' \in Elsewhere
          BY <4>1 DEF Begin, BeginCallback, RequestResampler, ResamplerArrives, BeginWith, Elsewhere
        <5> QED BY <5>1, StepNames
      <4>2. CASE DrainOne
        <5>1. rtPc \in Elsewhere /\ rtPc' \in Elsewhere BY <4>2, StepNames DEF DrainOne, Drain
        <5> QED BY <5>1, StepNames
      <4>3. CASE TakeGain \/ TakeModel BY <4>3 DEF TakeGain, TakeModel
      <4>4. CASE TakeOversample
        <5>1. rtPc \in Elsewhere /\ rtPc' = Advancing["os"] /\ "os" \in Families
          BY <4>4 DEF TakeOversample, MayPop, StoreRequest, Elsewhere, Families
        <5> QED BY <5>1, StepNames
      <4>5. CASE ArmOne
        <5>1. PICK g \in Families : rtPc = Arming[g] /\ rtPc' = AfterArm[g]
          BY <4>5 DEF ArmOne, Arm
        <5> QED BY <5>1, StepNames
      <4>6. CASE EndCommands \/ SkipQuantum
        <5>1. rtPc \in Elsewhere /\ rtPc' \in Elsewhere
          BY <4>6 DEF EndCommands, SkipQuantum, Elsewhere
        <5> QED BY <5>1, StepNames
      <4>7. CASE TrySlimmableRebuild
        <5>1. rtPc \in Elsewhere /\ rtPc' \in Elsewhere \cup {Advancing["slim"]} /\ "slim" \in Families
          BY <4>7 DEF TrySlimmableRebuild, StoreRequest, Elsewhere, Families
        <5> QED BY <5>1, StepNames
      <4>8. CASE CheckCab
        <5>1. rtPc \in Elsewhere /\ rtPc' \in Elsewhere \cup {Advancing["cab"]} /\ "cab" \in Families
          BY <4>8 DEF CheckCab, StoreRequest, Elsewhere, Families
        <5> QED BY <5>1, StepNames
      <4> QED BY <3>1, <1>3, <4>1, <4>2, <4>3, <4>4, <4>5, <4>6, <4>7, <4>8, CallbackCases
    <3>2. CASE ~Callback BY <3>2, Frames
    <3> QED BY <3>1, <3>2
  <2> QED BY <2>1, <2>2
<1> QED BY <1>2, <1>3

LEMMA NeedsStep ==
  ASSUME Types, [Next]_vars, NEW f \in Families, needs'[f]
  PROVE  needs[f] \/ rtPc = Arming[f] \/ (mainPc = "rearm" /\ job.family = f)
<1>1. needs \in [Families -> BOOLEAN] BY DEF Types, RequestTypes
<1>2. CASE ArmOne BY <1>1, <1>2 DEF ArmOne, Arm
<1>3. CASE Clear BY <1>1, <1>3 DEF Clear
<1>4. CASE RearmIfSuperseded BY <1>1, <1>4 DEF RearmIfSuperseded
<1> QED BY <1>2, <1>3, <1>4, Frames

LEMMA RequestedStep ==
  ASSUME Types, Requested, JobInv, [Next]_vars
  PROVE  Requested'
<1> SUFFICES ASSUME NEW f \in Families
             PROVE  /\ gen'[f] > 0 \/ rtPc' \in {Advancing[f], Arming[f]} => asked'[f] \in Values(f)
                    /\ needs'[f] \/ rtPc' = Arming[f] => gen'[f] > 0
  BY DEF Requested
<1>1. /\ gen[f] > 0 \/ rtPc \in {Advancing[f], Arming[f]} => asked[f] \in Values(f)
      /\ needs[f] \/ rtPc = Arming[f] => gen[f] > 0
  BY DEF Requested
<1>2. gen[f] \in Nat /\ gen'[f] \in {gen[f], gen[f] + 1}
  BY GenStep DEF Types, RequestTypes
<1>3. gen'[f] > 0 \/ rtPc' \in {Advancing[f], Arming[f]} => asked'[f] \in Values(f)
  <2>1. CASE asked'[f] = asked[f] /\ (rtPc' = Advancing[f] => rtPc = Advancing[f])
    BY <2>1, <1>1, <1>2, GenStep DEF AdvanceGeneration
  <2> QED BY <2>1, AskedStep
<1>4. needs'[f] \/ rtPc' = Arming[f] => gen'[f] > 0
  <2>1. rtPc' = Arming[f] => gen'[f] > 0 BY <1>1, <1>2, GenStep, SMT
  <2>2. needs'[f] => gen[f] > 0
    <3>1. mainPc = "rearm" => gen[job.family] > 0 BY DEF JobInv
    <3> QED BY <3>1, <1>1, NeedsStep
  <2> QED BY <2>1, <2>2, <1>2, SMT
<1> QED BY <1>3, <1>4

LEMMA JobInvStep ==
  ASSUME Types, Requested, JobInv, [Next]_vars
  PROVE  JobInv'
<1>1. job \in Jobs /\ job.family \in Families BY DEF Types, StepTypes, Jobs
<1>2. \A f \in Families : gen[f] \in Nat /\ gen'[f] \in Nat /\ gen[f] <= gen'[f]
  <2> SUFFICES ASSUME NEW f \in Families
               PROVE  gen[f] \in Nat /\ gen'[f] \in Nat /\ gen[f] <= gen'[f]
    OBVIOUS
  <2>1. gen[f] \in Nat /\ gen'[f] \in {gen[f], gen[f] + 1} BY GenStep DEF Types, RequestTypes
  <2> QED BY <2>1, SMT
<1>3. CASE UNCHANGED <<mainPc, job>>
  <2>1. \A n : n \in 1 .. gen[job.family] => n \in 1 .. gen'[job.family] BY <1>1, <1>2, SMT
  <2>2. gen[job.family] > 0 => gen'[job.family] > 0 BY <1>1, <1>2, SMT
  <2> QED BY <1>3, <2>1, <2>2 DEF JobInv, GenerationFirst
<1>4. CASE ControlLoop
  <2>1. gen' = gen /\ asked' = asked
    <3>2. AdvanceOne \/ TakeOversample \/ TrySlimmableRebuild \/ CheckCab => rtPc' # rtPc
      <4>1. AdvanceOne => rtPc' # rtPc
        <5>1. ASSUME NEW g \in Families, AdvanceGeneration(g) PROVE rtPc' # rtPc
          BY <5>1, StepNames DEF AdvanceGeneration
        <5> QED BY <5>1 DEF AdvanceOne
      <4>2. TakeOversample \/ TrySlimmableRebuild \/ CheckCab => rtPc' # rtPc
        BY StepNames DEF TakeOversample, MayPop, TrySlimmableRebuild, CheckCab, StoreRequest
      <4> QED BY <4>1, <4>2
    <3>3. rtPc' = rtPc
      BY <1>4 DEF ControlLoop, CheckNeeds, CaptureFirst, CaptureSecond, Capture, GiveUpFailed,
         BuildAndPush, BuildFails, RejectWidth, RejectFactor, Clear, RearmIfSuperseded,
         ReleaseGarbage, callbackVars
    <3> QED BY <3>2, <3>3, Frames
  <2>2. NextHandler => mainPc' \in {"check", "release"}
    BY HandlerOver DEF Types
  <2>3. mainPc' \in {"check", "release"} => JobInv' BY DEF JobInv
  <2>4. CASE CheckNeeds
    <3>1. needs[job.family] => gen[job.family] > 0 BY <1>1 DEF Requested
    <3> QED BY <2>1, <2>2, <2>3, <2>4, <3>1 DEF CheckNeeds, JobInv
  <2>5. CASE CaptureFirst
    <3>1. mainPc' = "second" /\ gen[job.family] > 0 BY <2>5 DEF CaptureFirst, JobInv
    <3>2. CASE GenerationFirst(job.family)
      <4>1. job' = [job EXCEPT !.gen = gen[job.family]] BY <2>5, <3>2 DEF CaptureFirst, Capture
      <4>2. job'.family = job.family /\ job'.gen = gen[job.family] BY <4>1, <1>1 DEF Jobs
      <4>3. gen[job.family] \in 1 .. gen[job.family] BY <1>1, <1>2, <3>1, SMT
      <4> QED BY <2>1, <3>1, <3>2, <4>2, <4>3 DEF JobInv, GenerationFirst
    <3>3. CASE ~GenerationFirst(job.family)
      <4>1. job' = [job EXCEPT !.value = asked[job.family]] BY <2>5, <3>3 DEF CaptureFirst, Capture
      <4>2. job'.family = job.family /\ job'.value = asked[job.family] BY <4>1, <1>1 DEF Jobs
      <4>3. asked[job.family] \in Values(job.family) BY <1>1, <3>1 DEF Requested
      <4> QED BY <2>1, <3>1, <3>3, <4>2, <4>3 DEF JobInv, GenerationFirst
    <3> QED BY <3>2, <3>3
  <2>6. CASE CaptureSecond
    <3>1. mainPc = "second" /\ mainPc' = "build" /\ gen[job.family] > 0
      BY <2>6 DEF CaptureSecond, JobInv
    <3>2. CASE GenerationFirst(job.family)
      <4>1. job' = [job EXCEPT !.value = asked[job.family]] BY <2>6, <3>2 DEF CaptureSecond, Capture
      <4>2. job'.family = job.family /\ job'.gen = job.gen /\ job'.value = asked[job.family]
        BY <4>1, <1>1 DEF Jobs
      <4>3. job.gen \in 1 .. gen[job.family] BY <3>1, <3>2 DEF JobInv
      <4>4. asked[job.family] \in Values(job.family) BY <1>1, <3>1 DEF Requested
      <4> QED BY <2>1, <3>1, <4>2, <4>3, <4>4 DEF JobInv
    <3>3. CASE ~GenerationFirst(job.family)
      <4>1. job' = [job EXCEPT !.gen = gen[job.family]] BY <2>6, <3>3 DEF CaptureSecond, Capture
      <4>2. job'.family = job.family /\ job'.gen = gen[job.family] /\ job'.value = job.value
        BY <4>1, <1>1 DEF Jobs
      <4>3. job.value \in Values(job.family) BY <3>1, <3>3 DEF JobInv
      <4>4. gen[job.family] \in 1 .. gen[job.family] BY <1>1, <1>2, <3>1, SMT
      <4> QED BY <2>1, <3>1, <4>2, <4>3, <4>4 DEF JobInv
    <3> QED BY <3>2, <3>3
  <2>7. CASE GiveUpFailed \/ RearmIfSuperseded
    BY <2>2, <2>3, <2>7 DEF GiveUpFailed, RearmIfSuperseded
  <2>8. CASE BuildAndPush \/ BuildFails \/ RejectWidth \/ RejectFactor
    <3>1. gen[job.family] > 0 BY <2>8 DEF BuildAndPush, BuildFails, RejectWidth, RejectFactor, JobInv
    <3>2. mainPc' \in {"check", "release"} \/ (mainPc' \in {"clear", "withdraw"} /\ job' = job)
      BY <2>2, <2>8 DEF BuildAndPush, BuildFails, RejectWidth, RejectFactor
    <3> QED BY <2>1, <2>3, <3>1, <3>2 DEF JobInv
  <2>9. CASE Clear
    <3>1. gen[job.family] > 0 BY <2>9 DEF Clear, JobInv
    <3>2. mainPc' \in {"check", "release"} \/ (mainPc' = "rearm" /\ job' = job)
      BY <2>2, <2>9 DEF Clear
    <3> QED BY <2>1, <2>3, <3>1, <3>2 DEF JobInv
  <2>10. CASE ReleaseGarbage BY <2>3, <2>10 DEF ReleaseGarbage
  <2> QED BY <1>4, <2>4, <2>5, <2>6, <2>7, <2>8, <2>9, <2>10 DEF ControlLoop
<1> QED BY <1>3, <1>4, Frames

(* The envelope a handler sends.                                           *)
NewEnvelope == [gen |-> job.gen, pair |-> Built]

LEMMA BuiltIsBuildable ==
  ASSUME Types, JobInv, BuildAndPush
  PROVE  /\ Built \in Pairs(job.family) /\ job.gen \in 1 .. gen[job.family]
         /\ NewEnvelope \in Envelopes
<1>1. job.family \in Families BY DEF Types, StepTypes
<1>2. /\ job.gen \in 1 .. gen[job.family] /\ job.value \in Values(job.family) /\ Buildable
  BY Zenon DEF BuildAndPush, JobInv
<1>3. Built \in Pairs(job.family)
  <2>1. CASE job.family = "cab" BY <1>2, <2>1 DEF Built, Pairs, Values
  <2>2. CASE job.family = "slim" BY <1>2, <2>2 DEF Built, Pairs, Values, Buildable
  <2>3. CASE job.family = "os" BY <1>2, <2>3 DEF Built, Pairs, Values, Buildable
  <2> QED BY <1>1, <2>1, <2>2, <2>3 DEF Families
<1>4. Built \in Nat \X Nat BY <1>1, <1>3, PairsAreTyped
<1>5. job.gen \in Nat BY <1>1, <1>2, SMT DEF Types, RequestTypes
<1> QED BY <1>2, <1>3, <1>4, <1>5 DEF NewEnvelope, Envelopes

(* What is in a ring was there before or is the envelope just sent.        *)
LEMMA RingStep ==
  ASSUME Types, JobInv, Stamps, [Next]_vars, NEW f \in Families
  PROVE  /\ ring' \in [Families -> Seq(Envelopes)]
         /\ Len(ring'[f]) \in Nat /\ Len(ring'[f]) <= RingCapacity
         /\ \A i \in 1 .. Len(ring'[f]) :
               \/ \E j \in 1 .. Len(ring[f]) : ring'[f][i] = ring[f][j]
               \/ BuildAndPush /\ job.family = f /\ ring'[f][i] = NewEnvelope
<1>1. /\ ring \in [Families -> Seq(Envelopes)] /\ ring[f] \in Seq(Envelopes) /\ Len(ring[f]) \in Nat
      /\ job.family \in Families
  <2>1. ring \in [Families -> Seq(Envelopes)] /\ job.family \in Families
    BY DEF Types, PairTypes, StepTypes
  <2> QED BY <2>1, SMT
<1>2. Len(ring[f]) <= RingCapacity BY DEF Stamps
<1>3. CASE DrainOne
  <2>1. PICK g \in Families : Drain(g, AfterDrain[g]) BY <1>3 DEF DrainOne
  <2>2. \/ ring' = [ring EXCEPT ![g] = <<>>]
        \/ \E i \in Current(g) : ring' = [ring EXCEPT ![g] = SubSeq(@, i, Len(@))]
    BY <2>1, Zenon DEF Drain, InstallLatest, DiscardStale, LeaveQueued
  <2>3. CASE ring' = [ring EXCEPT ![g] = <<>>]
    <3>1. <<>> \in Seq(Envelopes) /\ Len(<<>>) = 0 /\ RingCapacity \in Nat BY RingAssumption, SMT
    <3>2. ring' \in [Families -> Seq(Envelopes)] BY <2>3, <3>1, <1>1
    <3>3. ring'[f] = <<>> \/ ring'[f] = ring[f] BY <2>3, <1>1
    <3>4. CASE ring'[f] = ring[f] BY <3>2, <3>4, <1>1, <1>2
    <3>5. CASE ring'[f] = <<>>
      <4>1. Len(ring'[f]) = 0 BY <3>1, <3>5
      <4>2. Len(ring'[f]) <= RingCapacity /\ 1 .. Len(ring'[f]) = {} BY <4>1, <3>1, SMT
      <4> QED BY <3>2, <4>1, <4>2
    <3> QED BY <3>3, <3>4, <3>5
  <2>4. CASE \E i \in Current(g) : ring' = [ring EXCEPT ![g] = SubSeq(@, i, Len(@))]
    <3>1. PICK k \in Current(g) : ring' = [ring EXCEPT ![g] = SubSeq(@, k, Len(@))] BY <2>4
    <3> DEFINE rest == SubSeq(ring[g], k, Len(ring[g]))
    <3>2. ring[g] \in Seq(Envelopes) /\ Len(ring[g]) \in Nat BY <1>1, SMT
    <3>3. k \in 1 .. Len(ring[g]) BY <3>2, SMT DEF Current
    <3>4. /\ rest \in Seq(Envelopes) /\ Len(rest) = Len(ring[g]) - k + 1
          /\ \A i \in 1 .. Len(rest) : rest[i] = ring[g][k + i - 1]
      BY <3>2, <3>3, SuffixFacts
    <3>5. ring' = [ring EXCEPT ![g] = rest] BY <3>1
    <3> HIDE DEF rest
    <3>6. ring' \in [Families -> Seq(Envelopes)] BY <3>4, <3>5, <1>1
    <3>7. CASE f = g
      <4>1. ring'[f] = rest BY <3>5, <3>7, <1>1
      <4>2. /\ Len(rest) \in Nat /\ Len(rest) <= RingCapacity
            /\ \A i \in 1 .. Len(rest) : k + i - 1 \in 1 .. Len(ring[g])
        BY <3>2, <3>3, <3>4, <3>7, <1>2, RingAssumption, SMT
      <4> QED BY <3>4, <3>6, <3>7, <4>1, <4>2
    <3>8. CASE f # g
      <4>1. ring'[f] = ring[f] BY <3>5, <3>8, <1>1
      <4> QED BY <3>6, <4>1, <1>1, <1>2
    <3> QED BY <3>7, <3>8
  <2> QED BY <2>2, <2>3, <2>4
<1>4. CASE BuildAndPush
  <2>1. \/ ring' = ring
        \/ /\ Len(ring[job.family]) < RingCapacity
           /\ ring' = [ring EXCEPT ![job.family] = Append(@, NewEnvelope)]
    BY <1>4, Zenon DEF BuildAndPush, NewEnvelope
  <2>2. CASE ring' = ring BY <2>2, <1>1, <1>2
  <2>3. CASE /\ Len(ring[job.family]) < RingCapacity
             /\ ring' = [ring EXCEPT ![job.family] = Append(@, NewEnvelope)]
    <3> DEFINE old == ring[job.family]
    <3>1. NewEnvelope \in Envelopes BY <1>4, BuiltIsBuildable
    <3>2. old \in Seq(Envelopes) BY <1>1
    <3>3. /\ Append(old, NewEnvelope) \in Seq(Envelopes) /\ Len(Append(old, NewEnvelope)) = Len(old) + 1
          /\ Len(old) \in Nat /\ Append(old, NewEnvelope)[Len(old) + 1] = NewEnvelope
          /\ \A i \in 1 .. Len(old) : Append(old, NewEnvelope)[i] = old[i]
      BY <3>1, <3>2, AppendFacts
    <3>4. ring' = [ring EXCEPT ![job.family] = Append(old, NewEnvelope)] BY <2>3
    <3>5. ring' \in [Families -> Seq(Envelopes)] BY <3>3, <3>4, <1>1
    <3>6. CASE f # job.family
      <4>1. ring'[f] = ring[f] BY <3>4, <3>6, <1>1
      <4> QED BY <3>5, <4>1, <1>1, <1>2
    <3>7. CASE f = job.family
      <4>1. ring'[f] = Append(old, NewEnvelope) /\ old = ring[f] /\ Len(old) < RingCapacity
        BY <2>3, <3>4, <3>7, <1>1
      <4> HIDE DEF old
      <4>2. Len(ring'[f]) = Len(old) + 1 /\ Len(ring'[f]) <= RingCapacity /\ Len(ring'[f]) \in Nat
        BY <3>3, <4>1, RingAssumption, SMT
      <4>3. ASSUME NEW i \in 1 .. Len(ring'[f])
            PROVE  (i \in 1 .. Len(old) /\ ring'[f][i] = old[i]) \/ ring'[f][i] = NewEnvelope
        <5>1. i \in 1 .. Len(old) \/ i = Len(old) + 1 BY <3>3, <4>2, SMT
        <5> QED BY <5>1, <3>3, <4>1
      <4> QED BY <1>4, <3>5, <3>7, <4>1, <4>2, <4>3
    <3> QED BY <3>6, <3>7
  <2> QED BY <2>1, <2>2, <2>3
<1>5. CASE UNCHANGED ring BY <1>5, <1>1, <1>2
<1> QED BY <1>3, <1>4, <1>5, Frames

(* A pair in use changes only for one sent under the current generation.   *)
LEMMA ActiveStep ==
  ASSUME Types, [Next]_vars, NEW f \in Families
  PROVE  \/ active'[f] = active[f] /\ applied'[f] = applied[f]
         \/ \E i \in 1 .. Len(ring[f]) : /\ ring[f][i].gen = gen[f] /\ DrainOne
                                        /\ active'[f] = ring[f][i].pair /\ applied'[f] = gen[f]
<1>1. /\ active \in [Families -> Nat \X Nat] /\ applied \in [Families -> Nat]
      /\ ring \in [Families -> Seq(Envelopes)]
  BY DEF Types, PairTypes
<1>2. CASE DrainOne
  <2>1. PICK g \in Families : Drain(g, AfterDrain[g]) BY <1>2 DEF DrainOne
  <2>2. InstallLatest(g) \/ UNCHANGED <<active, applied>>
    BY <2>1, Zenon DEF Drain, DiscardStale, LeaveQueued
  <2>3. CASE InstallLatest(g)
    <3>1. PICK i \in Current(g) : /\ active' = [active EXCEPT ![g] = ring[g][i].pair]
                                  /\ applied' = [applied EXCEPT ![g] = ring[g][i].gen]
      BY <2>3, Zenon DEF InstallLatest
    <3>2. i \in 1 .. Len(ring[g]) /\ ring[g][i].gen = gen[g] BY <1>1, SMT DEF Current
    <3> QED BY <1>1, <1>2, <3>1, <3>2
  <2> QED BY <2>2, <2>3
<1> QED BY <1>2, Frames

LEMMA StampsStep ==
  ASSUME Types, JobInv, Stamps, [Next]_vars
  PROVE  Stamps'
<1> SUFFICES ASSUME NEW f \in Families
             PROVE  /\ active'[f] \in Pairs(f) /\ applied'[f] <= gen'[f]
                    /\ Len(ring'[f]) <= RingCapacity
                    /\ \A i \in 1 .. Len(ring'[f]) : /\ ring'[f][i].gen \in 1 .. gen'[f]
                                                     /\ ring'[f][i].pair \in Pairs(f)
  BY DEF Stamps, Pairs
<1>1. /\ active[f] \in Pairs(f) /\ applied[f] <= gen[f]
      /\ \A i \in 1 .. Len(ring[f]) : ring[f][i].gen \in 1 .. gen[f] /\ ring[f][i].pair \in Pairs(f)
  BY DEF Stamps
<1>2. gen[f] \in Nat /\ gen'[f] \in {gen[f], gen[f] + 1} /\ applied[f] \in Nat
  BY GenStep DEF Types, RequestTypes, PairTypes
<1>3. \A n : n \in 1 .. gen[f] => n \in 1 .. gen'[f] BY <1>2, SMT
<1>4. active'[f] \in Pairs(f) /\ applied'[f] <= gen'[f]
  <2>1. active'[f] \in Pairs(f) /\ (applied'[f] = applied[f] \/ applied'[f] = gen[f])
    BY <1>1, ActiveStep
  <2> QED BY <2>1, <1>1, <1>2, SMT
<1>5. BuildAndPush /\ job.family = f =>
         NewEnvelope.gen \in 1 .. gen[f] /\ NewEnvelope.pair \in Pairs(f)
  BY BuiltIsBuildable DEF NewEnvelope
<1>6. ASSUME NEW i \in 1 .. Len(ring'[f])
      PROVE  ring'[f][i].gen \in 1 .. gen'[f] /\ ring'[f][i].pair \in Pairs(f)
  BY <1>1, <1>3, <1>5, RingStep
<1> QED BY <1>4, <1>6, RingStep

LEMMA PairTypesStep ==
  ASSUME Types, JobInv, Stamps, [Next]_vars
  PROVE  PairTypes'
<1>1. PairTypes /\ asked \in [Families -> Nat] /\ gen \in [Families -> Nat]
  BY DEF Types, RequestTypes
<1>2. ring' \in [Families -> Seq(Envelopes)] BY RingStep DEF Families
<1>3. active' \in [Families -> Nat \X Nat] /\ applied' \in [Families -> Nat]
  <2>1. CASE DrainOne
    <3>1. PICK g \in Families : Drain(g, AfterDrain[g]) BY <2>1 DEF DrainOne
    <3>2. InstallLatest(g) \/ UNCHANGED <<active, applied>>
      BY <3>1, Zenon DEF Drain, DiscardStale, LeaveQueued
    <3>3. CASE InstallLatest(g)
      <4>1. PICK i \in Current(g) : /\ active' = [active EXCEPT ![g] = ring[g][i].pair]
                                    /\ applied' = [applied EXCEPT ![g] = ring[g][i].gen]
        BY <3>3, Zenon DEF InstallLatest
      <4>2. i \in 1 .. Len(ring[g]) BY <1>1, SMT DEF Current, PairTypes
      <4>3. ring[g][i] \in Envelopes BY <1>1, <4>2, ElementInSet DEF PairTypes
      <4> QED BY <1>1, <4>1, <4>3 DEF PairTypes, Envelopes
    <3> QED BY <1>1, <3>2, <3>3 DEF PairTypes
  <2> QED BY <1>1, <2>1, Frames DEF PairTypes
<1>4. failed' \in [Families -> Nat]
  <2>1. None \in Nat BY DEF None
  <2>2. CASE DrainOne
    <3>1. PICK g \in Families : Drain(g, AfterDrain[g]) BY <2>2 DEF DrainOne
    <3>2. failed' = failed \/ \E i \in Current(g) :
             failed' = [failed EXCEPT !["cab"] = FailedKey(ring[g][i].pair)]
      BY <3>1, Zenon DEF Drain, InstallLatest, DiscardStale, LeaveQueued
    <3>3. \A p : FailedKey(p) \in Nat BY <1>1, <2>1 DEF FailedKey, Families
    <3>4. CASE \E i \in Current(g) : failed' = [failed EXCEPT !["cab"] = FailedKey(ring[g][i].pair)]
      <4>1. PICK k \in Nat : failed' = [failed EXCEPT !["cab"] = k] BY <3>3, <3>4
      <4> QED BY <1>1, <4>1 DEF PairTypes
    <3> QED BY <1>1, <3>2, <3>4 DEF PairTypes
  <2>3. CASE BuildAndPush
    BY <1>1, <2>1, <2>3, Zenon DEF BuildAndPush, ForgetFailure, PairTypes
  <2>4. CASE BuildFails \/ RejectFactor
    <3>1. mainPc = "build" /\ failed' = [failed EXCEPT ![job.family] = job.gen]
      BY <2>4, Zenon DEF BuildFails, RejectFactor, RememberFailure
    <3>2. job.gen \in Nat /\ job.family \in Families
      <4>1. job.family \in Families BY DEF Types, StepTypes
      <4>2. job.gen \in 1 .. gen[job.family] BY <3>1 DEF JobInv
      <4>3. gen[job.family] \in Nat BY <1>1, <4>1
      <4> QED BY <4>1, <4>2, <4>3, SMT
    <3> QED BY <1>1, <3>1, <3>2 DEF PairTypes
  <2> QED BY <1>1, <2>2, <2>3, <2>4, Frames DEF PairTypes
<1> QED BY <1>2, <1>3, <1>4 DEF PairTypes

-----------------------------------------------------------------------------
(* The value behind a generation.                                          *)
Snap(f) ==
    /\ \A i \in 1 .. Len(ring[f]) : ring[f][i].gen = gen[f] => ring[f][i].pair = Answer(f)
    /\ mainPc = "build" /\ job.family = f /\ job.gen = gen[f] => job.value = asked[f]

InUse(f) == applied[f] = gen[f] /\ gen[f] > 0 => active[f] = Answer(f)

LEMMA SnapStep ==
  ASSUME Types, JobInv, Stamps, [Next]_vars, NEW f \in {"cab", "os"},
         ~Publishing(f) => Snap(f) /\ InUse(f)
  PROVE  (~Publishing(f))' => (Snap(f))' /\ (InUse(f))'
<1> SUFFICES ASSUME ~(Publishing(f))' PROVE (Snap(f))' /\ (InUse(f))' OBVIOUS
<1>0. f \in Families /\ rtPc' # Advancing[f] BY DEF Families, Publishing
<1>1. gen[f] \in Nat /\ applied[f] \in Nat /\ job \in Jobs
  BY <1>0 DEF Types, RequestTypes, PairTypes, StepTypes, Jobs
<1>2. CASE AdvanceGeneration(f)
  <2>1. gen'[f] = gen[f] + 1 /\ UNCHANGED <<ring, applied, mainPc, job>>
    BY <1>0, <1>2 DEF AdvanceGeneration, pairVars, mainVars, Types, RequestTypes
  <2>2. \A i \in 1 .. Len(ring[f]) : ring[f][i].gen \in 1 .. gen[f]
    BY <1>0 DEF Stamps
  <2>3. mainPc = "build" /\ job.family = f => job.gen \in 1 .. gen[f] BY DEF JobInv
  <2>4. applied[f] <= gen[f] BY <1>0 DEF Stamps
  <2>5. \A n \in 1 .. gen[f] : n # gen[f] + 1 BY <1>1, SMT
  <2>6. applied[f] # gen[f] + 1 BY <1>1, <2>4, SMT
  <2> QED BY <2>1, <2>2, <2>3, <2>5, <2>6 DEF Snap, InUse
<1>3. CASE ~AdvanceGeneration(f)
  <2>1. gen'[f] = gen[f] /\ rtPc # Advancing[f] BY <1>0, <1>3, GenStep
  <2>2. asked'[f] = asked[f] BY <1>0, AskedStep
  <2>3. Snap(f) /\ InUse(f) BY <2>1 DEF Publishing
  <2>4. (Answer(f))' = Answer(f) BY <1>0, <2>2 DEF Answer, Twin, NoPair, None
  <2>5. BuildAndPush /\ job.family = f /\ job.gen = gen[f] => Built = Answer(f)
    <3>1. BuildAndPush /\ job.family = f /\ job.gen = gen[f] => job.value = asked[f]
      BY <2>3 DEF BuildAndPush, Snap
    <3> QED BY <3>1 DEF Built, Answer
  <2>6. ASSUME NEW i \in 1 .. Len(ring'[f]), ring'[f][i].gen = gen'[f]
        PROVE  ring'[f][i].pair = (Answer(f))'
    <3>1. \/ \E j \in 1 .. Len(ring[f]) : ring'[f][i] = ring[f][j]
          \/ BuildAndPush /\ job.family = f /\ ring'[f][i] = NewEnvelope
      BY <1>0, RingStep
    <3>2. CASE BuildAndPush /\ job.family = f /\ ring'[f][i] = NewEnvelope
      BY <2>1, <2>4, <2>5, <2>6, <3>2 DEF NewEnvelope
    <3> QED BY <2>1, <2>3, <2>4, <2>6, <3>1, <3>2 DEF Snap
  <2>7. ASSUME mainPc' = "build", job'.family = f, job'.gen = gen'[f]
        PROVE  job'.value = asked'[f]
    <3>1. CASE UNCHANGED <<mainPc, job>> BY <2>1, <2>2, <2>3, <2>7, <3>1 DEF Snap
    <3>2. CASE CaptureSecond
      <4>1. job' = [job EXCEPT !.value = asked[job.family]] \/ job' = [job EXCEPT !.gen = gen[job.family]]
        BY <3>2 DEF CaptureSecond, Capture
      <4>2. job.family = f BY <4>1, <2>7, <1>1 DEF Jobs
      <4>3. GenerationFirst(f) BY DEF GenerationFirst
      <4>4. job' = [job EXCEPT !.value = asked[job.family]]
        BY <3>2, <4>2, <4>3 DEF CaptureSecond, Capture
      <4> QED BY <1>1, <2>2, <4>2, <4>4 DEF Jobs
    <3>3. CASE ControlLoop /\ ~CaptureSecond
      <4>1. NextHandler => mainPc' # "build" BY HandlerOver DEF Types
      <4>2. mainPc' # "build"
        BY <3>3, <4>1 DEF ControlLoop, CheckNeeds, CaptureFirst, GiveUpFailed, BuildAndPush,
           BuildFails, RejectWidth, RejectFactor, Clear, RearmIfSuperseded, ReleaseGarbage
      <4> QED BY <2>7, <4>2
    <3> QED BY <3>1, <3>2, <3>3, Frames
  <2>8. (Snap(f))' BY <2>6, <2>7 DEF Snap
  <2>9. (InUse(f))'
    <3>1. CASE active'[f] = active[f] /\ applied'[f] = applied[f]
      BY <2>1, <2>3, <2>4, <3>1 DEF InUse
    <3>2. CASE \E i \in 1 .. Len(ring[f]) : ring[f][i].gen = gen[f] /\ active'[f] = ring[f][i].pair
      BY <2>3, <2>4, <3>2 DEF InUse, Snap
    <3> QED BY <1>0, <3>1, <3>2, ActiveStep
  <2> QED BY <2>8, <2>9
<1> QED BY <1>2, <1>3

LEMMA SnapshotIs ==
  Snapshot /\ InstalledAsRequested <=>
     \A f \in {"cab", "os"} : ~Publishing(f) => Snap(f) /\ InUse(f)
  BY DEF Snapshot, InstalledAsRequested, Snap, InUse, Answer

LEMMA SnapshotStep ==
  ASSUME Types, JobInv, Stamps, Snapshot, InstalledAsRequested, [Next]_vars
  PROVE  Snapshot' /\ InstalledAsRequested'
<1>1. \A f \in {"cab", "os"} : ~Publishing(f) => Snap(f) /\ InUse(f) BY SnapshotIs
<1>2. \A f \in {"cab", "os"} : (~Publishing(f))' => (Snap(f))' /\ (InUse(f))' BY <1>1, SnapStep
<1> QED BY <1>2 DEF Snapshot, InstalledAsRequested, Snap, InUse, Answer, Publishing

-----------------------------------------------------------------------------
(* Commands.                                                               *)
LEMMA WindowStep ==
  ASSUME Types, Window, [Next]_vars
  PROVE  Window'
<1>1. budget \in {0, 1} BY DEF Types, StepTypes
<1>2. ASSUME candidate' = None PROVE Window' BY <1>2 DEF Window
<1>3. ASSUME candidate' = candidate, rtPc \notin {"commands", "advance os", "arm os"} PROVE Window'
  BY <1>3 DEF Window
<1>4. ASSUME candidate' = candidate, budget' = budget,
             rtPc' \in {"commands", "advance os", "arm os"}
      PROVE  Window'
  BY <1>4 DEF Window
<1>5. CASE Callback
  <2>1. CASE Begin
    BY <2>1, <1>3, Zenon DEF Begin, BeginCallback, RequestResampler, ResamplerArrives, BeginWith
  <2>2. CASE DrainOne
    <3>1. PICK f \in Families : Drain(f, AfterDrain[f]) BY <2>2 DEF DrainOne
    <3>2. rtPc = Draining[f] /\ candidate' = candidate BY <3>1, Zenon DEF Drain, commandVars
    <3>3. Draining[f] \in {"drain cab", "drain slim", "drain os"} BY StepNames
    <3> QED BY <3>2, <3>3, <1>3
  <2>3. CASE TakeGain \/ TakeOversample
    <3>1. UNCHANGED <<candidate, budget>> /\ rtPc' \in {rtPc, "advance os"} /\ rtPc = "commands"
      BY <2>3, StepNames DEF TakeGain, TakeOversample, MayPop, PopCommand, StoreRequest
    <3> QED BY <3>1, <1>4
  <2>4. CASE TakeModel
    <3>1. /\ rtPc = "commands" /\ rtPc' = rtPc /\ budget' = budget
          /\ candidate = None => budget > 0
      BY <2>4, Zenon DEF TakeModel, MayPop, PopCommand
    <3>2. budget = 1 BY <1>1, <3>1, SMT DEF Window
    <3> QED BY <3>1, <3>2 DEF Window
  <2>5. CASE AdvanceOne
    <3>1. PICK f \in Families : AdvanceGeneration(f) BY <2>5 DEF AdvanceOne
    <3>2. rtPc = Advancing[f] /\ rtPc' = Arming[f] /\ UNCHANGED <<candidate, budget>>
      BY <3>1 DEF AdvanceGeneration, commandVars
    <3>3. CASE f = "os" BY <3>2, <3>3, <1>4 DEF Arming
    <3>4. CASE f # "os"
      <4>1. Advancing[f] \in {"advance cab", "advance slim"} BY <3>4, StepNames
      <4> QED BY <3>2, <4>1, <1>3
    <3> QED BY <3>3, <3>4
  <2>6. CASE ArmOne
    <3>1. PICK f \in Families : Arm(f, AfterArm[f]) BY <2>6 DEF ArmOne
    <3>2. rtPc = Arming[f] /\ rtPc' = AfterArm[f] /\ UNCHANGED <<candidate, budget>>
      BY <3>1 DEF Arm, commandVars
    <3>3. CASE f = "os" BY <3>2, <3>3, <1>4 DEF AfterArm
    <3>4. CASE f # "os"
      <4>1. Arming[f] \in {"arm cab", "arm slim"} BY <3>4, StepNames
      <4> QED BY <3>2, <4>1, <1>3
    <3> QED BY <3>3, <3>4
  <2>7. CASE EndCommands BY <2>7, <1>2 DEF EndCommands
  <2>8. CASE TrySlimmableRebuild \/ CheckCab \/ SkipQuantum
    BY <2>8, <1>3 DEF TrySlimmableRebuild, CheckCab, SkipQuantum, commandVars
  <2> QED BY <1>5, <2>1, <2>2, <2>3, <2>4, <2>5, <2>6, <2>7, <2>8, CallbackCases
<1>6. CASE ~Callback
  <2>1. TakeModel \/ EndCommands => Callback BY DEF Callback, Prologue
  <2>2. UNCHANGED <<candidate, rtPc, budget>> BY <1>6, <2>1, Frames
  <2> QED BY <2>2 DEF Window
<1> QED BY <1>5, <1>6

(* The queue loses a command at its head or gains one at its end.          *)
LEMMA QueueStep ==
  ASSUME Types, [Next]_vars
  PROVE  \/ /\ params # <<>> /\ params' = Tail(params) /\ latest' = latest
            /\ \/ Head1.kind = "gain" /\ gain' = Head1.value /\ UNCHANGED <<candidate, model>>
               \/ Head1.kind = "os" /\ UNCHANGED <<gain, candidate, model>>
               \/ /\ Head1.kind = "model" /\ candidate' = Head1.value /\ Head1.value # None
                  /\ UNCHANGED <<gain, model>>
         \/ /\ UNCHANGED <<gain, candidate, model>>
            /\ \E kind \in {"model", "gain", "os"} : \E v \in Nat :
                  /\ params' = Append(params, [kind |-> kind, value |-> v])
                  /\ latest' = IF kind = "os" THEN latest ELSE [latest EXCEPT ![kind] = v]
         \/ UNCHANGED <<params, latest, gain>> /\ Loading' = Loading
<1>1. CASE TakeGain BY <1>1 DEF TakeGain, MayPop, PopCommand
<1>2. CASE TakeOversample BY <1>2 DEF TakeOversample, MayPop, PopCommand
<1>3. CASE TakeModel
  <2>1. params # <<>> /\ Head1.kind = "model" BY <1>3, Zenon DEF TakeModel, MayPop
  <2>2. Head1.value # None BY <2>1, CommandHead
  <2> QED BY <1>3, <2>1, <2>2, Zenon DEF TakeModel, PopCommand, KeepLast
<1>4. CASE SendOne
  <2>1. PICK kind \in {"model", "gain", "os"} : Send(kind) BY <1>4 DEF SendOne
  <2>2. PICK v \in IF kind = "os" THEN Factors ELSE {events + 1} :
          /\ params' = Append(params, [kind |-> kind, value |-> v])
          /\ latest' = IF kind = "os" THEN latest ELSE [latest EXCEPT ![kind] = v]
    BY <2>1, Zenon DEF Send
  <2>3. events \in Nat /\ Factors \subseteq Nat BY ValueAssumption DEF Types, GarbageTypes
  <2>4. v \in Nat
    <3>1. CASE kind = "os" BY <2>3, <3>1
    <3>2. CASE kind # "os"
      <4>1. v = events + 1 BY <3>2
      <4> QED BY <2>3, <4>1, SMT
    <3> QED BY <3>1, <3>2
  <2>5. UNCHANGED <<gain, candidate, model>> BY <2>1 DEF Send
  <2> QED BY <2>2, <2>4, <2>5
<1>5. CASE EndCommands BY <1>5 DEF EndCommands, Loading, None
<1>6. CASE UNCHANGED <<params, latest, gain, candidate, model>> BY <1>6 DEF Loading
<1>7. CASE ~TakeGain /\ ~TakeOversample /\ ~TakeModel /\ ~SendOne /\ ~EndCommands
  BY <1>6, <1>7, Frames
<1> QED BY <1>1, <1>2, <1>3, <1>4, <1>5, <1>7

LEMMA LastQueuedStep ==
  ASSUME Types, LastQueued, [Next]_vars
  PROVE  LastQueued'
<1>1. params \in Seq(Commands) /\ latest \in [model : Nat, gain : Nat]
  BY DEF Types, CommandTypes
<1>2. /\ \A i \in 1 .. Len(params) : params[i].kind # "os" /\ ~Superseding(i) =>
            params[i].value = latest[params[i].kind]
      /\ (\A i \in 1 .. Len(params) : params[i].kind # "gain") => gain = latest.gain
      /\ (\A i \in 1 .. Len(params) : params[i].kind # "model") => Loading = latest.model
  BY DEF LastQueued
<1>3. CASE /\ params # <<>> /\ params' = Tail(params) /\ latest' = latest
           /\ \/ Head1.kind = "gain" /\ gain' = Head1.value /\ UNCHANGED <<candidate, model>>
              \/ Head1.kind = "os" /\ UNCHANGED <<gain, candidate, model>>
              \/ /\ Head1.kind = "model" /\ candidate' = Head1.value /\ Head1.value # None
                 /\ UNCHANGED <<gain, model>>
  <2>1. /\ Len(params') = Len(params) - 1 /\ Len(params) \in Nat \ {0}
        /\ \A i \in 1 .. Len(params') : params'[i] = params[i + 1]
    BY <1>1, <1>3, TailFacts
  <2>2. \A i \in 1 .. Len(params') : i + 1 \in 1 .. Len(params) BY <2>1, SMT
  <2>3. \A i \in 1 .. Len(params) : i = 1 \/ (i - 1 \in 1 .. Len(params') /\ i = (i - 1) + 1)
    BY <2>1, SMT
  <2>4. ASSUME NEW i \in 1 .. Len(params'), params'[i].kind # "os", ~(Superseding(i))'
        PROVE  params'[i].value = latest'[params'[i].kind]
    <3>1. i + 1 \in 1 .. Len(params) /\ params'[i] = params[i + 1] BY <2>1, <2>2
    <3>2. ~Superseding(i + 1)
      <4>1. SUFFICES ASSUME NEW j \in 1 .. Len(params), i + 1 < j,
                            params[j].kind = params[i + 1].kind
                     PROVE  FALSE
        BY DEF Superseding
      <4>2. j - 1 \in 1 .. Len(params') /\ i < j - 1 /\ (j - 1) + 1 = j BY <2>1, <4>1, SMT
      <4>3. params'[j - 1] = params[j] BY <2>1, <4>2
      <4> QED BY <2>4, <3>1, <4>1, <4>2, <4>3 DEF Superseding
    <3> QED BY <1>2, <1>3, <2>4, <3>1, <3>2
  <2>5. ASSUME NEW k \in {"gain", "model"}, \A i \in 1 .. Len(params') : params'[i].kind # k
        PROVE  IF Head1.kind = k THEN Head1.value = latest[k]
               ELSE \A i \in 1 .. Len(params) : params[i].kind # k
    <3>1. \A i \in 1 .. Len(params) : i # 1 => params[i].kind # k
      <4> SUFFICES ASSUME NEW i \in 1 .. Len(params), i # 1 PROVE params[i].kind # k OBVIOUS
      <4>1. i - 1 \in 1 .. Len(params') /\ (i - 1) + 1 = i BY <2>3
      <4> QED BY <2>1, <2>5, <4>1
    <3>2. CASE Head1.kind = k
      <4>1. 1 \in 1 .. Len(params) /\ \A j \in 1 .. Len(params) : 1 < j => j # 1 BY <2>1, SMT
      <4>2. ~Superseding(1) BY <3>1, <3>2, <4>1 DEF Superseding, Head1
      <4>3. params[1].kind # "os" BY <3>2 DEF Head1
      <4> QED BY <1>2, <3>2, <4>1, <4>2, <4>3 DEF Head1
    <3>3. CASE Head1.kind # k BY <3>1, <3>3 DEF Head1
    <3> QED BY <3>2, <3>3
  <2>6. (\A i \in 1 .. Len(params') : params'[i].kind # "gain") => gain' = latest'.gain
    BY <1>2, <1>3, <2>5
  <2>7. (\A i \in 1 .. Len(params') : params'[i].kind # "model") => Loading' = latest'.model
    <3> SUFFICES ASSUME \A i \in 1 .. Len(params') : params'[i].kind # "model"
                 PROVE  Loading' = latest'.model
      OBVIOUS
    <3>1. CASE Head1.kind = "model" BY <1>3, <2>5, <3>1 DEF Loading
    <3>2. CASE Head1.kind # "model"
      <4>1. Loading = latest.model BY <1>2, <2>5, <3>2
      <4> QED BY <1>3, <3>2, <4>1 DEF Loading
    <3> QED BY <3>1, <3>2
  <2> QED BY <2>4, <2>6, <2>7 DEF LastQueued
<1>4. CASE /\ UNCHANGED <<gain, candidate, model>>
           /\ \E kind \in {"model", "gain", "os"} : \E v \in Nat :
                 /\ params' = Append(params, [kind |-> kind, value |-> v])
                 /\ latest' = IF kind = "os" THEN latest ELSE [latest EXCEPT ![kind] = v]
  <2>1. PICK kind \in {"model", "gain", "os"} : \E v \in Nat :
           /\ params' = Append(params, [kind |-> kind, value |-> v])
           /\ latest' = IF kind = "os" THEN latest ELSE [latest EXCEPT ![kind] = v]
    BY <1>4
  <2>2. PICK v \in Nat : /\ params' = Append(params, [kind |-> kind, value |-> v])
                         /\ latest' = IF kind = "os" THEN latest ELSE [latest EXCEPT ![kind] = v]
    BY <2>1
  <2> DEFINE c == [kind |-> kind, value |-> v]
  <2>3. c \in Commands /\ c.kind = kind /\ c.value = v BY DEF Commands
  <2>4. params' = Append(params, c) BY <2>2
  <2> HIDE DEF c
  <2>5. /\ Len(params') = Len(params) + 1 /\ Len(params) \in Nat
        /\ params'[Len(params) + 1] = c /\ \A i \in 1 .. Len(params) : params'[i] = params[i]
    BY <1>1, <2>3, <2>4, AppendFacts
  <2>6. /\ Len(params) + 1 \in 1 .. Len(params')
        /\ \A i \in 1 .. Len(params') : i # Len(params) + 1 => i \in 1 .. Len(params)
        /\ \A i \in 1 .. Len(params) : i \in 1 .. Len(params') /\ i < Len(params) + 1
    BY <2>5, SMT
  <2>7. /\ kind # "os" => latest'[kind] = v
        /\ \A k \in {"model", "gain"} : k # kind => latest'[k] = latest[k]
    BY <1>1, <2>2
  <2>8. ASSUME NEW i \in 1 .. Len(params'), params'[i].kind # "os", ~(Superseding(i))'
        PROVE  params'[i].value = latest'[params'[i].kind]
    <3>1. CASE i = Len(params) + 1 BY <2>3, <2>5, <2>7, <2>8, <3>1
    <3>2. CASE i # Len(params) + 1
      <4>1. i \in 1 .. Len(params) /\ params'[i] = params[i] BY <2>5, <2>6, <3>2
      <4>2. params[i].kind # kind BY <2>3, <2>5, <2>6, <2>8, <4>1 DEF Superseding
      <4>3. ~Superseding(i) BY <2>5, <2>6, <2>8, <4>1 DEF Superseding
      <4>4. params[i].kind \in {"model", "gain"}
        <5>1. params[i] \in Commands BY <1>1, <4>1, ElementInSet
        <5> QED BY <2>8, <4>1, <5>1 DEF Commands
      <4> QED BY <1>2, <2>7, <2>8, <4>1, <4>2, <4>3, <4>4
    <3> QED BY <3>1, <3>2
  <2>9. ASSUME NEW k \in {"model", "gain"}, \A i \in 1 .. Len(params') : params'[i].kind # k
        PROVE  (\A i \in 1 .. Len(params) : params[i].kind # k) /\ latest'[k] = latest[k]
    BY <2>3, <2>5, <2>6, <2>7, <2>9
  <2>10. latest'.gain = latest'["gain"] /\ latest'.model = latest'["model"] /\ Loading' = Loading
    BY <1>4 DEF Loading
  <2> QED BY <1>2, <1>4, <2>8, <2>9, <2>10 DEF LastQueued
<1>5. CASE UNCHANGED <<params, latest, gain>> /\ Loading' = Loading
  BY <1>5, <1>2 DEF LastQueued, Superseding
<1> QED BY <1>3, <1>4, <1>5, QueueStep

-----------------------------------------------------------------------------
(* The invariant holds, and with it the properties.                        *)
LEMMA SwapInit == ASSUME Init PROVE SwapInv
<1> USE DEF Init
<1>1. 0 \in Nat /\ None \in Nat /\ None = 0 /\ FirstRate \in Nat BY ValueAssumption DEF None
<1>2. RequestTypes BY <1>1 DEF RequestTypes
<1>3. Twin(Full) \in Nat \X Nat /\ Twin(StartFactor) \in Nat \X Nat /\ NoPair \in Nat \X Nat
  BY <1>1, ValueAssumption DEF Twin, NoPair
<1>4. <<>> \in Seq(Envelopes) /\ Len(<<>>) = 0 /\ <<>> \in Seq(Commands) /\ 1 .. 0 = {} BY SMT
<1>5. PairTypes BY <1>1, <1>3, <1>4 DEF PairTypes, Families
<1>6. 0 \in 0 .. ParamBudget BY BoundAssumption, SMT
<1>7. CommandTypes BY <1>1, <1>4, <1>6 DEF CommandTypes
<1>8. StepTypes
  <2>1. Job("cab") \in [family : Families, gen : Nat \cup {NotRead}, value : Nat]
    BY <1>1 DEF Job, Families
  <2>2. budget \in {0, 1} /\ muted \in BOOLEAN /\ hostRate \in Rates BY ValueAssumption
  <2> QED BY <2>1, <2>2 DEF StepTypes
<1>9. GarbageTypes
  <2>1. 0 <= GcCapacity /\ 0 <= LotSize /\ ~(0 > 0) BY BoundAssumption, SMT
  <2>2. dirty \in BOOLEAN /\ (lot > 0 => dirty)
    <3>1. dirty = FALSE /\ lot = 0 OBVIOUS
    <3>2. ~(lot > 0) BY <2>1, <3>1
    <3> QED BY <3>1, <3>2
  <2>3. gc \in Nat /\ gc <= GcCapacity /\ lot \in Nat /\ lot <= LotSize BY <1>1, <2>1
  <2>4. /\ overflow \in Nat /\ made \in Nat /\ released \in Nat
        /\ events \in Nat /\ faults \in Nat
    BY <1>1
  <2> QED BY <2>2, <2>3, <2>4 DEF GarbageTypes
<1>10. Requested
  <2> SUFFICES ASSUME NEW f \in Families
               PROVE  /\ gen[f] > 0 \/ rtPc \in {Advancing[f], Arming[f]} => asked[f] \in Values(f)
                      /\ needs[f] \/ rtPc = Arming[f] => gen[f] > 0
    BY DEF Requested
  <2>1. rtPc \in Elsewhere BY DEF Elsewhere
  <2>2. rtPc # Advancing[f] /\ rtPc # Arming[f] BY <2>1, StepNames
  <2>3. gen[f] = 0 /\ needs[f] = FALSE /\ ~(0 > 0) OBVIOUS
  <2> QED BY <2>2, <2>3
<1>11. JobInv BY DEF JobInv
<1>12. \A f \in Families : active[f] \in Pairs(f) BY DEF Families, Pairs
<1>13. Stamps BY <1>4, <1>12, RingAssumption, SMT DEF Stamps
<1>14. Snapshot BY <1>4 DEF Snapshot, Families
<1>15. InstalledAsRequested BY DEF InstalledAsRequested, Families
<1>16. LastQueued BY <1>4 DEF LastQueued, Loading
<1>17. Window BY DEF Window
<1> QED BY <1>2, <1>5, <1>7, <1>8, <1>9, <1>10, <1>11, <1>13, <1>14, <1>15, <1>16, <1>17
        DEF SwapInv, Types

LEMMA SwapStep == ASSUME SwapInv, [Next]_vars PROVE SwapInv'
<1>1. /\ Types /\ Requested /\ JobInv /\ Stamps /\ Snapshot /\ InstalledAsRequested
      /\ LastQueued /\ Window
  BY DEF SwapInv
<1>2. StepTypes' /\ CommandTypes' BY <1>1, StepTypesStep, CommandTypesStep
<1>3. Types'
  BY <1>1, <1>2, RequestTypesStep, PairTypesStep, GarbageTypesStep DEF Types
<1>4. Requested' /\ JobInv' BY <1>1, RequestedStep, JobInvStep
<1>5. Stamps' BY <1>1, StampsStep
<1>6. Snapshot' /\ InstalledAsRequested' BY <1>1, SnapshotStep
<1>7. LastQueued' /\ Window' BY <1>1, LastQueuedStep, WindowStep
<1> QED BY <1>3, <1>4, <1>5, <1>6, <1>7 DEF SwapInv

THEOREM SwapInvariant == Spec => []SwapInv
  BY SwapInit, SwapStep, PTL DEF Spec

(* Every pair in use or on its way can be built, and its generation is not *)
(* of the future.                                                          *)
THEOREM TypeCorrect == Spec => []TypeOK
<1>1. ASSUME SwapInv PROVE TypeOK
  <2>1. Types /\ Stamps BY <1>1 DEF SwapInv
  <2>2. ASSUME NEW f \in Families
        PROVE  /\ active[f] \in Pairs(f) /\ applied[f] \in 0 .. gen[f]
               /\ \A i \in DOMAIN ring[f] :
                      ring[f][i].gen \in 1 .. gen[f] /\ ring[f][i].pair \in Pairs(f)
               /\ Len(ring[f]) <= RingCapacity /\ needs[f] \in BOOLEAN
    <3>1. /\ active[f] \in Pairs(f) /\ applied[f] <= gen[f] /\ Len(ring[f]) <= RingCapacity
          /\ \A i \in 1 .. Len(ring[f]) :
                ring[f][i].gen \in 1 .. gen[f] /\ ring[f][i].pair \in Pairs(f)
      BY <2>1 DEF Stamps
    <3>2. applied[f] \in Nat /\ gen[f] \in Nat /\ needs[f] \in BOOLEAN /\ ring[f] \in Seq(Envelopes)
      BY <2>1 DEF Types, PairTypes, RequestTypes
    <3>3. applied[f] \in 0 .. gen[f] BY <3>1, <3>2, SMT
    <3>4. DOMAIN ring[f] = 1 .. Len(ring[f]) BY <3>2, SMT
    <3> QED BY <3>1, <3>2, <3>3, <3>4
  <2>3. budget \in {0, 1} /\ pops \in 0 .. ParamBudget
    BY <2>1 DEF Types, StepTypes, CommandTypes
  <2>4. gc \in Nat /\ gc <= GcCapacity /\ lot \in Nat /\ lot <= LotSize /\ (lot > 0 => dirty)
    BY <2>1 DEF Types, GarbageTypes
  <2>5. gc \in 0 .. GcCapacity /\ lot \in 0 .. LotSize BY <2>4, BoundAssumption, SMT
  <2> QED BY <2>2, <2>3, <2>4, <2>5 DEF TypeOK
<1> QED BY <1>1, SwapInvariant, PTL

(* The pair in use under the latest generation answers what that           *)
(* generation asked for, however the two threads interleave.               *)
THEOREM SwapsAnswerRequests == Spec => []InstalledAsRequested
<1>1. SwapInv => InstalledAsRequested BY DEF SwapInv
<1> QED BY <1>1, SwapInvariant, PTL

(* With nothing queued, the last model and gain sent are in use.           *)
THEOREM CommandsConverge == Spec => []LastCommandWins
<1>1. ASSUME SwapInv PROVE LastCommandWins
  <2>1. LastQueued BY <1>1 DEF SwapInv
  <2>2. ASSUME params = <<>>, candidate = None
        PROVE  model = latest.model /\ gain = latest.gain
    <3>1. 1 .. Len(params) = {} BY <2>2, SMT
    <3> QED BY <2>1, <2>2, <3>1 DEF LastQueued, Loading
  <2> QED BY <2>2 DEF LastCommandWins
<1> QED BY <1>1, SwapInvariant, PTL

-----------------------------------------------------------------------------
(* No request is forgotten.                                                *)

(* Until a handler clears it, the flag it works on is up.  What it has     *)
(* answered stays answered until it compares the generations, and it       *)
(* withdraws a flag only for a factor that was refused.                    *)
Busy == {"first", "second", "build", "clear", "withdraw"}

Standing ==
    /\ refused \in [Families -> Nat]
    /\ mainPc \in Busy => needs[job.family]
    /\ mainPc \in {"clear", "withdraw", "rearm"} => job.gen \in 1 .. gen[job.family]
    /\ mainPc \in {"clear", "rearm"} /\ job.gen = gen[job.family] => Answered(job.family)
    /\ mainPc = "withdraw" => job.family = "os" /\ refused["os"] = job.gen
    /\ RequestsStand

LEMMA LoopKeeps ==
  ASSUME ControlLoop
  PROVE  /\ UNCHANGED <<gen, rtPc, applied>>
         /\ NextHandler => mainPc' \in {"check", "release"}
<1>1. UNCHANGED <<gen, rtPc, applied>>
  BY DEF ControlLoop, CheckNeeds, CaptureFirst, CaptureSecond, Capture, GiveUpFailed,
     BuildAndPush, BuildFails, RejectWidth, RejectFactor, Clear, RearmIfSuperseded,
     ReleaseGarbage, requestVars, pairVars, callbackVars
<1> QED BY <1>1 DEF NextHandler

(* What a step of the control loop may do to its step and its job.         *)
LEMMA LoopStep ==
  ASSUME Types, ControlLoop
  PROVE  \/ mainPc' \in {"check", "release"}
         \/ CheckNeeds /\ needs[job.family] /\ mainPc' = "first" /\ job' = job
         \/ CaptureFirst /\ mainPc' = "second" /\ job'.family = job.family
         \/ CaptureSecond /\ mainPc' = "build" /\ job'.family = job.family
         \/ BuildAndPush /\ mainPc' = "clear" /\ job' = job
         \/ BuildFails /\ mainPc' = "clear" /\ job' = job
         \/ RejectWidth /\ mainPc' = "clear" /\ job' = job
         \/ RejectFactor /\ mainPc' = "withdraw" /\ job' = job
         \/ Clear /\ mainPc = "clear" /\ mainPc' = "rearm" /\ job' = job
<1>1. job \in Jobs BY DEF Types, StepTypes, Jobs
<1>2. NextHandler => mainPc' \in {"check", "release"} BY LoopKeeps
<1>3. CASE CheckNeeds BY <1>2, <1>3 DEF CheckNeeds
<1>4. CASE CaptureFirst \/ CaptureSecond
  <2>1. \/ job' = [job EXCEPT !.gen = gen[job.family]]
        \/ job' = [job EXCEPT !.value = asked[job.family]]
    BY <1>4 DEF CaptureFirst, CaptureSecond, Capture
  <2>2. job'.family = job.family BY <2>1, <1>1 DEF Jobs
  <2> QED BY <1>4, <2>2 DEF CaptureFirst, CaptureSecond
<1>5. CASE BuildAndPush BY <1>2, <1>5 DEF BuildAndPush
<1>6. CASE BuildFails \/ RejectWidth BY <1>6 DEF BuildFails, RejectWidth
<1>7. CASE RejectFactor BY <1>2, <1>7 DEF RejectFactor
<1>8. CASE Clear BY <1>2, <1>8 DEF Clear
<1>9. CASE GiveUpFailed \/ RearmIfSuperseded \/ ReleaseGarbage
  BY <1>2, <1>9 DEF GiveUpFailed, RearmIfSuperseded, ReleaseGarbage
<1> QED BY <1>3, <1>4, <1>5, <1>6, <1>7, <1>8, <1>9 DEF ControlLoop

(* Only a handler that is done lowers a flag, and the callback that has    *)
(* the flag to raise raises it.                                            *)
LEMMA FlagStep ==
  ASSUME Types, [Next]_vars, NEW f \in Families
  PROVE  /\ needs[f] => needs'[f] \/ (Clear /\ job.family = f)
         /\ rtPc = Arming[f] => rtPc' = Arming[f] \/ needs'[f]
<1>1. needs \in [Families -> BOOLEAN] /\ job.family \in Families
  BY DEF Types, RequestTypes, StepTypes
<1>2. needs[f] => needs'[f] \/ (Clear /\ job.family = f)
  <2>1. CASE ArmOne BY <1>1, <2>1 DEF ArmOne, Arm
  <2>2. CASE Clear BY <1>1, <2>2 DEF Clear
  <2>3. CASE RearmIfSuperseded BY <1>1, <2>3 DEF RearmIfSuperseded
  <2> QED BY <2>1, <2>2, <2>3, Frames
<1>3. ASSUME rtPc = Arming[f], Callback PROVE needs'[f]
  <2>1. rtPc \notin Elsewhere /\ \A g \in Families : rtPc # Advancing[g] BY <1>3, StepNames
  <2>2. ~Begin
    BY <2>1 DEF Begin, BeginCallback, RequestResampler, ResamplerArrives, BeginWith, Elsewhere
  <2>3. ~DrainOne BY <2>1, StepNames DEF DrainOne, Drain
  <2>4. ~AdvanceOne BY <2>1 DEF AdvanceOne, AdvanceGeneration
  <2>5. ~TakeGain /\ ~TakeOversample /\ ~TakeModel /\ ~EndCommands /\ ~TrySlimmableRebuild
        /\ ~CheckCab /\ ~SkipQuantum
    BY <2>1 DEF TakeGain, TakeOversample, TakeModel, MayPop, EndCommands, TrySlimmableRebuild,
                CheckCab, SkipQuantum, Elsewhere
  <2>6. ArmOne BY <1>3, <2>2, <2>3, <2>4, <2>5, CallbackCases
  <2>7. PICK g \in Families : rtPc = Arming[g] /\ needs' = [needs EXCEPT ![g] = TRUE]
    BY <2>6, Zenon DEF ArmOne, Arm
  <2>8. f = g BY <1>3, <2>7, StepNames
  <2> QED BY <1>1, <2>7, <2>8
<1>4. rtPc = Arming[f] => rtPc' = Arming[f] \/ needs'[f] BY <1>3, Frames
<1> QED BY <1>2, <1>4

(* Whatever is known of failed and refused generations of a family changes *)
(* only where its handler builds; the callback answers for the cabinet.    *)
LEMMA VerdictStep ==
  ASSUME Types, refused \in [Families -> Nat], [Next]_vars, NEW f \in Families,
         ~(mainPc = "build" /\ job.family = f)
  PROVE  refused'[f] = refused[f] /\ (f # "cab" => failed'[f] = failed[f])
<1>1. failed \in [Families -> Nat] /\ job.family \in Families
  BY DEF Types, PairTypes, StepTypes
<1>2. CASE BuildAndPush \/ BuildFails \/ RejectWidth \/ RejectFactor
  <2>1. mainPc = "build" /\ job.family # f
    BY <1>2 DEF BuildAndPush, BuildFails, RejectWidth, RejectFactor
  <2>2. failed' = failed \/ \E n : failed' = [failed EXCEPT ![job.family] = n]
    BY <1>2, Zenon DEF BuildAndPush, BuildFails, RejectWidth, RejectFactor, ForgetFailure,
                       RememberFailure
  <2>3. refused' = refused \/ refused' = [refused EXCEPT ![job.family] = job.gen]
    BY <1>2, Zenon DEF BuildAndPush, BuildFails, RejectWidth, RejectFactor, Refuse
  <2> QED BY <1>1, <2>1, <2>2, <2>3
<1>3. CASE DrainOne
  <2>1. PICK g \in Families : Drain(g, AfterDrain[g]) BY <1>3 DEF DrainOne
  <2>2. failed' = failed \/ \E n : failed' = [failed EXCEPT !["cab"] = n]
    BY <2>1, Zenon DEF Drain, InstallLatest, DiscardStale, LeaveQueued
  <2>3. refused' = refused BY <2>1 DEF Drain, mainVars
  <2> QED BY <1>1, <2>2, <2>3
<1>4. CASE UNCHANGED <<failed, refused>> BY <1>4
<1> QED BY <1>2, <1>3, <1>4, Frames

(* An answer to the latest request stays: the callback installs it or      *)
(* leaves it queued, and never discards it.                                *)
LEMMA AnsweredStep ==
  ASSUME Types, refused \in [Families -> Nat], [Next]_vars, NEW f \in Families,
         Answered(f), gen'[f] = gen[f], ~(mainPc = "build" /\ job.family = f)
  PROVE  (Answered(f))'
<1>1. /\ ring \in [Families -> Seq(Envelopes)] /\ applied \in [Families -> Nat]
      /\ job.family \in Families
  BY DEF Types, PairTypes, StepTypes
<1>2. refused[f] = gen[f] \/ (f # "cab" /\ failed[f] = gen[f]) => (Answered(f))'
  BY VerdictStep DEF Answered
<1>3. applied[f] = gen[f] => (Answered(f))'
  BY ActiveStep DEF Answered
<1>4. ASSUME Current(f) # {} PROVE (Answered(f))'
  <2>1. CASE ring'[f] = ring[f] BY <1>4, <2>1 DEF Answered, Current
  <2>2. CASE DrainOne
    <3>1. PICK g \in Families : Drain(g, AfterDrain[g]) BY <2>2 DEF DrainOne
    <3>2. CASE g # f
      <4>1. ring'[f] = ring[f]
        BY <1>1, <3>1, <3>2, Zenon DEF Drain, InstallLatest, DiscardStale, LeaveQueued
      <4> QED BY <2>1, <4>1
    <3>3. CASE g = f
      <4>1. InstallLatest(g) \/ LeaveQueued(g) \/ Current(g) = {} BY <3>1 DEF Drain
      <4>2. CASE InstallLatest(g)
        <5>1. PICK i \in Current(f) : applied' = [applied EXCEPT ![f] = ring[f][i].gen]
          BY <3>3, <4>2, Zenon DEF InstallLatest
        <5>2. applied'[f] = gen[f] BY <1>1, <5>1 DEF Current
        <5> QED BY <5>2 DEF Answered
      <4>3. CASE LeaveQueued(g)
        <5>1. PICK i \in Current(f) : ring' = [ring EXCEPT ![f] = SubSeq(@, i, Len(@))]
          BY <3>3, <4>3, Zenon DEF LeaveQueued
        <5>2. ring[f] \in Seq(Envelopes) BY <1>1
        <5>3. i \in 1 .. Len(ring[f]) /\ ring[f][i].gen = gen[f] BY <5>2, SMT DEF Current
        <5> DEFINE rest == SubSeq(ring[f], i, Len(ring[f]))
        <5>4. ring'[f] = rest BY <1>1, <5>1
        <5>5. 1 \in DOMAIN rest /\ rest[1] = ring[f][i] BY <5>2, <5>3, SMT
        <5> HIDE DEF rest
        <5>6. 1 \in (Current(f))' BY <5>3, <5>4, <5>5 DEF Current
        <5> QED BY <5>6 DEF Answered
      <4> QED BY <1>4, <3>3, <4>1, <4>2, <4>3
    <3> QED BY <3>2, <3>3
  <2>3. CASE BuildAndPush
    <3>1. job.family # f BY <2>3 DEF BuildAndPush
    <3>2. ring' = ring \/ \E q : ring' = [ring EXCEPT ![job.family] = q]
      BY <2>3, Zenon DEF BuildAndPush
    <3>3. ring'[f] = ring[f] BY <1>1, <3>1, <3>2
    <3> QED BY <2>1, <3>3
  <2> QED BY <2>1, <2>2, <2>3, Frames
<1> QED BY <1>2, <1>3, <1>4 DEF Answered

(* A handler that got as far as clearing its flag has answered.            *)
LEMMA BuildAnswers ==
  ASSUME Types, refused \in [Families -> Nat], ControlLoop, mainPc = "build", mainPc' = "clear",
         job.gen = gen[job.family]
  PROVE  (Answered(job.family))'
<1> DEFINE f == job.family
<1>1. /\ ring \in [Families -> Seq(Envelopes)] /\ failed \in [Families -> Nat] /\ f \in Families
      /\ job' = job /\ gen' = gen
  BY LoopStep, LoopKeeps
     DEF Types, PairTypes, StepTypes, CheckNeeds, CaptureFirst, CaptureSecond, Clear
<1>2. BuildAndPush \/ BuildFails \/ RejectWidth
  BY LoopStep
<1> SUFFICES (Answered(f))' OBVIOUS
<1> HIDE DEF f
<1>3. CASE BuildAndPush
  <2>1. ring' = [ring EXCEPT ![f] = Append(@, [gen |-> job.gen, pair |-> Built])]
    <3>1. NextHandler => mainPc' # "clear" BY LoopKeeps
    <3> QED BY <1>3, <3>1 DEF BuildAndPush, f
  <2> DEFINE e == [gen |-> job.gen, pair |-> Built]
  <2>2. e.gen = gen[f] BY DEF f
  <2>3. ring'[f] = Append(ring[f], e) BY <1>1, <2>1
  <2> HIDE DEF e
  <2>4. ring[f] \in Seq(Envelopes) BY <1>1
  <2>5. /\ Len(ring[f]) + 1 \in DOMAIN Append(ring[f], e)
        /\ Append(ring[f], e)[Len(ring[f]) + 1] = e
    BY <2>4, SMT
  <2>6. Len(ring[f]) + 1 \in (Current(f))' BY <1>1, <2>2, <2>3, <2>5 DEF Current, f
  <2> QED BY <2>6 DEF Answered
<1>4. CASE BuildFails
  <2>1. f # "cab" /\ failed' = [failed EXCEPT ![f] = job.gen]
    BY <1>4, Zenon DEF BuildFails, RememberFailure, f
  <2> QED BY <1>1, <2>1 DEF Answered, f
<1>5. CASE RejectWidth
  <2>1. refused' = [refused EXCEPT ![f] = job.gen] BY <1>5, Zenon DEF RejectWidth, Refuse, f
  <2> QED BY <1>1, <2>1 DEF Answered, f
<1> QED BY <1>2, <1>3, <1>4, <1>5

LEMMA StandingInit == ASSUME Init PROVE Standing
<1>1. refused \in [Families -> Nat] BY DEF Init, None
<1>2. RequestsStand
  <2>1. \A f \in Families : applied[f] = gen[f] BY DEF Init
  <2> QED BY <2>1 DEF RequestsStand, RequestStands, Answered
<1> QED BY <1>1, <1>2 DEF Init, Standing, Busy

LEMMA StandingStep ==
  ASSUME SwapInv, Standing, [Next]_vars
  PROVE  Standing'
<1>1. /\ Types /\ JobInv /\ job.family \in Families /\ refused \in [Families -> Nat]
      /\ gen \in [Families -> Nat] /\ needs \in [Families -> BOOLEAN]
  BY DEF SwapInv, Standing, Types, StepTypes, RequestTypes
<1>2. mainPc = "build" => job.gen \in 1 .. gen[job.family] /\ job.gen \in Nat
  <2>1. gen[job.family] \in Nat BY <1>1
  <2> QED BY <1>1, <2>1, SMT DEF JobInv
<1>3. \A f \in Families : gen'[f] = gen[f] \/ (gen'[f] = gen[f] + 1 /\ rtPc' = Arming[f])
  BY <1>1, GenStep
<1>4. \/ UNCHANGED <<mainPc, job>>
      \/ ControlLoop /\ UNCHANGED <<gen, rtPc, applied>>
  BY Frames, LoopKeeps
<1>5. refused' \in [Families -> Nat]
  BY <1>1, <1>2, Frames, Zenon DEF RejectWidth, RejectFactor, Refuse
<1>6. mainPc' \in Busy => needs'[job'.family]
  <2>1. CASE UNCHANGED <<mainPc, job>> /\ ~Clear BY <1>1, <2>1, FlagStep DEF Standing
  <2>2. CASE Clear
    <3>1. mainPc' \in {"rearm", "check", "release"} BY <2>2, LoopKeeps DEF Clear, ControlLoop
    <3> QED BY <3>1 DEF Busy
  <2>3. CASE ControlLoop /\ ~Clear
    <3>1. mainPc' \in Busy => job'.family = job.family /\ needs[job.family]
      BY <1>1, <2>3, LoopStep
         DEF Standing, Busy, CaptureFirst, CaptureSecond, BuildAndPush, BuildFails, RejectWidth,
             RejectFactor
    <3> QED BY <1>1, <2>3, <3>1, FlagStep
  <2> QED BY <1>4, <2>1, <2>2, <2>3
<1>7. mainPc' \in {"clear", "withdraw", "rearm"} => job'.gen \in 1 .. gen'[job'.family]
  <2>1. \A n : n \in 1 .. gen[job.family] => n \in 1 .. gen'[job.family]
    <3>1. gen[job.family] \in Nat /\ gen'[job.family] \in {gen[job.family], gen[job.family] + 1}
      BY <1>1, <1>3
    <3> QED BY <3>1, SMT
  <2>2. CASE UNCHANGED <<mainPc, job>> BY <2>1, <2>2 DEF Standing
  <2>3. CASE ControlLoop
    <3>1. mainPc' \in {"clear", "withdraw", "rearm"} => job' = job /\ mainPc \in {"build", "clear"}
      BY <1>1, <2>3, LoopStep DEF BuildAndPush, BuildFails, RejectWidth, RejectFactor
    <3> QED BY <1>2, <2>1, <3>1 DEF Standing
  <2> QED BY <1>4, <2>2, <2>3
<1>8. mainPc' \in {"clear", "rearm"} /\ job'.gen = gen'[job'.family] => (Answered(job.family))'
                                                                    /\ job' = job
  <2>1. CASE UNCHANGED <<mainPc, job>>
    <3> SUFFICES ASSUME mainPc \in {"clear", "rearm"}, job.gen = gen'[job.family]
                 PROVE  (Answered(job.family))'
      BY <2>1
    <3>1. gen'[job.family] = gen[job.family]
      <4>1. gen[job.family] \in Nat /\ job.gen \in 1 .. gen[job.family] BY <1>1 DEF Standing
      <4>2. job.gen # gen[job.family] + 1 BY <4>1, SMT
      <4> QED BY <1>1, <1>3, <4>2
    <3>2. Answered(job.family) /\ mainPc # "build" BY <3>1 DEF Standing
    <3>3. \A f \in Families : f = job.family => (Answered(f))'
      BY <1>1, <3>1, <3>2, AnsweredStep
    <3> QED BY <1>1, <2>1, <3>3
  <2>2. CASE ControlLoop
    <3> SUFFICES ASSUME mainPc' \in {"clear", "rearm"}, job'.gen = gen'[job'.family]
                 PROVE  (Answered(job.family))' /\ job' = job
      OBVIOUS
    <3>1. /\ job' = job /\ gen' = gen
          /\ \/ mainPc = "build" /\ mainPc' = "clear"
             \/ mainPc = "clear" /\ mainPc' = "rearm"
      BY <1>1, <2>2, LoopStep, LoopKeeps DEF BuildAndPush, BuildFails, RejectWidth
    <3>2. CASE mainPc = "build" /\ mainPc' = "clear"
      BY <1>1, <2>2, <3>1, <3>2, BuildAnswers
    <3>3. CASE mainPc = "clear"
      <4>1. Answered(job.family) BY <3>1, <3>3 DEF Standing
      <4> QED BY <1>1, <3>1, <3>3, <4>1, AnsweredStep
    <3> QED BY <3>1, <3>2, <3>3
  <2> QED BY <1>4, <2>1, <2>2
<1>9. mainPc' = "withdraw" => job'.family = "os" /\ refused'["os"] = job'.gen
  <2>1. CASE UNCHANGED <<mainPc, job>>
    BY <1>1, <2>1, VerdictStep DEF Standing, Families
  <2>2. CASE ControlLoop
    <3> SUFFICES ASSUME mainPc' = "withdraw"
                 PROVE  job'.family = "os" /\ refused'["os"] = job'.gen
      OBVIOUS
    <3>1. RejectFactor /\ job' = job BY <1>1, <2>2, LoopStep
    <3>2. job.family = "os" /\ refused' = [refused EXCEPT !["os"] = job.gen]
      BY <3>1, Zenon DEF RejectFactor, Refuse
    <3> QED BY <1>1, <3>1, <3>2 DEF Families
  <2> QED BY <1>4, <2>1, <2>2
<1>10. ASSUME NEW f \in Families
       PROVE  (RequestStands(f))' \/ (Erased(f))'
  <2>1. CASE rtPc' = Arming[f] BY <2>1 DEF RequestStands
  <2>2. CASE gen'[f] = gen[f] /\ rtPc' # Arming[f]
    <3>1. RequestStands(f) \/ Erased(f) BY DEF Standing, RequestsStand
    <3>2. CASE Clear /\ job.family = f
      <4>1. CASE mainPc = "clear"
        <5>1. mainPc' = "rearm" /\ job' = job BY <3>2, <4>1 DEF Clear
        <5> QED BY <3>2, <5>1 DEF RequestStands
      <4>2. CASE mainPc = "withdraw"
        <5>1. f = "os" /\ refused[f] = job.gen BY <3>2, <4>2 DEF Standing
        <5>2. CASE gen[f] = job.gen
          <6>1. refused'[f] = gen'[f] BY <2>2, <3>2, <5>1, <5>2 DEF Clear
          <6> QED BY <6>1 DEF RequestStands, Answered
        <5>3. CASE gen[f] # job.gen
          <6>1. erased' = gen[f] BY <3>2, <4>2, <5>3 DEF Clear
          <6> QED BY <2>2, <5>1, <6>1 DEF Erased
        <5> QED BY <5>2, <5>3
      <4> QED BY <3>2, <4>1, <4>2 DEF Clear
    <3>3. CASE needs[f] /\ ~(Clear /\ job.family = f)
      BY <1>1, <3>3, FlagStep DEF RequestStands
    <3>4. CASE rtPc = Arming[f] BY <1>1, <2>2, <3>4, FlagStep DEF RequestStands
    <3>5. CASE mainPc = "rearm" /\ job.family = f
      <4>1. CASE UNCHANGED <<mainPc, job>> BY <3>5, <4>1 DEF RequestStands
      <4>2. CASE ControlLoop
        <5>1. RearmIfSuperseded
          BY <3>5, <4>2
             DEF ControlLoop, CheckNeeds, CaptureFirst, CaptureSecond, GiveUpFailed, BuildAndPush,
                 BuildFails, RejectWidth, RejectFactor, Clear, ReleaseGarbage
        <5>2. CASE Superseded
          BY <1>1, <3>5, <5>1, <5>2 DEF RearmIfSuperseded, RequestStands
        <5>3. CASE ~Superseded
          <6>1. Answered(f) BY <3>5, <5>3 DEF Superseded, Standing
          <6>2. (Answered(f))' BY <1>1, <2>2, <3>5, <6>1, AnsweredStep
          <6> QED BY <6>2 DEF RequestStands
        <5> QED BY <5>2, <5>3
      <4> QED BY <1>4, <4>1, <4>2
    <3>6. CASE mainPc = "build" /\ job.family = f
      <4>1. needs[f] /\ ~Clear BY <3>6 DEF Standing, Busy, Clear
      <4> QED BY <3>3, <4>1
    <3>7. CASE Answered(f) /\ ~(mainPc = "build" /\ job.family = f)
      <4>1. (Answered(f))' BY <1>1, <2>2, <3>7, AnsweredStep
      <4> QED BY <4>1 DEF RequestStands
    <3>8. CASE Erased(f) /\ ~(Clear /\ job.family = f)
      <4>1. CASE Clear
        <5>1. mainPc = "clear" BY <1>1, <3>8, <4>1 DEF Clear, Erased, Standing
        <5>2. erased' = erased BY <4>1, <5>1 DEF Clear
        <5> QED BY <2>2, <3>8, <5>2 DEF Erased
      <4>2. CASE ~Clear BY <2>2, <3>8, <4>2, Frames DEF Erased
      <4> QED BY <4>1, <4>2
    <3> QED BY <3>1, <3>2, <3>3, <3>4, <3>5, <3>6, <3>7, <3>8 DEF RequestStands
  <2> QED BY <1>3, <2>1, <2>2
<1>11. RequestsStand' BY <1>10 DEF RequestsStand
<1> QED BY <1>5, <1>6, <1>7, <1>8, <1>9, <1>11 DEF Standing

(* The latest request of a family has its flag, is about to get it, or has *)
(* an answer that is still there, whatever the callback publishes while a  *)
(* handler works.  Excepted is a factor published between the comparison   *)
(* and the clear of RejectFactor, as long as it is the latest.             *)
THEOREM RequestsAreNotForgotten == Spec => []RequestsStand
<1>1. Spec => []Standing
  BY SwapInvariant, StandingInit, StandingStep, PTL DEF Spec
<1>2. Standing => RequestsStand BY DEF Standing
<1> QED BY <1>1, <1>2, PTL
=============================================================================
