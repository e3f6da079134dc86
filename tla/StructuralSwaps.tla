--------------------------- MODULE StructuralSwaps ---------------------------
(***************************************************************************)
(* How the engines of the audio path are replaced while it runs: cabinet   *)
(* simulation, slimmed model and oversampling, a family each.  The         *)
(* real-time callback asks (a value, a generation, a NEEDS flag), the      *)
(* control loop of the main thread builds a stereo pair and sends it in an *)
(* envelope through the ring of its family, and a later callback swaps it  *)
(* in and retires the envelope to the garbage cascade, which the main      *)
(* thread empties.  All drains of one callback share a budget of one swap. *)
(* The module also holds the commands of the parameter ring.               *)
(*                                                                         *)
(* Every access to an atomic or a ring that both threads use is a step;    *)
(* what one thread alone reads and writes changes together with its next   *)
(* shared access.  The resampler, which drains first and mutes the host,   *)
(* is the subject of RateSync: here it swaps when it likes.                *)
(***************************************************************************)
EXTENDS Integers, Sequences, FiniteSets

CONSTANTS
    Rates, BadRates,        \* host rates; those the impulse response fails at
    Widths, TooFew,         \* channel targets; those under the minimum of 4
    Factors, Oversized,     \* oversampling; factors the scratch cannot hold
    FirstRate, Full,        \* host rate and width the host starts with
    StartFactor,            \* --oversample
    RingCapacity,           \* capacity of a swap ring
    ParamBudget,            \* MAX_PARAM_BUDGET, commands of one callback
    GcCapacity, LotSize,    \* garbage ring, parking lot (16 slots)
    MaxEvents,              \* bound: rate changes, new targets and commands
    MaxFaults               \* bound: failed builds and needless requests

None == 0
NotRead == -1

ASSUME ValueAssumption ==
    /\ BadRates \subseteq Rates /\ TooFew \subseteq Widths /\ Oversized \subseteq Factors
    /\ Rates \cup Widths \cup Factors \cup {Full, StartFactor} \subseteq Nat \ {None}
    /\ FirstRate \in Rates

(* STRUCTURAL_POPS_PER_CALLBACK is 8: one drain sees the whole ring.       *)
ASSUME RingAssumption == RingCapacity \in 1 .. 8

ASSUME BoundAssumption ==
    /\ ParamBudget \in Nat \ {0} /\ GcCapacity \in Nat /\ LotSize \in Nat
    /\ MaxEvents \in Nat /\ MaxFaults \in Nat

Families == {"cab", "slim", "os"}
NoPair == <<None, None>>
Twin(v) == <<v, v>>

VARIABLES
    asked, gen, needs,      \* request of a family: value, generation, flag
    ring,                   \* envelopes on their way to the callback
    active, applied,        \* pair in use, generation it was installed for
    failed,                 \* cabsim_failed_key, *_failed_generation
    params, latest,         \* parameter ring, last values sent
    model, gain, candidate, pops,   \* callback: loaded model, gain, window
    rtPc, budget, muted,    \* callback: step, swaps left, RESAMP_SWAP_PENDING
    hostRate,
    mainPc, job,            \* control loop: step, request it works on
    refused,                \* history: generation last refused for its value
    erased,                 \* history: generation RejectFactor took the flag of
    gc, lot, dirty, overflow,   \* retired: ring, parking lot and its latch
    made, released,         \* boxes allocated and dropped by the main thread
    events, faults          \* bounded by MaxEvents, MaxFaults

requestVars == <<asked, gen, needs>>
pairVars == <<ring, active, applied>>
commandVars == <<params, latest, model, gain, candidate, pops>>
callbackVars == <<rtPc, budget, muted, hostRate>>
mainVars == <<mainPc, job, refused, erased>>
boundVars == <<events, faults>>
gcVars == <<gc, lot, dirty, overflow, made, released>>
vars == <<requestVars, pairVars, failed, commandVars, callbackVars, mainVars, gcVars, boundVars>>

Job(f) == [family |-> f, gen |-> NotRead, value |-> None]

Init ==
    /\ asked = [f \in Families |-> None]
    /\ gen = [f \in Families |-> 0] /\ needs = [f \in Families |-> FALSE]
    /\ ring = [f \in Families |-> <<>>]
    /\ active = [cab |-> NoPair, slim |-> Twin(Full), os |-> Twin(StartFactor)]
    /\ applied = [f \in Families |-> 0]
    /\ failed = [f \in Families |-> None]
    /\ params = <<>> /\ latest = [model |-> None, gain |-> None]
    /\ model = None /\ gain = None /\ candidate = None /\ pops = 0
    /\ rtPc = "idle" /\ budget = 1 /\ muted = FALSE /\ hostRate = FirstRate
    /\ mainPc = "check" /\ job = Job("cab") /\ refused = [f \in Families |-> None]
    /\ erased = NotRead
    /\ gc = 0 /\ lot = 0 /\ dirty = FALSE /\ overflow = 0 /\ made = 0 /\ released = 0
    /\ events = 0 /\ faults = 0

Event == events < MaxEvents /\ events' = events + 1 /\ UNCHANGED faults
Fault == faults < MaxFaults /\ faults' = faults + 1 /\ UNCHANGED events

-----------------------------------------------------------------------------
(* The garbage cascade of the engine: ring, then parking lot, then the     *)
(* overflow buffer.                                                        *)
Least(m, n) == IF m < n THEN m ELSE n

Retire(n) ==
    LET toGc == Least(n, GcCapacity - gc)
        toLot == Least(n - toGc, LotSize - lot)
    IN  /\ gc' = gc + toGc
        /\ lot' = lot + toLot
        /\ dirty' = (dirty \/ toLot > 0)
        /\ overflow' = overflow + (n - toGc - toLot)
        /\ UNCHANGED <<made, released>>

(* A plausible slip: the latch falls after the first pass, full or not.    *)
FlushedEarly == FALSE

(* The latch stays up while a slot could not be moved to the ring.         *)
StillDirty == lot' > 0

FlushLot ==
    IF dirty
    THEN /\ gc' = gc + Least(lot, GcCapacity - gc)
         /\ lot' = lot - Least(lot, GcCapacity - gc)
         /\ dirty' = StillDirty
         /\ UNCHANGED <<overflow, made, released>>
    ELSE UNCHANGED gcVars

-----------------------------------------------------------------------------
(* The real-time callback.  A request is published in three stores.        *)
Advancing == [cab |-> "advance cab", slim |-> "advance slim", os |-> "advance os"]
Arming == [cab |-> "arm cab", slim |-> "arm slim", os |-> "arm os"]
Draining == [cab |-> "drain cab", slim |-> "drain slim", os |-> "drain os"]

StoreRequest(f, v) ==
    /\ asked' = [asked EXCEPT ![f] = v]
    /\ rtPc' = Advancing[f]
    /\ UNCHANGED <<gen, needs>>

AdvanceGeneration(f) ==
    /\ rtPc = Advancing[f]
    /\ gen' = [gen EXCEPT ![f] = @ + 1]
    /\ rtPc' = Arming[f]
    /\ UNCHANGED <<asked, needs, pairVars, failed, commandVars, budget, muted, hostRate, mainVars, gcVars, boundVars>>

Arm(f, pc) ==
    /\ rtPc = Arming[f]
    /\ needs' = [needs EXCEPT ![f] = TRUE]
    /\ rtPc' = pc
    /\ UNCHANGED <<asked, gen, pairVars, failed, commandVars, budget, muted, hostRate, mainVars, gcVars, boundVars>>

(* While a resampler is awaited the callback drains and is muted after it. *)
(* The resampler drains first: its swap takes the budget of the callback   *)
(* and brings the host rate.                                               *)
BeginWith(swaps, awaits) ==
    /\ rtPc = "idle"
    /\ FlushLot
    /\ budget' = swaps /\ muted' = awaits
    /\ pops' = 0
    /\ rtPc' = "drain cab"
    /\ UNCHANGED <<requestVars, pairVars, failed, params, latest, model, gain, candidate,
                   mainVars>>

BeginCallback == BeginWith(1, muted) /\ UNCHANGED <<hostRate, boundVars>>

RequestResampler == ~muted /\ Event /\ BeginWith(1, TRUE) /\ UNCHANGED hostRate

ResamplerArrives ==
    muted /\ BeginWith(0, FALSE) /\ hostRate' \in Rates /\ UNCHANGED boundVars

Current(f) == {i \in DOMAIN ring[f] : ring[f][i].gen = gen[f]}

(* A bypass envelope tells that the build for the request failed.          *)
FailedKey(pair) == IF pair = NoPair THEN asked["cab"] ELSE None

(* The latest current envelope is swapped in, with its old pair inside it  *)
(* joins the others on their way to the main thread.                       *)
InstallLatest(f) ==
    \E i \in Current(f) :
        /\ \A j \in Current(f) : j <= i
        /\ active' = [active EXCEPT ![f] = ring[f][i].pair]
        /\ applied' = [applied EXCEPT ![f] = ring[f][i].gen]
        /\ failed' = IF f = "cab"
                     THEN [failed EXCEPT !["cab"] = FailedKey(ring[f][i].pair)] ELSE failed
        /\ ring' = [ring EXCEPT ![f] = <<>>]
        /\ Retire(Len(ring[f]))

DiscardStale(f) ==
    /\ ring' = [ring EXCEPT ![f] = <<>>]
    /\ Retire(Len(ring[f]))
    /\ UNCHANGED <<active, applied, failed>>

(* Without budget the first current envelope and all behind it stay.       *)
LeaveQueued(f) ==
    \E i \in Current(f) :
        /\ \A j \in Current(f) : i <= j
        /\ ring' = [ring EXCEPT ![f] = SubSeq(@, i, Len(@))]
        /\ Retire(i - 1)
        /\ UNCHANGED <<active, applied, failed>>

Drain(f, pc) ==
    /\ rtPc = Draining[f]
    /\ \/ budget > 0 /\ InstallLatest(f) /\ budget' = budget - 1
       \/ Current(f) = {} /\ DiscardStale(f) /\ UNCHANGED budget
       \/ budget = 0 /\ LeaveQueued(f) /\ UNCHANGED budget
    /\ rtPc' = pc
    /\ UNCHANGED <<requestVars, commandVars, muted, hostRate, mainVars, boundVars>>

-----------------------------------------------------------------------------
(* receive_commands: scalars apply in order, the last one wins; the models *)
(* of one window collapse into the last.  A model that finds no budget     *)
(* stays at the head and holds back all behind it.                         *)
Head1 == params[1]
MayPop == rtPc = "commands" /\ params # <<>> /\ pops < ParamBudget

PopCommand ==
    /\ params' = Tail(params)
    /\ pops' = pops + 1
    /\ UNCHANGED <<pairVars, failed, latest, budget, muted, hostRate,
                   mainVars, boundVars>>

TakeGain ==
    /\ MayPop /\ Head1.kind = "gain"
    /\ gain' = Head1.value
    /\ PopCommand
    /\ UNCHANGED <<requestVars, model, candidate, rtPc, gcVars>>

TakeOversample ==
    /\ MayPop /\ Head1.kind = "os"
    /\ StoreRequest("os", Head1.value)
    /\ PopCommand
    /\ UNCHANGED <<model, gain, candidate, gcVars>>

KeepFirst(new) == IF candidate = None THEN new ELSE candidate
KeepLast(new) == new

TakeModel ==
    /\ MayPop /\ Head1.kind = "model"
    /\ candidate = None => budget > 0
    /\ candidate' = KeepLast(Head1.value)
    /\ Retire(IF candidate = None THEN 0 ELSE 1)
    /\ PopCommand
    /\ UNCHANGED <<requestVars, model, gain, rtPc>>

ModelBlocked == params # <<>> /\ Head1.kind = "model" /\ candidate = None /\ budget = 0

(* A candidate was taken with budget in hand and nothing spent it since,   *)
(* so the deferred slot of the code is never used.                         *)
EndCommands ==
    /\ rtPc = "commands"
    /\ params = <<>> \/ pops = ParamBudget \/ ModelBlocked
    /\ IF candidate = None
       THEN UNCHANGED <<model, budget, gcVars>>
       ELSE /\ model' = candidate
            /\ budget' = budget - 1
            /\ Retire(IF model = None THEN 0 ELSE 1)
    /\ candidate' = None
    /\ rtPc' = "adapt"
    /\ UNCHANGED <<requestVars, pairVars, failed, params, latest, gain, pops, muted, hostRate,
                   mainVars, boundVars>>

(* AdaptiveCompute may have chosen another width since the last callback.  *)
TrySlimmableRebuild ==
    /\ rtPc = "adapt"
    /\ \/ /\ Event
          /\ \E w \in Widths : StoreRequest("slim", w)
       \/ rtPc' = "drain slim" /\ UNCHANGED <<requestVars, boundVars>>
    /\ UNCHANGED <<pairVars, failed, commandVars, budget, muted, hostRate,
                   mainVars, gcVars>>

(* A plausible slip: only a missing cabinet is asked for.                  *)
NeverRecalibrated == active["cab"] = NoPair /\ failed["cab"] # hostRate

(* A cabinet is missing, and not because its build failed at this rate, or *)
(* was built for another rate.                                             *)
CabWanted ==
    IF active["cab"] = NoPair THEN failed["cab"] # hostRate
    ELSE active["cab"] # Twin(hostRate)

(* cabsim_rebuild_needed; the flag is what it knows as already_pending.    *)
CabRequested == CabWanted /\ ~needs["cab"]

(* The answer to the very request is in the ring already.                  *)
InFlight == asked["cab"] = hostRate /\ Current("cab") # {}

(* A callback that would repeat a request in flight is not taken once      *)
(* MaxFaults are spent: the behaviour is cut off there.                    *)
CutOff ==
    rtPc = "check" /\ ~muted /\ CabRequested /\ InFlight /\ faults = MaxFaults

CheckCab ==
    /\ rtPc = "check" /\ ~muted
    /\ IF CabRequested
       THEN /\ IF InFlight THEN Fault ELSE UNCHANGED boundVars
            /\ StoreRequest("cab", hostRate)
       ELSE rtPc' = "idle" /\ UNCHANGED <<requestVars, boundVars>>
    /\ UNCHANGED <<pairVars, failed, commandVars, budget, muted, hostRate,
                   mainVars, gcVars>>

SkipQuantum ==
    /\ rtPc = "check" /\ muted
    /\ rtPc' = "idle"
    /\ UNCHANGED <<requestVars, pairVars, failed, commandVars, budget, muted, hostRate, mainVars, gcVars, boundVars>>

Prologue ==
    \/ Drain("cab", "commands")
    \/ TakeGain \/ TakeOversample \/ TakeModel
    \/ AdvanceGeneration("os") \/ Arm("os", "commands")
    \/ EndCommands \/ TrySlimmableRebuild
    \/ AdvanceGeneration("slim") \/ Arm("slim", "drain slim")
    \/ Drain("slim", "drain os") \/ Drain("os", "check")

Callback ==
    \/ BeginCallback \/ RequestResampler \/ ResamplerArrives
    \/ Prologue
    \/ CheckCab \/ SkipQuantum
    \/ AdvanceGeneration("cab") \/ Arm("cab", "idle")

-----------------------------------------------------------------------------
(* The control loop: one handler per family, then the garbage.             *)

FamilyAfter == [cab |-> "slim", slim |-> "os"]

NextHandler ==
    IF job.family = "os" THEN mainPc' = "release" /\ job' = job
    ELSE mainPc' = "check" /\ job' = Job(FamilyAfter[job.family])

CheckNeeds ==
    /\ mainPc = "check"
    /\ IF needs[job.family] THEN mainPc' = "first" /\ job' = job ELSE NextHandler
    /\ UNCHANGED <<requestVars, pairVars, failed, refused, erased, commandVars, callbackVars, gcVars,
                   boundVars>>

(* The slimmable handler reads the target channels before the generation,  *)
(* the other two the generation first.                                     *)
OnlyCabFirst(f) == f = "cab"
GenerationFirst(f) == f # "slim"

Capture(generation) ==
    /\ job' = IF generation THEN [job EXCEPT !.gen = gen[job.family]]
              ELSE [job EXCEPT !.value = asked[job.family]]
    /\ UNCHANGED <<requestVars, pairVars, failed, refused, erased, commandVars, callbackVars, gcVars,
                   boundVars>>

(* A generation whose build failed is not tried again: the handler returns *)
(* and leaves the flag as it is.                                           *)
FailedBefore == job.family # "cab" /\ failed[job.family] = job.gen

CaptureFirst ==
    /\ mainPc = "first"
    /\ Capture(GenerationFirst(job.family))
    /\ mainPc' = "second"

CaptureSecond ==
    /\ mainPc = "second" /\ ~(job.family = "os" /\ FailedBefore)
    /\ Capture(~GenerationFirst(job.family))
    /\ mainPc' = "build"

GiveUpFailed ==
    /\ \/ mainPc = "second" /\ job.family = "os"
       \/ mainPc = "build" /\ job.family = "slim" /\ job.value \notin TooFew
    /\ FailedBefore
    /\ NextHandler
    /\ UNCHANGED <<requestVars, pairVars, failed, refused, erased, commandVars, callbackVars, gcVars,
                   boundVars>>

(* Left and right travel in one envelope; a slip would send the left only. *)
LeftOnly == <<job.value, active[job.family][2]>>

Built ==
    IF job.family = "cab" /\ job.value \in BadRates THEN NoPair ELSE Twin(job.value)

Buildable ==
    CASE job.family = "cab" -> TRUE
      [] job.family = "slim" -> job.value \notin TooFew /\ ~FailedBefore
      [] job.family = "os" -> job.value \notin Oversized

ForgetFailure ==
    failed' = IF job.family = "cab" THEN failed ELSE [failed EXCEPT ![job.family] = None]

(* The envelope is sent, or the ring is full and the flag stays for the    *)
(* next iteration.  A refused envelope is dropped on the spot.             *)
BuildAndPush ==
    /\ mainPc = "build" /\ Buildable
    /\ ForgetFailure
    /\ IF Len(ring[job.family]) < RingCapacity
       THEN /\ ring' = [ring EXCEPT ![job.family] =
                           Append(@, [gen |-> job.gen, pair |-> Built])]
            /\ made' = made + 1
            /\ mainPc' = "clear" /\ job' = job
       ELSE NextHandler /\ UNCHANGED <<ring, made>>
    /\ UNCHANGED <<requestVars, active, applied, refused, erased, commandVars, callbackVars,
                   gc, lot, dirty, overflow, released, boundVars>>

RememberFailure == failed' = [failed EXCEPT ![job.family] = job.gen]
Refuse == refused' = [refused EXCEPT ![job.family] = job.gen]

BuildFails ==
    /\ mainPc = "build" /\ Buildable /\ job.family # "cab" /\ Fault
    /\ RememberFailure
    /\ mainPc' = "clear"
    /\ UNCHANGED <<requestVars, pairVars, refused, erased, commandVars, callbackVars, job, gcVars>>

(* Fewer than 4 channels: terminal, nothing is remembered.                 *)
RejectWidth ==
    /\ mainPc = "build" /\ job.family = "slim" /\ job.value \in TooFew
    /\ Refuse
    /\ mainPc' = "clear"
    /\ UNCHANGED <<requestVars, pairVars, failed, erased, commandVars, callbackVars, job,
                   gcVars, boundVars>>

(* A factor beyond the scratch: the generation is compared first and the   *)
(* flag cleared afterwards, the other way round than in Rearm.             *)
RejectFactor ==
    /\ mainPc = "build" /\ job.family = "os" /\ job.value \in Oversized
    /\ RememberFailure /\ Refuse
    /\ IF gen["os"] = job.gen THEN mainPc' = "withdraw" /\ job' = job ELSE NextHandler
    /\ UNCHANGED <<requestVars, pairVars, erased, commandVars, callbackVars, gcVars, boundVars>>

Clear ==
    /\ mainPc \in {"clear", "withdraw"}
    /\ needs' = [needs EXCEPT ![job.family] = FALSE]
    /\ IF mainPc = "clear" THEN mainPc' = "rearm" /\ job' = job ELSE NextHandler
    /\ erased' = IF mainPc = "withdraw" /\ gen[job.family] # job.gen
                 THEN gen[job.family] ELSE erased
    /\ UNCHANGED <<asked, gen, pairVars, failed, refused, commandVars, callbackVars, gcVars,
                   boundVars>>

NeverSuperseded == FALSE
Superseded == gen[job.family] # job.gen

RearmIfSuperseded ==
    /\ mainPc = "rearm"
    /\ needs' = IF Superseded THEN [needs EXCEPT ![job.family] = TRUE] ELSE needs
    /\ NextHandler
    /\ UNCHANGED <<asked, gen, pairVars, failed, refused, erased, commandVars, callbackVars, gcVars,
                   boundVars>>

(* The parking lot belongs to the callback: the main thread empties the    *)
(* ring and the overflow buffer.                                           *)
ReleaseGarbage ==
    /\ mainPc = "release"
    /\ released' = released + gc + overflow
    /\ gc' = 0 /\ overflow' = 0
    /\ mainPc' = "check" /\ job' = Job("cab")
    /\ UNCHANGED <<requestVars, pairVars, failed, refused, erased, commandVars, callbackVars, lot,
                   dirty, made, boundVars>>

ControlLoop ==
    \/ CheckNeeds \/ CaptureFirst \/ CaptureSecond \/ GiveUpFailed
    \/ BuildAndPush \/ BuildFails \/ RejectWidth \/ RejectFactor
    \/ Clear \/ RearmIfSuperseded \/ ReleaseGarbage

(* Commands come from the main thread before the host runs, and from the   *)
(* swap harness while it runs.  Values grow, so that order can be told.    *)
Send(kind) ==
    /\ Event
    /\ \E v \in IF kind = "os" THEN Factors ELSE {events + 1} :
           /\ params' = Append(params, [kind |-> kind, value |-> v])
           /\ latest' = IF kind = "os" THEN latest ELSE [latest EXCEPT ![kind] = v]
    /\ made' = IF kind = "model" THEN made + 1 ELSE made
    /\ UNCHANGED <<requestVars, pairVars, failed, model, gain, candidate, pops, callbackVars,
                   mainVars, gc, lot, dirty, overflow, released>>

Next == Callback \/ ControlLoop \/ \E kind \in {"model", "gain", "os"} : Send(kind)

(* PipeWire calls back for every quantum and the control loop polls every  *)
(* 100 ms at the latest.  The resampler comes: MuteEnds of RateSync.       *)
Fairness == WF_vars(Callback) /\ WF_vars(ControlLoop) /\ SF_vars(ResamplerArrives)

Spec == Init /\ [][Next]_vars /\ Fairness

-----------------------------------------------------------------------------
(* Properties                                                              *)

Pairs(f) ==
    CASE f = "cab" -> {NoPair} \cup {Twin(r) : r \in Rates \ BadRates}
      [] f = "slim" -> {Twin(w) : w \in {Full} \cup (Widths \ TooFew)}
      [] f = "os" -> {Twin(x) : x \in {StartFactor} \cup (Factors \ Oversized)}

(* Every family's pair is one that can be built, left and right alike, and *)
(* counters stay in range.                                                 *)
TypeOK ==
    /\ \A f \in Families :
           /\ active[f] \in Pairs(f) /\ applied[f] \in 0 .. gen[f]
           /\ \A i \in DOMAIN ring[f] :
                  ring[f][i].gen \in 1 .. gen[f] /\ ring[f][i].pair \in Pairs(f)
           /\ Len(ring[f]) <= RingCapacity /\ needs[f] \in BOOLEAN
    /\ budget \in {0, 1} /\ pops \in 0 .. ParamBudget
    /\ gc \in 0 .. GcCapacity /\ lot \in 0 .. LotSize /\ (lot > 0 => dirty)

Publishing(f) == rtPc = Advancing[f]

(* What is in use under the latest generation is what that generation      *)
(* asked for, or the bypass of a failed cabinet, although the handlers     *)
(* read value and generation of a request apart while the callback stores  *)
(* the next one.  Cabinet and oversampling: handlers.rs reads their        *)
(* generation first.                                                       *)
InstalledAsRequested ==
    \A f \in {"cab", "os"} :
        (applied[f] = gen[f] /\ gen[f] > 0 /\ ~Publishing(f)) =>
            active[f] = IF f = "cab" /\ asked[f] \in BadRates THEN NoPair ELSE Twin(asked[f])

(* A request whose flag is down was answered: its pair is in use or in the *)
(* ring, its build failed, or its value was refused.                       *)
Answered(f) ==
    \/ applied[f] = gen[f] \/ Current(f) # {} \/ refused[f] = gen[f]
    \/ f # "cab" /\ failed[f] = gen[f]

RequestStands(f) ==
    needs[f] \/ rtPc = Arming[f] \/ (mainPc = "rearm" /\ job.family = f) \/ Answered(f)

(* A factor published between RejectFactor's comparison and its clear.     *)
Erased(f) == f = "os" /\ erased = gen[f]

(* No request is forgotten: whatever the callback publishes while a        *)
(* handler captures, builds, sends, clears and compares, the latest        *)
(* request of a family has its flag, is about to get it, or was answered   *)
(* with an answer that is still there.  RejectFactor clears the flag after *)
(* it compared the generations, and the factor that falls in between is    *)
(* forgotten (handlers.rs says a newer request always survives): it is     *)
(* excepted, by its generation, until a newer one is asked for.            *)
RequestsStand == \A f \in Families : RequestStands(f) \/ Erased(f)

(* However the window cuts a burst, whoever took the budget and whatever   *)
(* was coalesced: once nothing is queued, the last model and the last gain *)
(* sent are in use.                                                        *)
LastCommandWins ==
    (params = <<>> /\ candidate = None) => (model = latest.model /\ gain = latest.gain)

(* The cabinet follows the host rate: it ends up calibrated for it, or in  *)
(* bypass with the failing rate remembered, and nothing more is asked.     *)
CabSettled ==
    /\ active["cab"] = IF hostRate \in BadRates THEN NoPair ELSE Twin(hostRate)
    /\ ~CabWanted

(* A request repeated while its answer is in the ring outdates that answer, *)
(* and nothing keeps it from being repeated for ever: what is shown here   *)
(* is that the cabinet settles unless it is repeated beyond the bound.     *)
CabSettles == <>[]CabSettled \/ <>[]CutOff

(* Every box the main thread made is dropped by the main thread, except    *)
(* the loaded model: the callback neither drops nor forgets one.           *)
Owned == IF model = None THEN 0 ELSE 1
GarbageReleased == <>[](released + Owned = made) \/ <>[]CutOff

(* Violated: with the callback and the control loop at rest, a width that  *)
(* was asked for is in use unless it was rejected or failed.               *)
AtRest == rtPc = "idle" /\ mainPc = "check" /\ job = Job("cab")

WidthSurvives ==
    (AtRest /\ ~needs["slim"] /\ ring["slim"] = <<>> /\ gen["slim"] > 0
       /\ asked["slim"] \notin TooFew /\ failed["slim"] # gen["slim"])
        => active["slim"] = Twin(asked["slim"])

=============================================================================
