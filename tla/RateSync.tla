------------------------------ MODULE RateSync ------------------------------
(***************************************************************************)
(* How the host follows a change of sample rate.  The PipeWire loop thread *)
(* stores a negotiated host rate in a one-shot cell and a command brings a *)
(* model with a rate of its own; the real-time callback asks for a new     *)
(* resampler and stays muted; the control loop of the main thread builds   *)
(* one and sends it back through a ring; the callback installs it.         *)
(*                                                                         *)
(* The two threads share a request (two rates, a generation, a NEEDS flag) *)
(* and a failure marker (the generation whose build failed), all of them   *)
(* separate atomics, so every access to one of them is a step of its own.  *)
(* What only the callback reads and writes changes together with the next  *)
(* shared access.  Two accesses share a step only where no step of another *)
(* thread can tell: the swap of the cell and the load of the marker touch  *)
(* variables of different threads, and generations only grow.              *)
(*                                                                         *)
(* A rate tuple is <<host rate, model rate>>.  The build of the target is  *)
(* x86-64: an atomic read-modify-write is a full fence there, and the      *)
(* accesses are interleaved.                                               *)
(***************************************************************************)
EXTENDS Integers, Sequences

CONSTANTS
    Rates,          \* sample rates a host or a model may have
    DefaultRate,    \* the rate both start with (48 kHz)
    RingCapacity,   \* capacity of the resampler swap ring
    MaxChanges,     \* bound: negotiations and model loads
    MaxFailures     \* bound: builds that fail

ASSUME RateAssumption == Rates \subseteq Nat \ {0} /\ DefaultRate \in Rates

(* One drain pops up to 8 payloads: it empties the ring.                   *)
ASSUME RingAssumption == RingCapacity \in 1 .. 8

ASSUME BoundAssumption == MaxChanges \in Nat /\ MaxFailures \in Nat

NoRate == 0
NoRates == <<NoRate, NoRate>>
NoFailure == 0

VARIABLES
    cell,                       \* shared_target_rate: negotiated, not yet seen
    reqHost, reqNam, gen,       \* requested rates and rate generation
    needs,                      \* RT_STATUS_NEEDS_RESAMPLER_REBUILD
    failedGen,                  \* resampler_failed_generation
    ring,                       \* resampler payloads sent to the callback
    rtPc, budget,               \* callback: step, structural swaps left
    active, nam,                \* rates of the resampler, rate of the model
    desired, last,              \* desired_host_rate, last_requested_rates
    failedRates, retries,       \* failed_rates, failed_retry_count
    pending, applied,           \* RESAMP_SWAP_PENDING, applied_rate_generation
    outcome,                    \* PrologueOutcome of the latest callback
    mainPc, job,                \* control loop: step, snapshot it builds from
    changes, failures           \* bounded by MaxChanges, MaxFailures

requestVars == <<reqHost, reqNam, gen>>
syncVars == <<desired, last, failedRates, retries>>
swapVars == <<active, pending, applied>>
mainVars == <<mainPc, job, failures>>
vars == <<cell, requestVars, needs, failedGen, ring, rtPc, budget, swapVars, nam,
          syncVars, outcome, mainVars, changes>>

Init ==
    /\ cell = NoRate
    /\ reqHost = NoRate /\ reqNam = NoRate /\ gen = 0
    /\ needs = FALSE /\ failedGen = NoFailure /\ ring = <<>>
    /\ rtPc = "idle" /\ budget = 1
    /\ active = <<DefaultRate, DefaultRate>> /\ nam = DefaultRate
    /\ desired = DefaultRate /\ last = NoRates
    /\ failedRates = NoRates /\ retries = 0
    /\ pending = FALSE /\ applied = 0 /\ outcome = "proceed"
    /\ mainPc = "idle" /\ job = [gen |-> 0, rates |-> NoRates]
    /\ changes = 0 /\ failures = 0

-----------------------------------------------------------------------------
(* The PipeWire loop thread: a format was negotiated.                      *)
Negotiate(r) ==
    /\ changes < MaxChanges
    /\ changes' = changes + 1
    /\ cell' = r
    /\ UNCHANGED <<requestVars, needs, failedGen, ring, rtPc, budget, swapVars,
                   nam, syncVars, outcome, mainVars>>

-----------------------------------------------------------------------------
(* The real-time callback, in the order of rt_quantum_prologue.            *)

AnyGeneration == DOMAIN ring
Current == {i \in DOMAIN ring : ring[i].gen = gen}

(* The callback has an answer to generation g and is no longer muted.      *)
ResolvedUnrecorded(g) == UNCHANGED applied /\ pending' = FALSE
Resolved(g) == applied' = g /\ pending' = FALSE

(* The resampler is the first to use the swap budget of the callback, so a *)
(* payload of the current generation is always installed, the latest one   *)
(* if there are several; payloads of older generations are discarded.      *)
Install(i) ==
    /\ \A j \in Current : j <= i
    /\ active' = ring[i].rates
    /\ Resolved(ring[i].gen)
    /\ budget' = 0

DrainResamplers ==
    /\ rtPc = "idle"
    /\ \/ \E i \in Current : Install(i)
       \/ Current = {} /\ budget' = 1 /\ UNCHANGED swapVars
    /\ ring' = <<>>
    /\ rtPc' = "commands"
    /\ UNCHANGED <<cell, requestVars, needs, failedGen, nam, syncVars, outcome,
                   mainVars, changes>>

HasBudget == budget > 0

(* A LoadModel command needs a swap of the budget; otherwise it is parked. *)
(* Unloading the models is the case r = DefaultRate.                       *)
LoadModel(r) ==
    /\ rtPc = "commands" /\ HasBudget /\ changes < MaxChanges
    /\ changes' = changes + 1
    /\ budget' = budget - 1
    /\ nam' = r
    /\ rtPc' = "sync"
    /\ UNCHANGED <<cell, requestVars, needs, failedGen, ring, swapVars, syncVars,
                   outcome, mainVars>>

NoLoadModel ==
    /\ rtPc = "commands"
    /\ rtPc' = "sync"
    /\ UNCHANGED <<cell, requestVars, needs, failedGen, ring, budget, swapVars,
                   nam, syncVars, outcome, mainVars, changes>>

-----------------------------------------------------------------------------
(* sync_rate, up to the first store into shared memory.                    *)

NextDesired ==
    IF cell # NoRate THEN cell ELSE IF desired = NoRate THEN active[1] ELSE desired

Wanted == <<NextDesired, nam>>

(* A request for other rates is pending, and has not failed.               *)
ReturnsToActive ==
    pending /\ last # NoRates /\ last # active /\ failedGen = NoFailure

GaveUpOnAnyRates == retries >= 1
GaveUp == failedRates = Wanted /\ retries >= 1
InFlight == pending /\ last = Wanted
Known == NextDesired # NoRate /\ nam # NoRate

ForgetFailure == failedRates' = NoRates /\ retries' = 0
KeepFailure == UNCHANGED <<failedRates, retries>>

AtActive ==
    /\ Wanted = active
    /\ IF failedRates = Wanted THEN ForgetFailure ELSE KeepFailure
    /\ IF ReturnsToActive
       THEN last' = NoRates /\ rtPc' = "invalidate"
       ELSE rtPc' = "guard" /\ UNCHANGED last

KeepWaiting ==
    /\ Wanted # active
    /\ GaveUp \/ InFlight \/ ~Known
    /\ rtPc' = "guard"
    /\ UNCHANGED <<last, failedRates, retries>>

StartRequest ==
    /\ Wanted # active /\ ~GaveUp /\ ~InFlight /\ Known
    /\ last' = Wanted
    /\ IF failedRates = Wanted THEN KeepFailure ELSE ForgetFailure
    /\ rtPc' = "storeHost"

SyncRate ==
    /\ rtPc = "sync"
    /\ cell' = NoRate
    /\ desired' = NextDesired
    /\ AtActive \/ KeepWaiting \/ StartRequest
    /\ UNCHANGED <<requestVars, needs, failedGen, ring, budget, swapVars, nam,
                   outcome, mainVars, changes>>

(* Return to the active rate: the in-flight build becomes stale.           *)
Invalidate ==
    /\ rtPc = "invalidate"
    /\ gen' = gen + 1
    /\ Resolved(gen + 1)
    /\ rtPc' = "disarm"
    /\ UNCHANGED <<cell, reqHost, reqNam, needs, failedGen, ring, budget, active,
                   nam, syncVars, outcome, mainVars, changes>>

Disarm ==
    /\ rtPc = "disarm"
    /\ needs' = FALSE
    /\ rtPc' = "guard"
    /\ UNCHANGED <<cell, requestVars, failedGen, ring, budget, swapVars, nam,
                   syncVars, outcome, mainVars, changes>>

(* A new request: the two rates, then the generation, then the flag.       *)
StoreHost ==
    /\ rtPc = "storeHost"
    /\ reqHost' = desired
    /\ rtPc' = "storeNam"
    /\ UNCHANGED <<cell, reqNam, gen, needs, failedGen, ring, budget, swapVars,
                   nam, syncVars, outcome, mainVars, changes>>

StoreNam ==
    /\ rtPc = "storeNam"
    /\ reqNam' = nam
    /\ rtPc' = "advance"
    /\ UNCHANGED <<cell, reqHost, gen, needs, failedGen, ring, budget, swapVars,
                   nam, syncVars, outcome, mainVars, changes>>

AdvanceGeneration ==
    /\ rtPc = "advance"
    /\ gen' = gen + 1
    /\ rtPc' = "arm"
    /\ UNCHANGED <<cell, reqHost, reqNam, needs, failedGen, ring, budget,
                   swapVars, nam, syncVars, outcome, mainVars, changes>>

Arm ==
    /\ rtPc = "arm"
    /\ needs' = TRUE
    /\ pending' = TRUE
    /\ rtPc' = "guard"
    /\ UNCHANGED <<cell, requestVars, failedGen, ring, budget, active, applied,
                   nam, syncVars, outcome, mainVars, changes>>

-----------------------------------------------------------------------------
(* The fail-open rollback guard that ends the prologue.                    *)

NothingToResolve ==
    /\ pending => failedGen > gen
    /\ outcome' = "proceed" /\ rtPc' = "idle"
    /\ UNCHANGED <<pending, applied, failedRates, retries>>

StillBuilding ==
    /\ pending /\ failedGen = NoFailure
    /\ outcome' = "skip" /\ rtPc' = "idle"
    /\ UNCHANGED <<pending, applied, failedRates, retries>>

StaleFailure ==
    /\ pending /\ failedGen # NoFailure /\ failedGen < gen
    /\ outcome' = "skip" /\ rtPc' = "clearMarker"
    /\ UNCHANGED <<pending, applied, failedRates, retries>>

(* The previous resampler is accepted for the failed request.              *)
RollBack ==
    /\ pending /\ failedGen # NoFailure /\ failedGen = gen
    /\ Resolved(gen)
    /\ failedRates' = last /\ retries' = retries + 1
    /\ outcome' = "proceed" /\ rtPc' = "clearNeeds"

RollbackGuard ==
    /\ rtPc = "guard"
    /\ NothingToResolve \/ StillBuilding \/ StaleFailure \/ RollBack
    /\ UNCHANGED <<cell, requestVars, needs, failedGen, ring, budget, active,
                   nam, desired, last, mainVars, changes>>

ClearNeeds ==
    /\ rtPc = "clearNeeds"
    /\ needs' = FALSE
    /\ rtPc' = "clearMarker"
    /\ UNCHANGED <<cell, requestVars, failedGen, ring, budget, swapVars, nam,
                   syncVars, outcome, mainVars, changes>>

ClearMarker ==
    /\ rtPc = "clearMarker"
    /\ failedGen' = NoFailure
    /\ rtPc' = "idle"
    /\ UNCHANGED <<cell, requestVars, needs, ring, budget, swapVars, nam,
                   syncVars, outcome, mainVars, changes>>

Callback ==
    \/ DrainResamplers
    \/ \E r \in Rates : LoadModel(r)
    \/ NoLoadModel
    \/ SyncRate
    \/ Invalidate \/ Disarm
    \/ StoreHost \/ StoreNam \/ AdvanceGeneration \/ Arm
    \/ RollbackGuard \/ ClearNeeds \/ ClearMarker

-----------------------------------------------------------------------------
(* The control loop: handle_resampler_rebuild.                             *)

rtVars == <<cell, requestVars, rtPc, budget, swapVars, nam, syncVars, outcome>>

CheckNeeds ==
    /\ mainPc = "idle" /\ needs
    /\ mainPc' = "generation"
    /\ UNCHANGED <<rtVars, needs, failedGen, ring, job, failures, changes>>

CaptureGeneration ==
    /\ mainPc = "generation"
    /\ job' = [job EXCEPT !.gen = gen]
    /\ mainPc' = "host"
    /\ UNCHANGED <<rtVars, needs, failedGen, ring, failures, changes>>

CaptureHost ==
    /\ mainPc = "host"
    /\ job' = [job EXCEPT !.rates[1] = reqHost]
    /\ mainPc' = "nam"
    /\ UNCHANGED <<rtVars, needs, failedGen, ring, failures, changes>>

CaptureNam ==
    /\ mainPc = "nam"
    /\ job' = [job EXCEPT !.rates[2] = reqNam]
    /\ mainPc' = IF job.rates[1] # NoRate /\ reqNam # NoRate THEN "build" ELSE "idle"
    /\ UNCHANGED <<rtVars, needs, failedGen, ring, failures, changes>>

BuildSucceeds ==
    /\ mainPc = "build"
    /\ failedGen' = NoFailure
    /\ mainPc' = "push"
    /\ UNCHANGED <<rtVars, needs, ring, job, failures, changes>>

BuildFails ==
    /\ mainPc = "build" /\ failures < MaxFailures
    /\ failures' = failures + 1
    /\ failedGen' = job.gen
    /\ mainPc' = "clear"
    /\ UNCHANGED <<rtVars, needs, ring, job, changes>>

Push ==
    /\ mainPc = "push" /\ Len(ring) < RingCapacity
    /\ ring' = Append(ring, job)
    /\ mainPc' = "clear"
    /\ UNCHANGED <<rtVars, needs, failedGen, job, failures, changes>>

(* The ring is full: NEEDS stays set, the next iteration builds again.     *)
PushFullGivesUp ==
    /\ mainPc = "push" /\ Len(ring) = RingCapacity
    /\ needs' = FALSE
    /\ mainPc' = "idle"
    /\ UNCHANGED <<rtVars, failedGen, ring, job, failures, changes>>
PushFull ==
    /\ mainPc = "push" /\ Len(ring) = RingCapacity
    /\ mainPc' = "idle"
    /\ UNCHANGED <<rtVars, needs, failedGen, ring, job, failures, changes>>

(* rearm_rebuild_if_superseded: clear first, look at the generation after. *)
ClearRequest ==
    /\ mainPc = "clear"
    /\ needs' = FALSE
    /\ mainPc' = "rearm"
    /\ UNCHANGED <<rtVars, failedGen, ring, job, failures, changes>>

NeverSuperseded == FALSE
Superseded == gen # job.gen

RearmIfSuperseded ==
    /\ mainPc = "rearm"
    /\ IF Superseded THEN needs' = TRUE ELSE UNCHANGED needs
    /\ mainPc' = "idle"
    /\ UNCHANGED <<rtVars, failedGen, ring, job, failures, changes>>

ControlLoop ==
    \/ CheckNeeds \/ CaptureGeneration \/ CaptureHost \/ CaptureNam
    \/ BuildSucceeds \/ BuildFails
    \/ Push \/ PushFull
    \/ ClearRequest \/ RearmIfSuperseded

Next == (\E r \in Rates : Negotiate(r)) \/ Callback \/ ControlLoop

(* PipeWire keeps calling the callback and the main thread keeps looping;  *)
(* nobody owes a negotiation or a model.                                   *)
Fairness == WF_vars(Callback) /\ WF_vars(ControlLoop)

Spec == Init /\ [][Next]_vars /\ Fairness

-----------------------------------------------------------------------------
(* Properties.                                                             *)

RateTuples == (Rates \cup {NoRate}) \X (Rates \cup {NoRate})

Tuples == Rates \X Rates

SharedTypes ==
    /\ cell \in Rates \cup {NoRate}
    /\ reqHost \in Rates \cup {NoRate} /\ reqNam \in Rates \cup {NoRate}
    /\ gen \in Nat /\ applied \in Nat /\ failedGen \in Nat
    /\ needs \in BOOLEAN /\ pending \in BOOLEAN
    /\ changes \in 0 .. MaxChanges

RingTypes ==
    ring \in Seq([gen : Nat, rates : Tuples]) /\ Len(ring) <= RingCapacity

CallbackTypes ==
    /\ rtPc \in {"idle", "commands", "sync", "invalidate", "disarm", "storeHost",
                 "storeNam", "advance", "arm", "guard", "clearNeeds", "clearMarker"}
    /\ budget \in 0 .. 1
    /\ active \in Tuples /\ nam \in Rates /\ desired \in Rates
    /\ last \in RateTuples /\ failedRates \in RateTuples /\ retries \in Nat
    /\ outcome \in {"proceed", "skip"}

LoopTypes ==
    /\ mainPc \in {"idle", "generation", "host", "nam", "build", "push", "clear",
                   "rearm"}
    /\ job \in [gen : Nat, rates : RateTuples]
    /\ mainPc \in {"build", "push"} => job.rates \in Tuples
    /\ failures \in 0 .. MaxFailures

(* Every variable has the type of the field it stands for; a build is only *)
(* started for two known rates.                                            *)
TypeOK == SharedTypes /\ RingTypes /\ CallbackTypes /\ LoopTypes

(* A payload that passes the generation check of the drain was built for   *)
(* the rates of the latest request: reading the generation and the two     *)
(* rates one by one never lets a mixture of two requests be installed      *)
(* (rate_sync.rs, Publishing; handlers.rs, the "photograph").              *)
InstalledAsRequested ==
    [][active' # active => active' = <<reqHost, reqNam>>]_vars

(* Audio runs only when the callback has resolved the latest request, by a *)
(* replacement, a rollback or a return to the active rates: the invariant  *)
(* that the rollback guard says holds on unmute.                           *)
UnmutedIsResolved == rtPc = "idle" /\ ~pending => applied = gen

(* A callback lets audio through only at the rates wanted when it          *)
(* synchronised, or after giving these rates up because a build failed.    *)
ProceedsAtWantedRates ==
    rtPc = "idle" /\ outcome = "proceed"
      => active = <<desired, nam>> \/ failedRates = <<desired, nam>>

(* While the callback is muted somebody still owes it an answer: the NEEDS *)
(* flag, the handler at work, a payload in the ring or the failure marker. *)
(* A request that nobody serves would mute the host until the next change. *)
PendingIsServed ==
    rtPc = "idle" /\ pending =>
        \/ needs
        \/ mainPc = "generation"
        \/ mainPc # "idle" /\ job.gen # gen
        \/ mainPc \in {"host", "nam", "build", "push"} /\ job.gen = gen
        \/ Current # {}
        \/ failedGen = gen

(* Muted audio comes back once the rates stop changing, also when a build  *)
(* fails in between (MaxChanges and MaxFailures bound how often: the run   *)
(* has one failing build at most).                                         *)
MuteEnds == pending ~> ~pending

(* The callback clears the failure marker as stale only when it is stale:  *)
(* the marker of the current generation is kept for the rollback.          *)
OnlyStaleMarkersDropped ==
    [][ClearMarker /\ outcome = "skip" => failedGen # gen]_vars
=============================================================================
