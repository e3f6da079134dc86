----------------------------- MODULE StatusLines -----------------------------
(***************************************************************************)
(* The lines poll_rt_status prints for signals: status bits that it tests  *)
(* and clears, counters that it compares with the last poll, and the       *)
(* outcome of making the audio thread a real-time thread, which that       *)
(* thread leaves in atomics during its first quantum.  A signal is told    *)
(* once per episode.  The atomics outlive an instance of the host, the     *)
(* latches of the poll and the audio thread do not.                        *)
(***************************************************************************)
EXTENDS Naturals

CONSTANTS
    Bits, Sticky,           \* status bits, and those nobody clears
    Counters,               \* buffer misses, starvation, log records dropped
    MaxBringups             \* bound on the instances of the host

ASSUME LinesAssumption ==
    Sticky \subseteq Bits /\ Bits \cap Counters = {} /\ MaxBringups \in Nat \ {0}

Failures == {"affinity", "scheduler", "policy"}

VARIABLES
    raised,                 \* bits set, and counters that moved since read
    seenBits,               \* current_bits
    latched,                \* signals whose episode has been told
    rtThread,               \* the audio thread: how far it is configured
    rtErrors,               \* rt_affinity_err, rt_sched_err, rt_getsched_err
    rtPriority,             \* rt_priority and rt_policy, "none" is -1
    lineStep,               \* step of poll_rt_status
    bringups,               \* instance of the host, 0 after the last
    failed, toldErrors      \* history: what failed, and what was told

pollLineVars == <<seenBits, latched, lineStep>>
rtThreadVars == <<rtThread, rtErrors, rtPriority, failed>>
lineVars == <<raised, pollLineVars, rtThreadVars, bringups, toldErrors>>

LinesInit ==
    /\ raised = {} /\ seenBits = {} /\ latched = {}
    /\ rtThread = "fresh" /\ rtErrors = {} /\ rtPriority = "none"
    /\ lineStep = "idle" /\ bringups = 1
    /\ failed = {} /\ toldErrors = {}

-----------------------------------------------------------------------------
(* The audio threads                                                       *)

RaiseSignal(s) ==
    /\ bringups # 0 /\ s \notin raised
    /\ raised' = raised \cup {s}
    /\ UNCHANGED <<pollLineVars, rtThreadVars, bringups, toldErrors>>

(* configure_realtime_thread: affinity first, then the scheduler.          *)
LeaveErrors(errors) ==
    /\ rtErrors' = rtErrors \cup errors
    /\ failed' = failed \cup errors

PinThread ==
    /\ bringups # 0 /\ rtThread = "fresh"
    /\ \E errors \in SUBSET {"affinity"} : LeaveErrors(errors)
    /\ rtThread' = "pinned"
    /\ UNCHANGED <<raised, pollLineVars, rtPriority, bringups, toldErrors>>

PromoteThread ==
    /\ rtThread = "pinned"
    /\ \E errors \in SUBSET {"scheduler", "policy"} : LeaveErrors(errors)
    /\ rtPriority' \in {"realtime", "denied"}
    /\ rtThread' = "running"
    /\ UNCHANGED <<raised, pollLineVars, bringups, toldErrors>>

-----------------------------------------------------------------------------
(* poll_rt_status                                                          *)

LoadBits ==
    /\ bringups # 0 /\ lineStep = "idle"
    /\ seenBits' = raised \cap Bits
    /\ lineStep' = "clear"
    /\ UNCHANGED <<raised, latched, rtThreadVars, bringups, toldErrors>>

(* LatchedSignal::observe for the signals of a class: active now is told   *)
(* unless it was at the last poll, absent now arms it again.               *)
Observe(class) == latched' = (latched \ class) \cup (raised \cap class)

(* Each bit is tested and cleared at once, whatever current_bits was.      *)
ClearBits ==
    /\ lineStep = "clear"
    /\ Observe(Bits)
    /\ raised' = raised \ (Bits \ Sticky)
    /\ seenBits' = {}
    /\ lineStep' = "errors"
    /\ UNCHANGED <<rtThreadVars, bringups, toldErrors>>

SwapErrors ==
    /\ lineStep = "errors"
    /\ toldErrors' = toldErrors \cup rtErrors
    /\ rtErrors' = {}
    /\ lineStep' = "priority"
    /\ UNCHANGED <<raised, seenBits, latched, rtThread, rtPriority, failed, bringups>>

TellPriority ==
    /\ lineStep = "priority"
    /\ rtPriority' = "none"
    /\ lineStep' = "counters"
    /\ UNCHANGED <<raised, seenBits, latched, rtThread, rtErrors, failed, bringups, toldErrors>>

(* A counter is swapped with 0, or its growth taken since the last poll.   *)
ReadCounters ==
    /\ lineStep = "counters"
    /\ Observe(Counters)
    /\ raised' = raised \ Counters
    /\ lineStep' = "idle"
    /\ UNCHANGED <<seenBits, rtThreadVars, bringups, toldErrors>>

PollLines == LoadBits \/ ClearBits \/ SwapErrors \/ TellPriority \/ ReadCounters

(* The next instance has a fresh audio thread and fresh latches.           *)
EndBringup ==
    /\ bringups # 0 /\ lineStep = "idle"
    /\ bringups' = IF bringups < MaxBringups THEN bringups + 1 ELSE 0
    /\ rtThread' = "fresh"
    /\ latched' = {}
    /\ UNCHANGED <<raised, seenBits, lineStep, rtErrors, rtPriority, failed, toldErrors>>

LinesNext ==
    \/ \E s \in Bits \cup Counters : RaiseSignal(s)
    \/ PinThread \/ PromoteThread
    \/ PollLines \/ EndBringup

(* The loop polls at least every 100 ms.                                   *)
LinesFairness == WF_lineVars(PollLines)
LinesSpec == LinesInit /\ [][LinesNext]_lineVars /\ LinesFairness

-----------------------------------------------------------------------------
(* Properties                                                              *)

LinesTypeOK ==
    /\ raised \cup latched \subseteq Bits \cup Counters /\ seenBits \subseteq Bits
    /\ rtThread \in {"fresh", "pinned", "running"}
    /\ rtErrors \cup failed \cup toldErrors \subseteq Failures
    /\ rtPriority \in {"none", "realtime", "denied"}
    /\ lineStep \in {"idle", "clear", "errors", "priority", "counters"}
    /\ bringups \in 0 .. MaxBringups

(* A failure to make the audio thread real-time is told or still waits     *)
(* where the poll finds it, also when its instance ended before a poll.    *)
FailuresAreKept == failed = rtErrors \cup toldErrors

(* A signal that was raised is told, or belongs to an episode that was,    *)
(* unless the host ends first: none is lost between the load of the bits   *)
(* and their clearing.                                                     *)
RaisedIsTold ==
    \A s \in Bits \cup Counters :
        (s \in raised /\ bringups # 0) ~> (s \in latched \/ bringups = 0)

(* And so is the outcome of the promotion.                                 *)
PriorityIsTold == (rtPriority # "none") ~> (rtPriority = "none" \/ bringups = 0)
=============================================================================
