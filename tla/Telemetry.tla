------------------------------ MODULE Telemetry ------------------------------
(***************************************************************************)
(* What poll_rt_status counts: overloaded quanta become xruns, and the     *)
(* blocks that the bridge dropped are taken for the start-up ramp during   *)
(* the first quanta of a streaming session, for clock drift afterwards.    *)
(* The counters of the streams outlive an instance of the host, the state  *)
(* of the poll does not.                                                   *)
(***************************************************************************)
EXTENDS Integers

CONSTANTS
    BringupQuantums,            \* PLAYBACK_BRINGUP_QUANTUMS
    SuppressedPolls,            \* MAX_BRINGUP_SUPPRESSED_POLLS
    MaxSessions, MaxHosts,      \* bounds: entries into Streaming, instances,
    MaxDrops, MaxOverloads      \* blocks dropped, overloaded quanta

ASSUME TelemetryAssumption ==
    /\ {BringupQuantums, SuppressedPolls} \subseteq Nat \ {0}
    /\ {MaxSessions, MaxDrops, MaxOverloads} \subseteq Nat /\ MaxHosts \in Nat \ {0}

VARIABLES
    overloads, xruns,           \* dsp_overloads, and its running sum
    pendingDrops,               \* dropped frames the bridge holds
    quanta,                     \* playback_quantums
    streaming, sessions,        \* the playback stream, and its entries
    host,                       \* instance of the host, 0 after the last
    polling,                    \* step of poll_rt_status, with
    inHand, ramping,            \* what it swapped, bringing_up
    bringup,                    \* PollState: last_bringup_quanta, ...
    accounted,                  \* bridge_dropped_frames
    masked,                     \* history: drops taken for the ramp
    maskedPolls,                \* history: polls of this session that did so
    droppedBlocks, overloaded   \* history: all that was dropped, overloaded

audioVars == <<overloads, pendingDrops, quanta>>
streamVars == <<streaming, sessions, host>>
stepVars == <<polling, inHand, ramping>>
sumVars == <<xruns, accounted>>
pastVars == <<masked, maskedPolls, droppedBlocks, overloaded>>
telemetryVars == <<audioVars, streamVars, stepVars, bringup, sumVars, pastVars>>

FreshBringup == [last |-> 0, polls |-> 0, drained |-> FALSE, completed |-> FALSE]

FreshPollState == bringup' = FreshBringup

TelemetryInit ==
    /\ overloads = 0 /\ pendingDrops = 0 /\ quanta = 0
    /\ streaming = FALSE /\ sessions = 0 /\ host = 1
    /\ polling = "idle" /\ inHand = 0 /\ ramping = FALSE
    /\ bringup = FreshBringup
    /\ xruns = 0 /\ accounted = 0
    /\ masked = 0 /\ maskedPolls = 0 /\ droppedBlocks = 0 /\ overloaded = 0

-----------------------------------------------------------------------------
(* The audio threads and the playback stream's listener.                   *)

OverloadQuantum ==
    /\ host # 0 /\ overloaded < MaxOverloads
    /\ overloads' = overloads + 1
    /\ overloaded' = overloaded + 1
    /\ UNCHANGED <<pendingDrops, quanta>>
    /\ UNCHANGED <<streamVars, stepVars, bringup, sumVars>>
    /\ UNCHANGED <<masked, maskedPolls, droppedBlocks>>

(* The capture side found the reader behind and skipped the block.         *)
DropBlock ==
    /\ host # 0 /\ droppedBlocks < MaxDrops
    /\ pendingDrops' = pendingDrops + 1
    /\ droppedBlocks' = droppedBlocks + 1
    /\ UNCHANGED <<overloads, quanta>>
    /\ UNCHANGED <<streamVars, stepVars, bringup, sumVars>>
    /\ UNCHANGED <<masked, maskedPolls, overloaded>>

PlaybackQuantum ==
    /\ streaming /\ quanta < BringupQuantums
    /\ quanta' = quanta + 1
    /\ UNCHANGED <<overloads, pendingDrops>>
    /\ UNCHANGED <<streamVars, stepVars, bringup, sumVars, pastVars>>

EnterStreaming ==
    /\ host # 0 /\ ~streaming /\ sessions < MaxSessions
    /\ streaming' = TRUE
    /\ sessions' = sessions + 1
    /\ quanta' = 0
    /\ maskedPolls' = 0
    /\ UNCHANGED <<overloads, pendingDrops, host>>
    /\ UNCHANGED <<stepVars, bringup, sumVars>>
    /\ UNCHANGED <<masked, droppedBlocks, overloaded>>

LeaveStreaming ==
    /\ streaming
    /\ streaming' = FALSE
    /\ UNCHANGED <<sessions, host, audioVars, stepVars, bringup, sumVars, pastVars>>

-----------------------------------------------------------------------------
(* poll_rt_status                                                          *)

TakeOverloads ==
    /\ host # 0 /\ polling = "idle"
    /\ inHand' = overloads
    /\ overloads' = 0
    /\ polling' = "sum"
    /\ UNCHANGED <<pendingDrops, quanta, ramping, streamVars, bringup, sumVars, pastVars>>

SumOverloads ==
    /\ polling = "sum"
    /\ xruns' = xruns + inHand
    /\ inHand' = 0
    /\ polling' = "quanta"
    /\ UNCHANGED <<accounted, ramping, audioVars, streamVars, bringup, pastVars>>

(* A step back of the quanta is a session begun since the last poll, and   *)
(* any progress renews the budget of polls.                                *)
Rearmed ==
    IF quanta < bringup.last THEN [FreshBringup EXCEPT !.last = quanta]
    ELSE IF quanta # bringup.last THEN [bringup EXCEPT !.last = quanta, !.polls = 0]
    ELSE bringup

WithinBudget(b) == b.polls < SuppressedPolls

(* The first poll behind the window takes what the ramp left.              *)
StillRamping(b) ==
    /\ ~b.completed
    /\ IF quanta < BringupQuantums THEN WithinBudget(b) ELSE ~b.drained

ReadQuanta ==
    /\ polling = "quanta"
    /\ LET b == Rearmed
           steady == quanta >= BringupQuantums
       IN  /\ ramping' = StillRamping(b)
           /\ bringup' = [b EXCEPT
                 !.polls = IF StillRamping(b) THEN @ + 1 ELSE @,
                 !.drained = @ \/ (steady /\ ~b.completed),
                 !.completed = @ \/ steady]
           /\ maskedPolls' = IF StillRamping(b) THEN maskedPolls + 1 ELSE maskedPolls
    /\ polling' = "drain"
    /\ UNCHANGED <<inHand, audioVars, streamVars, sumVars>>
    /\ UNCHANGED <<masked, droppedBlocks, overloaded>>

DrainDrops ==
    /\ polling = "drain"
    /\ IF ramping
       THEN /\ masked' = masked + pendingDrops
            /\ bringup' = [bringup EXCEPT !.drained = @ \/ pendingDrops > 0]
            /\ UNCHANGED accounted
       ELSE /\ accounted' = accounted + pendingDrops
            /\ UNCHANGED <<masked, bringup>>
    /\ pendingDrops' = 0
    /\ polling' = "idle"
    /\ UNCHANGED <<overloads, quanta, streamVars, xruns>>
    /\ UNCHANGED <<inHand, ramping>>
    /\ UNCHANGED <<maskedPolls, droppedBlocks, overloaded>>

PollStatus ==
    TakeOverloads \/ SumOverloads \/ ReadQuanta \/ DrainDrops

(* Behind the stop of the loop thread the bridge is drained once more; the *)
(* next instance polls with a fresh state over the same counters.          *)
ForgottenAtTeardown == 0
DrainedAtTeardown == pendingDrops

TearDownHost ==
    /\ host # 0 /\ polling = "idle"
    /\ accounted' = accounted + DrainedAtTeardown
    /\ pendingDrops' = 0
    /\ streaming' = FALSE
    /\ host' = IF host < MaxHosts THEN host + 1 ELSE 0
    /\ FreshPollState
    /\ maskedPolls' = 0
    /\ UNCHANGED <<overloads, quanta, sessions, stepVars, xruns>>
    /\ UNCHANGED <<masked, droppedBlocks, overloaded>>

TelemetryNext ==
    \/ OverloadQuantum \/ DropBlock \/ PlaybackQuantum
    \/ EnterStreaming \/ LeaveStreaming
    \/ PollStatus \/ TearDownHost

(* The loop polls at least every 100 ms.                                   *)
TelemetryFairness == WF_telemetryVars(PollStatus)
TelemetrySpec == TelemetryInit /\ [][TelemetryNext]_telemetryVars /\ TelemetryFairness

-----------------------------------------------------------------------------
(* Properties                                                              *)

TelemetryTypeOK ==
    /\ quanta \in 0 .. BringupQuantums /\ host \in 0 .. MaxHosts
    /\ polling \in {"idle", "sum", "quanta", "drain"}
    /\ {overloads, xruns, pendingDrops, inHand, accounted, masked} \subseteq Nat
    /\ bringup.polls \in 0 .. SuppressedPolls + 1 /\ bringup.last \in 0 .. BringupQuantums
    /\ ramping \in BOOLEAN /\ bringup.drained \in BOOLEAN /\ bringup.completed \in BOOLEAN

(* Nothing the audio threads counted is lost between the swap, the poll    *)
(* that an instance does not live to see and the sums of the last report:  *)
(* a dropped block is accounted or was taken for the ramp, and an overload *)
(* is an xrun.                                                             *)
NothingUncounted ==
    /\ droppedBlocks = pendingDrops + accounted + masked
    /\ overloaded = overloads + inHand + xruns

(* The ramp excuses no drift for long: however the polls fall, and if the  *)
(* playback stalls in its first quanta, the polls of a session that take   *)
(* drops for the ramp are bounded.                                         *)
SuppressionIsBounded == maskedPolls <= BringupQuantums * SuppressedPolls + 1
=============================================================================
