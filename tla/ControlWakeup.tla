---------------------------- MODULE ControlWakeup ----------------------------
(***************************************************************************)
(* How the control loop comes to know.  A listener of PipeWire's loop      *)
(* stores what it has to say and notifies; the control loop serves what it *)
(* finds and waits on a condition variable for 100 ms at most.  The audio  *)
(* callback notifies nobody: the quantum it sees changed is a flag that    *)
(* the loop finds when it comes by.                                        *)
(***************************************************************************)
EXTENDS Naturals

CONSTANTS
    Quanta,                 \* frames of a callback, 0 is none yet
    MaxPosts, MaxQuanta     \* bounds: posts of listeners, changes of quantum

ASSUME WakeupAssumption == 0 \notin Quanta /\ {MaxPosts, MaxQuanta} \subseteq Nat

VARIABLES
    unserved, posts,        \* what listeners stored, and how often
    notifying,              \* a listener has stored and not yet notified
    notified,               \* the Boolean behind the mutex
    loop,                   \* step of the control loop
    frames, quantumRaised,  \* requested_buffer_frames, NEEDS_QUANTUM_LOG
    lastFrames, callback,   \* last_n_samples, and step of the callback
    quantumSeen,            \* effective_quantum of handle_quantum_log
    quantumTold,            \* previous_buffer_frames
    overtaken, changes      \* history: raised while told, and how often

postVars == <<unserved, posts, notifying, notified>>
quantumVars == <<frames, quantumRaised, lastFrames, callback, quantumSeen, quantumTold,
                 overtaken, changes>>
wakeupVars == <<postVars, loop, quantumVars>>

WakeupInit ==
    /\ unserved = FALSE /\ posts = 0 /\ notifying = FALSE /\ notified = FALSE
    /\ loop = "serve"
    /\ frames = 0 /\ quantumRaised = FALSE /\ lastFrames = 0 /\ callback = "idle"
    /\ quantumSeen = 0 /\ quantumTold = 0 /\ overtaken = FALSE /\ changes = 0

-----------------------------------------------------------------------------
(* PipeWire's loop thread: one listener at a time.                         *)

Post ==
    /\ ~notifying /\ posts < MaxPosts
    /\ unserved' = TRUE /\ posts' = posts + 1
    /\ notifying' = TRUE
    /\ UNCHANGED <<notified, loop, quantumVars>>

Notify ==
    /\ notifying
    /\ notified' = TRUE
    /\ notifying' = FALSE
    /\ UNCHANGED <<unserved, posts, loop, quantumVars>>

(* The audio callback stores the frames and then raises the flag.          *)
SeeQuantum ==
    /\ callback = "idle" /\ changes < MaxQuanta
    /\ \E q \in Quanta :
           /\ q # lastFrames
           /\ lastFrames' = q /\ frames' = q
    /\ callback' = "raise" /\ changes' = changes + 1
    /\ UNCHANGED <<postVars, loop, quantumRaised, quantumSeen, quantumTold, overtaken>>

RaiseQuantum ==
    /\ callback = "raise"
    /\ quantumRaised' = TRUE
    /\ callback' = "idle"
    /\ overtaken' = (overtaken \/ loop = "told")
    /\ UNCHANGED <<postVars, loop, frames, lastFrames, quantumSeen, quantumTold, changes>>

-----------------------------------------------------------------------------
(* The control loop                                                        *)

Serve ==
    /\ loop = "serve"
    /\ unserved' = FALSE
    /\ loop' = "quantum"
    /\ UNCHANGED <<posts, notifying, notified, quantumVars>>

FindQuantum ==
    /\ loop = "quantum"
    /\ IF quantumRaised
       THEN loop' = "told" /\ quantumSeen' = frames
       ELSE loop' = "wait" /\ UNCHANGED quantumSeen
    /\ UNCHANGED <<postVars, frames, quantumRaised, lastFrames, callback, quantumTold,
                   overtaken, changes>>

(* The flag is cleared behind the report, whoever raised it meanwhile.     *)
TellQuantum ==
    /\ loop = "told"
    /\ quantumTold' = quantumSeen
    /\ quantumSeen' = 0
    /\ quantumRaised' = FALSE
    /\ loop' = "wait"
    /\ UNCHANGED <<postVars, frames, lastFrames, callback, overtaken, changes>>

(* wait_timeout: the mutex is given up only inside the wait.               *)
NeverNotified == FALSE
AlreadyNotified == notified

WaitTimeout ==
    /\ loop = "wait"
    /\ loop' = IF AlreadyNotified THEN "serve" ELSE "asleep"
    /\ notified' = FALSE
    /\ UNCHANGED <<unserved, posts, notifying, quantumVars>>

(* By a notification, or after 100 ms.                                     *)
WakeUp ==
    /\ loop = "asleep"
    /\ loop' = "serve"
    /\ notified' = FALSE
    /\ UNCHANGED <<unserved, posts, notifying, quantumVars>>

LoopStep == Serve \/ FindQuantum \/ TellQuantum \/ WaitTimeout \/ WakeUp

WakeupNext == Post \/ Notify \/ SeeQuantum \/ RaiseQuantum \/ LoopStep

(* The wait ends by its timeout if by nothing else.                        *)
WakeupFairness == WF_wakeupVars(LoopStep)
WakeupSpec == WakeupInit /\ [][WakeupNext]_wakeupVars /\ WakeupFairness

-----------------------------------------------------------------------------
(* Properties                                                              *)

WakeupTypeOK ==
    /\ {unserved, notifying, notified, quantumRaised, overtaken} \subseteq BOOLEAN
    /\ loop \in {"serve", "quantum", "told", "wait", "asleep"}
    /\ {frames, lastFrames, quantumSeen, quantumTold} \subseteq Quanta \cup {0}
    /\ callback \in {"idle", "raise"}

(* No wakeup is lost: the loop never sleeps out its 100 ms while something *)
(* it was notified of is unserved; whoever stored it is yet to notify, or  *)
(* the loop is being woken.                                                *)
NoLostWakeup == (loop = "asleep" /\ unserved) => (notified \/ notifying)

(* A change of quantum stays untold, once the flag is down, only if it was *)
(* raised while the one before was being told.                             *)
QuantumIsTold ==
    (quantumTold # frames /\ ~quantumRaised /\ callback = "idle" /\ loop # "told") => overtaken
=============================================================================
