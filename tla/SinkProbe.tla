------------------------------ MODULE SinkProbe ------------------------------
(***************************************************************************)
(* The probe for the default sink: pw-metadata runs as a child under a     *)
(* watchdog.  Its output is read while it runs, in slices that end at a    *)
(* deadline and up to a ceiling, so that neither a child that writes too   *)
(* much, nor one that hangs, nor a grandchild that keeps the pipe open     *)
(* holds the host up.  A unit of time is STDOUT_POLL_SLICE.                *)
(***************************************************************************)
EXTENDS Integers

CONSTANTS
    ProbeTimeout,           \* TIMEOUT, 500 ms
    DrainGrace,             \* STDOUT_DRAIN_GRACE, 50 ms
    ReapGrace,              \* the wait for a killed child, 500 ms
    Ceiling,                \* STDOUT_CAPTURE_CAP
    ScratchBytes,           \* a read takes this much at most
    PipeBytes,              \* what the pipe holds before a writer blocks
    NameEnd,                \* the sink's name, quoted, ends here if at all
    MaxWritten, MaxInterrupts   \* bounds: bytes written, calls interrupted

ASSUME ProbeAssumption ==
    /\ {ProbeTimeout, DrainGrace, ReapGrace, Ceiling, ScratchBytes, PipeBytes} \subseteq Nat \ {0}
    /\ {NameEnd, MaxWritten, MaxInterrupts} \subseteq Nat

Slice == 1

VARIABLES
    elapsed,                \* since the child was spawned
    child,                  \* the child, "asleep" where no signal reaches it
    holders,                \* who holds the write end of the pipe
    killed,
    written, pipe,          \* bytes written so far, bytes not yet read
    keptBytes, truncated, eof,       \* StdoutCapture
    probe,                  \* step of the probe, and until when
    sink,                   \* the answer
    interrupts

childVars == <<child, holders, written>>
captureVars == <<keptBytes, truncated, eof>>
probeVars == <<elapsed, childVars, killed, pipe, captureVars, probe, sink, interrupts>>

Smaller(a, b) == IF a < b THEN a ELSE b

ProbeInit ==
    /\ elapsed = 0 /\ child = "unborn" /\ holders = {} /\ killed = FALSE
    /\ written = 0 /\ pipe = 0
    /\ keptBytes = 0 /\ truncated = FALSE /\ eof = FALSE
    /\ probe = [step |-> "spawn", until |-> 0] /\ sink = "unknown" /\ interrupts = 0

-----------------------------------------------------------------------------
(* The child and what it may leave behind.                                 *)

CanWrite(p) == p = "child" => (child = "running" /\ ~killed)

WriteByte(p) ==
    /\ p \in holders /\ CanWrite(p)
    /\ written < MaxWritten /\ pipe < PipeBytes
    /\ written' = written + 1 /\ pipe' = pipe + 1
    /\ UNCHANGED <<elapsed, child, holders, killed, captureVars, probe, sink, interrupts>>

(* A child blocked on a full pipe does not come to its exit; a killed one  *)
(* does, unless it sleeps where no signal reaches it.                      *)
ChildExits ==
    /\ child = "running"
    /\ child' = "exited"
    /\ holders' = holders \ {"child"}
    /\ UNCHANGED <<elapsed, killed, written, pipe, captureVars, probe, sink, interrupts>>

ChildSleeps ==
    /\ child = "running" /\ child' = "asleep"
    /\ UNCHANGED <<elapsed, holders, killed, written, pipe, captureVars, probe, sink, interrupts>>

ChildWakes ==
    /\ child = "asleep" /\ child' = "running"
    /\ UNCHANGED <<elapsed, holders, killed, written, pipe, captureVars, probe, sink, interrupts>>

GrandchildCloses ==
    /\ holders' = holders \ {"grandchild"} /\ holders' # holders
    /\ UNCHANGED <<elapsed, child, killed, written, pipe, captureVars, probe, sink, interrupts>>

ChildStep ==
    \/ \E p \in {"child", "grandchild"} : WriteByte(p)
    \/ ChildExits \/ ChildSleeps \/ ChildWakes \/ GrandchildCloses

(* Time passes only where the probe polls or sleeps, and never beyond what *)
(* it waits for.                                                           *)
PassTime ==
    /\ probe.step \in {"absorb", "drain", "sleep", "reap"} /\ elapsed < probe.until
    /\ elapsed' = elapsed + 1
    /\ UNCHANGED <<childVars, killed, pipe, captureVars, probe, sink, interrupts>>

-----------------------------------------------------------------------------
(* The probe                                                               *)

Await(step, until) == probe' = [step |-> step, until |-> until]
Conclude(answer) == probe' = [probe EXCEPT !.step = "done"] /\ sink' = answer

Spawn ==
    /\ probe.step = "spawn"
    /\ \/ /\ Conclude("none")
          /\ UNCHANGED <<child, holders>>
       \/ /\ Await("wait", 0)
          /\ child' = "running"
          /\ holders' \in {{"child"}, {"child", "grandchild"}}
          /\ UNCHANGED sink
    /\ UNCHANGED <<elapsed, killed, written, pipe, captureVars, interrupts>>

(* The status comes first, so that a child which exits at the last moment  *)
(* is heard.                                                               *)
ChildIsReaped ==
    /\ probe.step = "wait" /\ child = "exited"
    /\ child' = "reaped"
    /\ IF eof THEN Await("parse", elapsed) ELSE Await("drain", elapsed + DrainGrace)
    /\ UNCHANGED <<elapsed, holders, killed, written, pipe, captureVars, sink, interrupts>>

KillAtDeadline ==
    /\ probe.step = "wait" /\ child # "exited" /\ elapsed >= ProbeTimeout
    /\ killed' = TRUE
    /\ Await("reap", elapsed + ReapGrace)
    /\ UNCHANGED <<elapsed, childVars, pipe, captureVars, sink, interrupts>>

ListenOn ==
    /\ probe.step = "wait" /\ child # "exited" /\ elapsed < ProbeTimeout
    /\ Await("absorb", Smaller(ProbeTimeout, elapsed + Slice))
    /\ UNCHANGED <<elapsed, childVars, killed, pipe, captureVars, sink, interrupts>>

QueryFails ==
    /\ probe.step = "wait"
    /\ Conclude("none")
    /\ UNCHANGED <<elapsed, childVars, killed, pipe, captureVars, interrupts>>

Reap ==
    /\ probe.step = "reap"
    /\ \/ child = "exited" /\ child' = "reaped"
       \/ child # "exited" /\ elapsed >= probe.until /\ UNCHANGED child
    /\ Conclude("none")
    /\ UNCHANGED <<elapsed, holders, killed, written, pipe, captureVars, interrupts>>

(* StdoutCapture::absorb, for a slice or for the tail                      *)
Absorbing == probe.step \in {"absorb", "drain"} /\ ~eof

Taken(n) == Smaller(n, Ceiling - keptBytes)

ReadChunk ==
    /\ Absorbing /\ elapsed < probe.until /\ pipe > 0
    /\ LET n == Smaller(pipe, ScratchBytes)
       IN  /\ pipe' = pipe - n
           /\ keptBytes' = keptBytes + Taken(n)
           /\ truncated' = (truncated \/ Taken(n) < n)
    /\ UNCHANGED <<elapsed, childVars, killed, eof, probe, sink, interrupts>>

SeeEnd ==
    /\ Absorbing /\ elapsed < probe.until /\ pipe = 0 /\ holders = {}
    /\ eof' = TRUE
    /\ UNCHANGED <<elapsed, childVars, killed, pipe, keptBytes, truncated, probe, sink, interrupts>>

ReadFails ==
    /\ Absorbing /\ elapsed < probe.until
    /\ eof' = TRUE /\ truncated' = TRUE
    /\ UNCHANGED <<elapsed, childVars, killed, pipe, keptBytes, probe, sink, interrupts>>

CutShort == ~eof
AbsorbEnds ==
    /\ CASE probe.step = "drain" -> Await("parse", elapsed)
         [] probe.step = "absorb" /\ eof -> Await("sleep", elapsed + Slice)
         [] probe.step = "absorb" /\ ~eof -> Await("wait", elapsed)
    /\ truncated' = (truncated \/ (probe.step = "drain" /\ CutShort))
    /\ UNCHANGED <<elapsed, childVars, killed, pipe, keptBytes, eof, sink>>

AbsorbUntil ==
    /\ probe.step \in {"absorb", "drain"} /\ (eof \/ elapsed >= probe.until)
    /\ AbsorbEnds
    /\ UNCHANGED interrupts

(* An interrupted poll ends the slice, and the whole drain.                *)
PollInterrupted ==
    /\ Absorbing /\ interrupts < MaxInterrupts
    /\ interrupts' = interrupts + 1
    /\ AbsorbEnds

SleepEnds ==
    /\ probe.step = "sleep" /\ elapsed >= probe.until
    /\ Await("wait", elapsed)
    /\ UNCHANGED <<elapsed, childVars, killed, pipe, captureVars, sink, interrupts>>

(* The child may have answered anything, the host's own node included; a   *)
(* name of which the end was not captured is none.                         *)
ParseSinkName ==
    /\ probe.step = "parse"
    /\ \/ Conclude("none")
       \/ keptBytes >= NameEnd /\ Conclude("name")
    /\ UNCHANGED <<elapsed, childVars, killed, pipe, captureVars, interrupts>>

ProbeStep ==
    \/ Spawn \/ ChildIsReaped \/ KillAtDeadline \/ ListenOn \/ QueryFails \/ Reap
    \/ ReadChunk \/ SeeEnd \/ ReadFails \/ AbsorbUntil \/ PollInterrupted
    \/ SleepEnds \/ ParseSinkName

ProbeNext == ChildStep \/ PassTime \/ ProbeStep

(* The main thread runs and time passes; nothing is asked of the child.    *)
ProbeFairness == WF_probeVars(PassTime) /\ WF_probeVars(ProbeStep)
ProbeSpec == ProbeInit /\ [][ProbeNext]_probeVars /\ ProbeFairness

-----------------------------------------------------------------------------
(* Properties                                                              *)

ProbeTypeOK ==
    /\ child \in {"unborn", "running", "asleep", "exited", "reaped"}
    /\ holders \subseteq {"child", "grandchild"}
    /\ pipe \in 0 .. PipeBytes /\ written \in 0 .. MaxWritten /\ keptBytes \in 0 .. Ceiling
    /\ {killed, truncated, eof} \subseteq BOOLEAN
    /\ probe.step \in {"spawn", "wait", "absorb", "drain", "sleep", "reap", "parse", "done"}
    /\ sink \in {"unknown", "none", "name"}

(* Whatever the child does, writes or leaves behind, start-up is held up   *)
(* for the deadline, one sleep and the longer of the two graces at most.   *)
ProbeIsBounded ==
    elapsed <= ProbeTimeout + Slice + (IF ReapGrace < DrainGrace THEN DrainGrace ELSE ReapGrace)

(* Output that is not captured whole is parsed as truncated: beyond the    *)
(* ceiling, cut by the grace, or lost to a failed read.                    *)
NothingCutSilently == (probe.step = "parse" /\ ~truncated) => keptBytes = written

(* The probe answers.                                                      *)
ProbeAnswers == (probe.step = "wait") ~> (probe.step = "done")
=============================================================================
