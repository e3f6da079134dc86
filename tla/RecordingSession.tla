--------------------------- MODULE RecordingSession ---------------------------
(***************************************************************************)
(* A recording from start to exit: the main thread spawns the disk worker, *)
(* waits for its handshake, runs the host, watches the worker's status and *)
(* turns how the worker ended into the exit code.  The worker proves the   *)
(* directory usable, publishes its status, and writes the segments of      *)
(* WavSegments.                                                            *)
(*                                                                         *)
(* The process may be killed and the machine may lose power at any step; a *)
(* new session then finds the directory as it was left.  The disk may be   *)
(* slow without bound: nothing is assumed of the worker's progress.        *)
(***************************************************************************)
EXTENDS WavSegments

CONSTANT MaxSessions    \* bound: processes, one after the other
ASSUME SessionsAssumption == MaxSessions \in Nat

VARIABLES
    main,       \* step of the main thread
    verdict,    \* the handshake channel: none, ok, err, gone
    status,     \* RecordingStatus: its kind, segment and warning
    failedFlag, \* what the real-time callback polls
    alert,      \* the condition RecordingAlert is reporting
    backend,    \* what run_pipewire_host returns: ok, err
    stop,       \* StreamStop was pushed, or the sender dropped
    outcome,    \* RecordingWorkerOutcome
    exit,       \* exit code of the process
    session, from   \* process number; first unit of its take

workerVars == <<status, failedFlag, verdict>>
mainVars == <<main, alert, backend, stop, outcome, exit>>
historyVars == <<session, from>>
vars == <<wavVars, workerVars, mainVars, historyVars>>

Status(kind, path, warning) == [kind |-> kind, path |-> path, warning |-> warning]
Starting == Status("starting", <<>>, FALSE)

FreshProcess ==
    /\ main = "setup" /\ pc = "none"
    /\ verdict = "none" /\ status = Starting /\ failedFlag = FALSE
    /\ alert = "none" /\ backend = "ok" /\ stop = FALSE
    /\ outcome = "none" /\ exit = -1

Init == SegmentsInit /\ FreshProcess /\ session = 1 /\ from = 0

-----------------------------------------------------------------------------
(* The worker: its startup.                                                *)

(* The io_uring probe, then validate_output_dir with its probe file.       *)
ProbeIoUring ==
    /\ pc = "spawned" /\ pc' \in {"validate", "failed"}
    /\ UNCHANGED <<segmentVars, workerVars, mainVars, historyVars>>

ValidateOutputDir ==
    /\ pc = "validate" /\ pc' \in {"handshake", "failed"}
    /\ UNCHANGED <<segmentVars, workerVars, mainVars, historyVars>>

(* tokio_uring::start panics if it cannot set its ring up, which the probe *)
(* of two entries does not rule out: the sender is dropped with the thread.*)
RuntimePanics ==
    /\ pc = "validate" /\ pc' = "panicked" /\ verdict' = "gone"
    /\ UNCHANGED <<segmentVars, status, failedFlag, mainVars, historyVars>>

(* The handshake is sent before the status says so.                        *)
SendHandshake ==
    /\ pc = "handshake" /\ pc' = "mark"
    /\ verdict' = "ok"
    /\ UNCHANGED <<segmentVars, status, failedFlag, mainVars, historyVars>>

MarkActive ==
    /\ pc = "mark" /\ pc' = "ready"
    /\ status' = Status("active", <<>>, FALSE)
    /\ UNCHANGED <<segmentVars, failedFlag, verdict, mainVars, historyVars>>

-----------------------------------------------------------------------------
(* The worker: its segments, with what it publishes about them.            *)

Quiet == UNCHANGED <<workerVars, mainVars, historyVars>>

(* The callback sends nothing before the host runs, and no block before    *)
(* its metadata.  Once the sender is gone the worker may throw a metadata  *)
(* away and still find the blocks behind it (RecordingTransport, orphaned):*)
(* only then does a block come without a segment.                          *)
Streamed == main \in {"live", "teardown", "joining", "ending"}
Receive ==
    /\ Streamed
    /\ \/ \E r \in Rates : TakeMetadata(r)
       \/ (Open \/ stop) /\ \E n \in BlockSizes : TakeBlock(n)
    /\ Quiet

Segment ==
    /\ \/ \E t \in Times : Create(t)
       \/ WriteRest
       \/ \E n \in 1 .. MaxBlock : WriteSome(n)
       \/ RewriteHeader \/ SyncCheckpoint \/ SyncFinal \/ FailIO
    /\ Quiet

(* The token, or both producers gone and both rings drained.               *)
StopSeen == stop /\ TakeStop /\ Quiet

(* A new segment has no warning until the free space is looked at.         *)
OpenNext ==
    /\ OpenSegment
    /\ status' = Status("active", Current, FALSE)
    /\ UNCHANGED <<failedFlag, verdict, mainVars, historyVars>>

(* publish_space_status: a probe that fails publishes no warning.          *)
PublishSpace ==
    /\ SegmentReady
    /\ \E low \in BOOLEAN : status' = [status EXCEPT !.warning = low]
    /\ UNCHANGED <<failedFlag, verdict, mainVars, historyVars>>

(* maybe_check_space, when idle: a probe that fails changes nothing.       *)
CheckSpace ==
    /\ pc = "ready" /\ Open
    /\ \E low \in BOOLEAN : status' = [status EXCEPT !.warning = low]
    /\ UNCHANGED <<wavVars, failedFlag, verdict, mainVars, historyVars>>

-----------------------------------------------------------------------------
(* The worker: its end.  record_failure sets the status and then the flag; *)
(* a failed startup is then reported on the handshake.                     *)

PublishStopped ==
    /\ pc = "stopped" /\ pc' = "done"
    /\ status' = Status("stopped", <<>>, FALSE)
    /\ UNCHANGED <<segmentVars, failedFlag, verdict, mainVars, historyVars>>

RecordFailure ==
    /\ pc = "failed" /\ pc' = "raise"
    /\ status' = Status("failed", <<>>, FALSE)
    /\ UNCHANGED <<segmentVars, failedFlag, verdict, mainVars, historyVars>>

RaiseFlag ==
    /\ pc = "raise" /\ pc' = "error"
    /\ failedFlag' = TRUE
    /\ verdict' = IF verdict = "none" THEN "err" ELSE verdict
    /\ UNCHANGED <<segmentVars, status, mainVars, historyVars>>

WorkerStep ==
    \/ ProbeIoUring \/ ValidateOutputDir \/ RuntimePanics \/ SendHandshake \/ MarkActive
    \/ Receive \/ Segment \/ StopSeen \/ OpenNext \/ PublishSpace \/ CheckSpace
    \/ PublishStopped \/ RecordFailure \/ RaiseFlag

-----------------------------------------------------------------------------
(* The main thread.                                                        *)

Exits(code) == main' = "exited" /\ exit' = code

(* process::exit ends the worker wherever it is.                           *)
WorkerEnds == pc' = IF pc = "none" THEN "none" ELSE "off"
RestOfWorker == UNCHANGED <<segmentVars, workerVars>>

(* Before the recording: logging, CPU receipt, model, cab-sim IR.  Every   *)
(* failure has the exit code of its class (ExitKind).                      *)
SetupFailures == {3, 4, 5}
Configure ==
    /\ main = "setup"
    /\ \/ /\ main' = "record" /\ UNCHANGED <<exit, pc>>
       \/ /\ \E code \in SetupFailures : Exits(code)
          /\ WorkerEnds
    /\ RestOfWorker
    /\ UNCHANGED <<alert, backend, stop, outcome, historyVars>>

(* create_dir_all, then spawn_recording_worker; both may fail.             *)
Spawn ==
    /\ main = "record"
    /\ main' = "waiting" /\ pc' = "spawned"
    /\ UNCHANGED exit
    /\ RestOfWorker
    /\ UNCHANGED <<alert, backend, stop, outcome, historyVars>>

SpawnFails ==
    /\ main = "record"
    /\ Exits(6) /\ WorkerEnds /\ RestOfWorker
    /\ UNCHANGED <<alert, backend, stop, outcome, historyVars>>

WorkerReady ==
    /\ main = "waiting" /\ verdict = "ok"
    /\ main' = "live"
    /\ UNCHANGED <<wavVars, workerVars, alert, backend, stop, outcome, exit, historyVars>>

(* Failed, WorkerGone, or Timeout after ten seconds without a verdict.     *)
WorkerNotReady ==
    /\ main = "waiting" /\ verdict # "ok"
    /\ Exits(6) /\ WorkerEnds /\ RestOfWorker
    /\ UNCHANGED <<alert, backend, stop, outcome, historyVars>>

(* RecordingAlert::poll: what the status says now, and nothing while the   *)
(* worker holds the lock.                                                  *)
FirstCondition ==
    IF alert # "none" THEN alert
    ELSE IF status.kind = "failed" THEN "failure" ELSE IF status.warning THEN "low" ELSE "none"
Condition ==
    IF status.kind = "failed" THEN "failure"
    ELSE IF status.warning THEN "low" ELSE "none"

Poll ==
    /\ main = "live"
    /\ alert' = Condition
    /\ UNCHANGED <<wavVars, workerVars, main, backend, stop, outcome, exit, historyVars>>

(* A signal ends the host, or the backend is lost for good, or an early    *)
(* return drops the guard: all of them tear the recording down.            *)
EndHost ==
    /\ main = "live" /\ main' = "teardown"
    /\ backend' \in {"ok", "err"}
    /\ UNCHANGED <<wavVars, workerVars, alert, stop, outcome, exit, historyVars>>

(* StreamStop unless the failure was seen, then the sender is dropped.     *)
Stop ==
    /\ main = "teardown" /\ main' = "joining"
    /\ stop' = TRUE
    /\ UNCHANGED <<wavVars, workerVars, alert, backend, outcome, exit, historyVars>>

(* join_recording_io: the worker's Result, or nothing within a minute.     *)
Finished == pc \in {"done", "error"}
Joined == IF pc = "error" THEN "failed" ELSE "success"
DetachedSuccess == "success"
Join ==
    /\ main = "joining" /\ Finished
    /\ main' = "ending" /\ outcome' = Joined
    /\ UNCHANGED <<wavVars, workerVars, alert, backend, stop, exit, historyVars>>

TimeoutOutcome == "timeout"
NoDeadline == FALSE
JoinExpires == ~Finished
JoinTimeout ==
    /\ main = "joining" /\ JoinExpires
    /\ main' = "ending" /\ outcome' = TimeoutOutcome
    /\ UNCHANGED <<wavVars, workerVars, alert, backend, stop, exit, historyVars>>

OldExitCode ==
    IF backend = "err" THEN 5
    ELSE IF outcome = "success" THEN 0 ELSE IF outcome = "failed" THEN 6 ELSE 1
ExitCode ==
    IF backend = "err" THEN 5 ELSE IF outcome = "success" THEN 0 ELSE 6
Exit ==
    /\ main = "ending"
    /\ Exits(ExitCode) /\ WorkerEnds /\ RestOfWorker
    /\ UNCHANGED <<alert, backend, stop, outcome, historyVars>>

MainStep ==
    \/ Configure \/ Spawn \/ SpawnFails \/ WorkerReady \/ WorkerNotReady
    \/ Poll \/ EndHost \/ Stop \/ Join \/ JoinTimeout \/ Exit

-----------------------------------------------------------------------------
(* Faults.                                                                 *)
Alive == main \notin {"exited", "down", "lost"}

(* SIGKILL, the OOM killer, a forced exit: the kernel keeps the files.     *)
Kill ==
    /\ Alive /\ main \notin {"setup", "record"}
    /\ main' = "down" /\ WorkerEnds /\ RestOfWorker
    /\ UNCHANGED <<alert, backend, stop, outcome, exit, historyVars>>

PowerLoss ==
    /\ main \notin {"setup", "record", "lost"}
    /\ main' = "lost" /\ WorkerEnds /\ FilesLost
    /\ UNCHANGED <<writer, part, summary, meta, block, stopping, taken, dropped, workerVars,
                   alert, backend, stop, outcome, exit, historyVars>>

Restart ==
    /\ main \in {"exited", "down", "lost"} /\ session < MaxSessions
    /\ FilesFound
    /\ main' = "setup" /\ pc' = "none"
    /\ verdict' = "none" /\ status' = Starting /\ failedFlag' = FALSE
    /\ alert' = "none" /\ backend' = "ok" /\ stop' = FALSE
    /\ outcome' = "none" /\ exit' = -1
    /\ session' = session + 1 /\ from' = taken

Next == WorkerStep \/ MainStep \/ Kill \/ PowerLoss \/ Restart

(* The main thread is never blocked by the worker: it polls with try_lock, *)
(* waits with a deadline and joins with one.                               *)
Fairness == WF_vars(Poll) /\ WF_vars(Stop \/ Join \/ JoinTimeout \/ Exit)
Spec == Init /\ [][Next]_vars /\ Fairness

-----------------------------------------------------------------------------
(* The variables keep their types.                                         *)
TypeOK ==
    /\ DOMAIN files = DOMAIN owed
    /\ \A n \in DOMAIN files :
        /\ files[n].header \in 0 .. NoHeader /\ files[n].safe.header \in 0 .. NoHeader
        /\ files[n].safe.len \in 0 .. Len(files[n].data)
    /\ part \in 0 .. MaxParts + MaxUnits /\ taken \in 0 .. MaxUnits /\ dropped \in 0 .. taken
    /\ status.kind \in {"starting", "active", "failed", "stopped"}
    /\ failedFlag \in BOOLEAN /\ verdict \in {"none", "ok", "err", "gone"}
    /\ alert \in {"none", "low", "failure"} /\ exit \in {-1, 0, 3, 4, 5, 6}

(* The segments of this session hold the units of the take up to last, one *)
(* after the other and each in its place: between a cut and the next.  The *)
(* first segment starts behind what was dropped for want of one.           *)
Names == [i \in DOMAIN summary |-> summary[i].name]
HeldUpTo(last) ==
    \E cut \in [1 .. Len(summary) + 1 -> from .. last] :
        /\ cut[1] = from + dropped /\ cut[Len(summary) + 1] = last
        /\ \A i \in DOMAIN summary : LET units == owed[summary[i].name] IN
               /\ Len(units) = cut[i + 1] - cut[i]
               /\ \A k \in DOMAIN units : units[k] = cut[i] + k

(* One segment after the other holds the take: from the first segment on,  *)
(* every unit the transport handed over in this session is in one of its   *)
(* files, in order and at its place, across short writes, rollovers and    *)
(* changes of rate; the summary says how many, no header promises more     *)
(* than its file holds, and no segment outgrows the 32 bits of its header. *)
SegmentsHoldTheTake ==
    main # "lost" =>
        /\ \E last \in from .. taken : HeldUpTo(last) /\ (pc = "ready" => last = taken)
        /\ Open => FitsHeader(writer.bytes)
        /\ \A i \in DOMAIN summary : LET n == summary[i].name IN
            /\ IsPrefix(owed[n], files[n].data)
            /\ summary[i].units = Len(owed[n])
            /\ files[n].header <= Len(owed[n])

(* A checkpoint bounds what a crash can take from the recording: the       *)
(* samples of its header are on the disk, and no more than a window and    *)
(* the block in hand are not.                                              *)
CheckpointBoundsLoss ==
    /\ \A n \in Range(Names) \cap DOMAIN files : LET f == files[n] IN
        /\ SubSeq(f.data, 1, f.safe.len) = SubSeq(owed[n], 1, f.safe.len)
        /\ f.safe.header # NoHeader => f.safe.header <= f.safe.len
    /\ Open /\ Current \in DOMAIN files => LET f == files[Current] IN
        /\ Len(owed[Current]) - f.safe.len < Window + MaxBlock
        /\ pc = "ready" => Len(owed[Current]) - f.safe.len < Window

(* An exit code of zero promises that all the session handed over from its *)
(* first segment on is in its files, synced under their final headers, and *)
(* that not even a power loss can take it away: no failure, timeout or     *)
(* kill of the session is reported as success.                             *)
ZeroMeansKept ==
    exit = 0 =>
        /\ HeldUpTo(taken)
        /\ \A i \in DOMAIN summary : LET f == files[summary[i].name] IN
            f.named /\ f.header = Len(f.data) /\ f.data = owed[summary[i].name]

(* What a sync has put on the disk stays there: no later segment, session, *)
(* kill or power loss shortens, overwrites or removes it.                  *)
TakesAreKept ==
    [][\A n \in DOMAIN files : files[n].named =>
        /\ n \in DOMAIN files' /\ files[n].safe.len <= Len(files'[n].data)
        /\ SubSeq(files'[n].data, 1, files[n].safe.len)
            = SubSeq(files[n].data, 1, files[n].safe.len)]_vars

(* A failure while the host plays is reported before the host ends, also   *)
(* after a warning of low space.                                           *)
FailureReachesUser ==
    status.kind = "failed" /\ main = "live" ~> alert = "failure" \/ main # "live"

(* A worker that hangs in the file system cannot keep the process alive.   *)
ShutdownEnds == main = "teardown" ~> main \in {"exited", "down", "lost"}
=============================================================================
