------------------------------- MODULE LogRing -------------------------------
(***************************************************************************)
(* PipeWire's own log on its way to the host's log.  An event of a thread  *)
(* is dispatched on the spot, unless the routing is on and the thread is   *)
(* marked as the one that runs the callback: then it is queued in a ring   *)
(* that a daemon thread drains, or dropped and counted.  The data thread   *)
(* of an instance is born unmarked, marks itself in its first quantum and  *)
(* is joined before the next instance begins; every instance polls the     *)
(* count of the dropped events.                                            *)
(***************************************************************************)
EXTENDS Integers, Sequences, FiniteSets

CONSTANTS
    MaxThreads,             \* data threads, one for each instance
    Events,                 \* events each of them logs
    LogCapacity             \* RT_RING_CAPACITY

ASSUME LogAssumption ==
    MaxThreads \in Nat /\ Events \in Nat /\ LogCapacity \in Nat \ {0}

Threads == 1 .. MaxThreads

VARIABLES
    routed,                 \* RING_MODE
    installed, producer,    \* RT_RING_INSTALLED, RT_PRODUCER is set
    draining, replaying,    \* the drainer runs, and the record it holds
    installer,              \* step of install() on the main thread
    instance,               \* the latest instance, and
    stopping,               \* whether its thread was told to end
    dataThread,             \* each thread: step, mark, events begun
    logRing, logDropped,    \* the ring and PW_LOG_DROPPED
    emitted,                \* records in the host's log, in order
    contained,              \* records whose replay panicked
    dropped                 \* history: events that met a full ring

switchVars == <<routed, installed, producer, draining, replaying, installer>>
threadVars == <<instance, stopping, dataThread>>
recordVars == <<logRing, logDropped, emitted, contained, dropped>>
logVars == <<switchVars, threadVars, recordVars>>

Unborn == [step |-> "unborn", marked |-> FALSE, begun |-> 0]

LogInit ==
    /\ routed = FALSE /\ installed = FALSE /\ producer = FALSE
    /\ draining = FALSE /\ replaying = <<>> /\ installer = "fresh"
    /\ instance = 0 /\ stopping = FALSE
    /\ dataThread = [t \in Threads |-> Unborn]
    /\ logRing = <<>> /\ logDropped = 0 /\ emitted = <<>> /\ contained = {} /\ dropped = {}

-----------------------------------------------------------------------------
(* install(), once or, after a restore, again.                             *)

(* NAM_PW_LOG_SYNC keeps the synchronous path.                             *)
InstallRefused ==
    /\ installer = "fresh"
    /\ installer' = "done"
    /\ UNCHANGED <<routed, installed, producer, draining, replaying, threadVars, recordVars>>

Install ==
    /\ installer \in {"fresh", "again"}
    /\ IF installed
       THEN routed' = TRUE /\ installer' = "done" /\ UNCHANGED installed
       ELSE installed' = TRUE /\ installer' = "spawn" /\ UNCHANGED routed
    /\ UNCHANGED <<producer, draining, replaying, threadVars, recordVars>>

SpawnDrainer ==
    /\ installer = "spawn"
    /\ \/ draining' = TRUE /\ installer' = "publish" /\ UNCHANGED <<routed, installed>>
       \/ routed' = FALSE /\ installed' = FALSE /\ installer' = "done" /\ UNCHANGED draining
    /\ UNCHANGED <<producer, replaying, threadVars, recordVars>>

PublishProducer ==
    /\ installer = "publish"
    /\ producer' = TRUE
    /\ installer' = "route"
    /\ UNCHANGED <<routed, installed, draining, replaying, threadVars, recordVars>>

EnableRouting ==
    /\ installer = "route"
    /\ routed' = TRUE
    /\ installer' = "done"
    /\ UNCHANGED <<installed, producer, draining, replaying, threadVars, recordVars>>

InstallStep ==
    InstallRefused \/ Install \/ SpawnDrainer \/ PublishProducer \/ EnableRouting

-----------------------------------------------------------------------------
(* Instances and their data threads.                                       *)

ThreadAt(t, step) == dataThread[t].step = step
SetThread(t, th) == dataThread' = [dataThread EXCEPT ![t] = th]

ThreadUnjoined == TRUE
ThreadJoined == instance \in Threads => ThreadAt(instance, "dead")

(* The main thread has installed the redirection before it runs the host.  *)
(* thread_loop.stop() joins the data thread of the previous instance.      *)
StartInstance ==
    /\ installer = "done" /\ ThreadJoined
    /\ instance + 1 \in Threads
    /\ instance' = instance + 1
    /\ stopping' = FALSE
    /\ SetThread(instance + 1, [Unborn EXCEPT !.step = "idle"])
    /\ UNCHANGED <<switchVars, recordVars>>

StopInstance ==
    /\ instance # 0 /\ ~stopping
    /\ stopping' = TRUE
    /\ UNCHANGED <<switchVars, instance, dataThread, recordVars>>

ThreadEnds(t) ==
    /\ ThreadAt(t, "idle") /\ (stopping \/ t # instance)
    /\ SetThread(t, [dataThread[t] EXCEPT !.step = "dead", !.marked = FALSE])
    /\ UNCHANGED <<switchVars, instance, stopping, recordVars>>

(* The first quantum configures the thread and marks it.                   *)
MarkThread(t) ==
    /\ ThreadAt(t, "idle") /\ ~dataThread[t].marked
    /\ SetThread(t, [dataThread[t] EXCEPT !.marked = TRUE])
    /\ UNCHANGED <<switchVars, instance, stopping, recordVars>>

-----------------------------------------------------------------------------
(* An event: nam_pw_log and try_offload.                                   *)

Record(t) == <<t, dataThread[t].begun>>

BeginEvent(t) ==
    /\ ThreadAt(t, "idle") /\ dataThread[t].begun < Events
    /\ SetThread(t, [dataThread[t] EXCEPT !.begun = @ + 1, !.step = "consult"])
    /\ UNCHANGED <<switchVars, instance, stopping, recordVars>>

(* The routing mode, then the mark, then the producer.                     *)
Consulted(t) == routed /\ dataThread[t].marked /\ producer

ConsultRouting(t) ==
    /\ ThreadAt(t, "consult")
    /\ SetThread(t, [dataThread[t] EXCEPT !.step = IF Consulted(t) THEN "push" ELSE "sync"])
    /\ UNCHANGED <<switchVars, instance, stopping, recordVars>>

DispatchSync(t) ==
    /\ ThreadAt(t, "sync")
    /\ emitted' = Append(emitted, Record(t))
    /\ SetThread(t, [dataThread[t] EXCEPT !.step = "idle"])
    /\ UNCHANGED <<switchVars, instance, stopping, logRing, logDropped, contained, dropped>>

(* The producer writes the slot first and publishes it afterwards.         *)
Reserve(t) ==
    /\ ThreadAt(t, "push")
    /\ SetThread(t, [dataThread[t] EXCEPT
                        !.step = IF Len(logRing) < LogCapacity THEN "commit" ELSE "count"])
    /\ UNCHANGED <<switchVars, instance, stopping, recordVars>>

Commit(t) ==
    /\ ThreadAt(t, "commit")
    /\ logRing' = Append(logRing, Record(t))
    /\ SetThread(t, [dataThread[t] EXCEPT !.step = "idle"])
    /\ UNCHANGED <<switchVars, instance, stopping, logDropped, emitted, contained, dropped>>

CountDrop(t) ==
    /\ ThreadAt(t, "count")
    /\ logDropped' = logDropped + 1
    /\ dropped' = dropped \cup {Record(t)}
    /\ SetThread(t, [dataThread[t] EXCEPT !.step = "idle"])
    /\ UNCHANGED <<switchVars, instance, stopping, logRing, emitted, contained>>

LogEvent(t) ==
    ConsultRouting(t) \/ DispatchSync(t) \/ Reserve(t) \/ Commit(t) \/ CountDrop(t)

-----------------------------------------------------------------------------
(* drain_loop: a record is popped and replayed; a panic costs that record. *)
PopRecord ==
    /\ draining /\ replaying = <<>> /\ logRing # <<>>
    /\ replaying' = <<Head(logRing)>>
    /\ logRing' = Tail(logRing)
    /\ UNCHANGED <<routed, installed, producer, draining, installer, threadVars, logDropped,
                   emitted, contained, dropped>>

EmitRecord ==
    /\ replaying # <<>>
    /\ \/ emitted' = emitted \o replaying /\ UNCHANGED contained
       \/ /\ contained' = contained \cup {Head(replaying)}
          /\ UNCHANGED emitted
    /\ replaying' = <<>>
    /\ UNCHANGED <<routed, installed, producer, draining, installer, threadVars, logRing,
                   logDropped, dropped>>

Drain == PopRecord \/ EmitRecord

(* At the end of the host, behind the last thread, the routing goes off.   *)
RestoreDeactivate ==
    /\ installer = "done" /\ instance # 0 /\ ThreadJoined
    /\ routed' = FALSE
    /\ installer' = "again"
    /\ UNCHANGED <<installed, producer, draining, replaying, threadVars, recordVars>>

LogNext ==
    \/ InstallStep \/ RestoreDeactivate
    \/ StartInstance \/ StopInstance
    \/ \E t \in Threads : MarkThread(t) \/ BeginEvent(t) \/ LogEvent(t) \/ ThreadEnds(t)
    \/ Drain

LogSpec == LogInit /\ [][LogNext]_logVars

-----------------------------------------------------------------------------
(* Properties                                                              *)

Records == {<<t, n>> : t \in Threads, n \in 1 .. Events}
InRing == {logRing[i] : i \in DOMAIN logRing}
Emitted == {emitted[i] : i \in DOMAIN emitted}
Replayed == {replaying[i] : i \in DOMAIN replaying}
Underway == {Record(t) : t \in {u \in Threads : dataThread[u].step \notin
                                                    {"unborn", "idle", "dead"}}}

LogTypeOK ==
    /\ routed \in BOOLEAN /\ installed \in BOOLEAN /\ producer \in BOOLEAN
    /\ routed => installed /\ producer
    /\ Len(logRing) <= LogCapacity
    /\ InRing \cup Emitted \cup contained \cup dropped \subseteq Records

(* The ring has a single producer although nothing but the lives of the    *)
(* threads keeps two apart: never are two threads between the consultation *)
(* and the end of a push.                                                  *)
Pushing == {t \in Threads : dataThread[t].step \in {"push", "commit", "count"}}
SingleProducer == Cardinality(Pushing) <= 1

(* Every event has one fate: the log holds the events of a data thread in  *)
(* the order it raised them, across the change from the synchronous path   *)
(* to the ring; what is missing was dropped and counted, or its replay was *)
(* contained.                                                              *)
EveryEventAccounted ==
    /\ \A i, j \in DOMAIN emitted :
           i < j /\ emitted[i][1] = emitted[j][1] => emitted[i][2] < emitted[j][2]
    /\ \A t \in Threads : \A n \in 1 .. dataThread[t].begun :
           <<t, n>> \in InRing \cup Emitted \cup Replayed \cup contained \cup dropped
                            \cup Underway
    /\ logDropped = Cardinality(dropped)
=============================================================================
