----------------------------- MODULE WavSegments -----------------------------
(***************************************************************************)
(* The files of a capture: one WAV segment after the other, each a header  *)
(* and the samples behind it.  The disk worker opens a segment for a       *)
(* metadata, writes blocks into it, rewrites and syncs its header at every *)
(* checkpoint and at the end, and goes on in a new segment before the      *)
(* 32-bit sizes of the header overflow.  Any operation of the file system  *)
(* may fail, a write may be short, the process may be killed and the       *)
(* machine may lose power at any step.                                     *)
(*                                                                         *)
(* Samples are counted in units and numbered in the order in which the     *)
(* transport hands them over; what the transport does before that is       *)
(* RecordingTransport.  A file that was never synced may be gone after a   *)
(* power loss; one that was keeps its name, the header of its last sync or *)
(* a later one, and the samples of that sync.                              *)
(***************************************************************************)
EXTENDS Naturals, SequencesExt, Functions, FiniteSetsExt

CONSTANTS
    Rates,              \* sample rates of a metadata
    Times,              \* timestamps the clock may show
    BlockSizes,         \* units of a block
    Window,             \* units between two checkpoints
    MaxField,           \* largest value of a header's size field, u32::MAX
    Overhead,           \* bytes of the header the size field counts
    MaxUnits,           \* bound: units of the take
    MaxParts            \* bound: metadata and rollovers of a session

ASSUME SizesAssumption ==
    /\ Window \in Nat \ {0} /\ MaxField \in Nat /\ Overhead \in Nat
    /\ BlockSizes # {} /\ \A n \in BlockSizes : n \in 1 .. MaxField - Overhead
ASSUME BoundsAssumption == MaxUnits \in Nat /\ MaxParts \in Nat

VARIABLES
    files,      \* directory: name -> segment
    writer,     \* the open segment's writer
    part,       \* part_counter
    summary,    \* CaptureSummary: name, rate and units of each segment
    pc,         \* step of the disk worker
    meta,       \* metadata a segment is being opened for
    block,      \* units of the block in hand that are not yet written
    stopping,   \* the stop token was taken
    taken,      \* units handed to the worker so far
    owed,       \* history: name -> units the worker accounted to a segment
    dropped     \* history: units of this session dropped for want of a segment

fileVars == <<files, owed>>
segmentVars == <<fileVars, writer, part, summary, meta, block, stopping, taken, dropped>>
wavVars == <<pc, segmentVars>>

NoWriter == [name |-> <<>>, rate |-> 0, bytes |-> 0, offset |-> 0, since |-> 0]
NoHeader == MaxField + 1
MaxBlock == Max(BlockSizes)

SegmentsInit ==
    /\ files = <<>> /\ owed = <<>>
    /\ writer = NoWriter /\ part = 0 /\ summary = <<>>
    /\ meta = 0 /\ block = <<>> /\ stopping = FALSE /\ taken = 0 /\ dropped = 0

-----------------------------------------------------------------------------
(* The file system.                                                        *)

(* A positioned write replaces what is there and extends the file.         *)
WriteAt(data, offset, units) ==
    [i \in 1 .. Max({Len(data), offset + Len(units)}) |->
        IF i \in offset + 1 .. offset + Len(units) THEN units[i - offset]
        ELSE IF i <= Len(data) THEN data[i] ELSE 0]

(* headers: every header the disk may show now; safe: what a sync wrote.   *)
EmptyFile == [data |-> <<>>, header |-> NoHeader, headers |-> {},
              safe |-> [header |-> NoHeader, len |-> 0], named |-> FALSE]

WithHeader(f, h) == [f EXCEPT !.header = h, !.headers = @ \cup {h}]
Synced(f) == [f EXCEPT !.headers = {f.header}, !.named = TRUE,
                       !.safe = [header |-> f.header, len |-> Len(f.data)]]

(* What a power loss may leave of a file: unsynced samples or zeros.       *)
Torn(f, h, n, kept) ==
    [f EXCEPT !.header = h, !.headers = {h},
              !.data = [i \in 1 .. n |-> IF i \in kept THEN f.data[i] ELSE 0]]
KeptSets(f) == {1 .. f.safe.len \cup k : k \in SUBSET (f.safe.len + 1 .. Len(f.data))}
Remains(f) ==
    {Torn(f, h, n, kept) : h \in f.headers \cup {f.safe.header},
                           n \in f.safe.len .. Len(f.data), kept \in KeptSets(f)}

-----------------------------------------------------------------------------
(* One operation of the worker after the other.                            *)

(* The RIFF size field counts the header without its first eight bytes.    *)
FitsHeader(bytes) == bytes + Overhead <= MaxField
OverflowTooLate(n) == writer.bytes + n > MaxField
WouldOverflow(n) == ~FitsHeader(writer.bytes + n)

Current == writer.name
Open == writer # NoWriter

(* A metadata opens a segment once the previous one is finalized.          *)
TakeMetadata(r) ==
    /\ pc = "ready" /\ ~stopping /\ part < MaxParts
    /\ meta' = r
    /\ pc' = IF Open THEN "finalize" ELSE "create"
    /\ UNCHANGED <<files, owed, writer, part, summary, block, stopping, taken, dropped>>

(* Without an open segment the block is released unwritten, and the worker *)
(* goes on as after any other block.                                       *)
TakeBlock(n) ==
    /\ pc = "ready" /\ ~stopping /\ taken + n <= MaxUnits
    /\ taken' = taken + n
    /\ \/ /\ Open
          /\ block' = [i \in 1 .. n |-> taken + i]
          /\ meta' = writer.rate
          /\ pc' = IF WouldOverflow(n) THEN "finalize" ELSE "data"
          /\ UNCHANGED dropped
       \/ /\ ~Open
          /\ dropped' = dropped + n
          /\ UNCHANGED <<pc, meta, block>>
    /\ UNCHANGED <<files, owed, writer, part, summary, stopping>>

TakeStop ==
    /\ pc = "ready" /\ ~stopping
    /\ stopping' = TRUE
    /\ pc' = IF Open THEN "finalize" ELSE "stopped"
    /\ UNCHANGED <<files, owed, writer, part, summary, meta, block, taken, dropped>>

(* Exclusive creation: the first suffix that no file has.                  *)
FirstName(t, p) == <<t, p, 0>>
FreeName(t, p) ==
    <<t, p, CHOOSE s \in 0 .. Cardinality(DOMAIN files) :
        <<t, p, s>> \notin DOMAIN files /\ \A q \in 0 .. s - 1 : <<t, p, q>> \in DOMAIN files>>

Extended(f, n, e) == [m \in DOMAIN f \cup {n} |-> IF m = n THEN e ELSE f[m]]

Create(t) ==
    /\ pc = "create"
    /\ part' = part + 1
    /\ LET name == FreeName(t, part') IN
        /\ files' = Extended(files, name, EmptyFile)
        /\ owed' = Extended(owed, name, <<>>)
        /\ writer' = [NoWriter EXCEPT !.name = name, !.rate = meta]
    /\ pc' = "header"
    /\ UNCHANGED <<summary, meta, block, stopping, taken, dropped>>

(* CaptureSummary: the segments in their order, and what each one holds.   *)
PushSegment(name, rate) == Append(summary, [name |-> name, rate |-> rate, units |-> 0])
AddBlock(size) ==
    IF summary = <<>> THEN summary ELSE [summary EXCEPT ![Len(summary)].units = @ + size]

(* The empty header; the segment joins the summary and becomes the live one. *)
OpenSegment ==
    /\ pc = "header"
    /\ files' = [files EXCEPT ![Current] = WithHeader(@, 0)]
    /\ summary' = PushSegment(Current, writer.rate)
    /\ pc' = "space"
    /\ UNCHANGED <<owed, writer, part, meta, block, stopping, taken, dropped>>

(* After the look at the free space, the block that caused a rollover.     *)
SegmentReady ==
    /\ pc = "space"
    /\ pc' = IF block = <<>> THEN "ready" ELSE "data"
    /\ UNCHANGED <<files, owed, writer, part, summary, meta, block, stopping, taken, dropped>>

(* write_all_at: each call persists a non-empty prefix of the rest.        *)
Rest(n) == SubSeq(block, n + 1, Len(block))
SameOffset(n) == writer.offset
NextOffset(n) == writer.offset + n
WriteSome(n) ==
    /\ pc = "data" /\ n < Len(block)
    /\ files' = [files EXCEPT ![Current].data = WriteAt(@, writer.offset, SubSeq(block, 1, n))]
    /\ writer' = [writer EXCEPT !.offset = NextOffset(n)]
    /\ block' = Rest(n)
    /\ UNCHANGED <<owed, part, summary, pc, meta, stopping, taken, dropped>>

(* The last piece of a block: only now is the block accounted.             *)
NeverDue(since) == FALSE
CheckpointDue(since) == since >= Window
WriteRest ==
    /\ pc = "data"
    /\ files' = [files EXCEPT ![Current].data = WriteAt(@, writer.offset, block)]
    /\ LET offset == writer.offset + Len(block)
           size == offset - writer.bytes
           since == writer.since + size
       IN  /\ writer' = [writer EXCEPT !.offset = offset, !.bytes = offset, !.since = since]
           /\ owed' = [owed EXCEPT ![Current] = @ \o [i \in 1 .. size |-> taken - size + i]]
           /\ summary' = AddBlock(size)
           /\ pc' = IF CheckpointDue(since) THEN "checkpoint" ELSE "ready"
    /\ block' = <<>>
    /\ UNCHANGED <<part, meta, stopping, taken, dropped>>

(* rewrite_header_and_sync, shared by the checkpoint and the finalization. *)
RewriteHeader ==
    /\ pc \in {"checkpoint", "finalize"} /\ FitsHeader(writer.bytes)
    /\ files' = [files EXCEPT ![Current] = WithHeader(@, writer.bytes)]
    /\ pc' = IF pc = "checkpoint" THEN "sync checkpoint" ELSE "sync final"
    /\ UNCHANGED <<owed, writer, part, summary, meta, block, stopping, taken, dropped>>

SyncCheckpoint ==
    /\ pc = "sync checkpoint"
    /\ files' = [files EXCEPT ![Current] = Synced(@)]
    /\ writer' = [writer EXCEPT !.since = 0]
    /\ pc' = "ready"
    /\ UNCHANGED <<owed, part, summary, meta, block, stopping, taken, dropped>>

SyncFinal ==
    /\ pc = "sync final"
    /\ files' = [files EXCEPT ![Current] = Synced(@)]
    /\ writer' = NoWriter
    /\ pc' = IF stopping THEN "stopped" ELSE "create"
    /\ UNCHANGED <<owed, part, summary, meta, block, stopping, taken, dropped>>

(* Any of these operations may fail; the partial file is kept.             *)
Failing == {"finalize", "sync final", "create", "header", "data", "checkpoint", "sync checkpoint"}
FailIO ==
    /\ pc \in Failing
    /\ pc' = "failed" /\ block' = <<>>
    /\ UNCHANGED <<files, owed, writer, part, summary, meta, stopping, taken, dropped>>

-----------------------------------------------------------------------------
(* A power loss takes from the segment the worker was at what was never    *)
(* synced; a segment that never was may be gone as a whole.                *)
FilesLost ==
    \/ /\ ~Open
       /\ UNCHANGED fileVars
    \/ /\ Open
       /\ \E f \in Remains(files[Current]) : files' = [files EXCEPT ![Current] = f]
       /\ UNCHANGED owed
    \/ /\ Open /\ ~files[Current].named
       /\ files' = Restrict(files, DOMAIN files \ {Current})
       /\ owed' = Restrict(owed, DOMAIN owed \ {Current})

(* A new process finds the files as the disk has them.                     *)
FilesFound ==
    /\ files' = [n \in DOMAIN files |-> Synced(files[n])]
    /\ owed' = [n \in DOMAIN files |-> files[n].data]
    /\ writer' = NoWriter /\ part' = 0 /\ summary' = <<>>
    /\ meta' = 0 /\ block' = <<>> /\ stopping' = FALSE /\ dropped' = 0
    /\ UNCHANGED taken
=============================================================================
