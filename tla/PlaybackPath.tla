---------------------------- MODULE PlaybackPath -----------------------------
(***************************************************************************)
(* From the capture callback to the buffers of the playback callback.  The *)
(* two meet in the bridge, two buffers of which the reader captures one to *)
(* copy it later.  Each callback is handed two channels of memory by the   *)
(* host, described by address, size and a chunk, and checks both before it *)
(* touches them; what it hands back is stamped with the window to play.    *)
(* Memory is counted in bytes, a sample being FrameBytes of them.          *)
(***************************************************************************)
EXTENDS Integers

CONSTANTS
    FrameBytes,                 \* size and alignment of a sample
    MaxFrames,                  \* MAX_BRIDGE_BUF
    Channels,                   \* what the host may hand over for a channel
    Quantums,                   \* quanta that silence is cut to
    MaxBlocks, MaxPlayed        \* bounds: blocks captured, callbacks

ASSUME PlaybackAssumption ==
    /\ {FrameBytes, MaxFrames} \subseteq Nat \ {0} /\ Quantums \subseteq Nat \ {0}
    /\ \A c \in Channels : /\ {c.at, c.max, c.offset, c.size} \subseteq Nat
                           /\ c.chunk \in {"valid", "absent", "malformed"}
    /\ MaxBlocks \in Nat /\ MaxPlayed \in Nat

VARIABLES
    bridgeBuffers,              \* buffers: generation and frames of the block
    frontIndex, bridgeGen,      \* active_read_idx and generation
    consumedGen, bridgeDropped, \* consumed_gen and dropped_frames
    writing,                    \* the capture callback is in write_block
    captured,                   \* what it works on: the channels it accepted
    muted,                      \* "no", or why: "paused" streams, a "format"
    player, lastGen,            \* step of the playback callback, last_bridge_gen
    source,                     \* the block it captured
    handed,                     \* the channels it dequeued
    sound,                      \* what is in each of them, by byte
    playWindow,                 \* the bytes of each that the host will play
    copied,                     \* generations copied to the left and right
    played,                     \* history: generations delivered, and
    turns                       \* callbacks begun

bridgeVars == <<bridgeBuffers, frontIndex, bridgeGen, bridgeDropped, writing, captured>>
playVars == <<player, lastGen, source, consumedGen, handed, sound, playWindow, copied, played, turns>>
pathVars == <<bridgeVars, playVars, muted>>

NoBlock == [gen |-> 0, frames |-> 0]
NoPair == <<>>
Sides == {1, 2}
Mutes == {"no", "paused", "format"}

(* An instance begins behind prime_silence: one block, of silence.         *)
PathInit ==
    /\ bridgeBuffers = [i \in {0, 1} |-> IF i = 1 THEN [gen |-> 1, frames |-> 1] ELSE NoBlock]
    /\ frontIndex = 1 /\ bridgeGen = 1 /\ consumedGen = 0 /\ bridgeDropped = 0
    /\ writing = FALSE /\ captured = NoPair /\ muted = "no"
    /\ player = "idle" /\ lastGen = 0 /\ source = NoBlock /\ handed = NoPair
    /\ sound = NoPair /\ playWindow = NoPair /\ copied = {} /\ played = 0 /\ turns = 0

-----------------------------------------------------------------------------
(* check_spa_buffer_pair and what leads to it: intervals, no sets of bytes *)

Aligned(n) == n % FrameBytes = 0
Capacity == MaxFrames * FrameBytes
Least(a, b) == IF a < b THEN a ELSE b

ChannelFits(c, offset, size) ==
    /\ Aligned(c.at) /\ Aligned(offset) /\ Aligned(size)
    /\ offset + size <= Least(c.max, Capacity)
    /\ size \div FrameBytes <= MaxFrames

Overlap(l, r, n) == l < r + n /\ r < l + n

PairAccepted(pair, window) ==
    LET l == pair[1]  r == pair[2]
        lw == window[1]  rw == window[2]
    IN  /\ l.at # 0 /\ r.at # 0
        /\ l.chunk # "absent" /\ r.chunk # "absent"
        /\ ChannelFits(l, lw.offset, lw.size) /\ ChannelFits(r, rw.offset, rw.size)
        /\ lw.size = rw.size
        /\ ~Overlap(l.at + lw.offset, r.at + rw.offset, lw.size)

WindowAt(offset, size) == [offset |-> offset, size |-> size]

(* try_zero_region: bytes cleared of a region, none if it is malformed.    *)
Clearable(c) ==
    LET n == Least(c.max, Capacity)
    IN  IF c.at = 0 \/ ~Aligned(c.at) \/ ~Aligned(n) THEN 0 ELSE n

-----------------------------------------------------------------------------
(* The capture callback                                                    *)

(* resolve_capture_chunk_window: a window of its own for a valid chunk, an *)
(* empty one if there is none; a malformed chunk fails the pair.           *)
CaptureWindow(c) == IF c.chunk = "valid" THEN WindowAt(c.offset, c.size) ELSE WindowAt(0, 0)

CaptureAccepts(pair) ==
    /\ \A s \in Sides : pair[s].chunk # "malformed"
    /\ PairAccepted(pair, [s \in Sides |-> CaptureWindow(pair[s])])

(* A pair or a format that is not accepted and an empty window publish no  *)
(* block; a block that meets an unread one is dropped and counted.         *)
BeforeConsumed == FALSE
ReaderBehind == bridgeGen > consumedGen

BeginCapture ==
    /\ ~writing /\ muted # "format" /\ bridgeGen + bridgeDropped < MaxBlocks
    /\ \E l, r \in Channels :
           /\ CaptureAccepts(<<l, r>>) /\ CaptureWindow(l).size > 0
           /\ IF ReaderBehind
              THEN bridgeDropped' = bridgeDropped + 1
                   /\ UNCHANGED <<bridgeBuffers, writing, captured>>
              ELSE /\ writing' = TRUE /\ captured' = <<l, r>>
                   /\ bridgeBuffers' = [bridgeBuffers EXCEPT ![1 - frontIndex] = NoBlock]
                   /\ UNCHANGED bridgeDropped
    /\ UNCHANGED <<frontIndex, bridgeGen, playVars, muted>>

PublishBlock ==
    /\ writing
    /\ bridgeBuffers' = [bridgeBuffers EXCEPT ![1 - frontIndex] =
           [gen |-> bridgeGen + 1, frames |-> CaptureWindow(captured[1]).size \div FrameBytes]]
    /\ frontIndex' = 1 - frontIndex
    /\ bridgeGen' = bridgeGen + 1
    /\ writing' = FALSE /\ captured' = NoPair
    /\ UNCHANGED <<bridgeDropped, playVars, muted>>

(* The listeners of the streams: a stream pauses or resumes, a format is   *)
(* refused or accepted again. A pause silences the playback only.          *)
SetMute ==
    /\ muted' \in Mutes \ {muted}
    /\ UNCHANGED <<bridgeVars, playVars>>

-----------------------------------------------------------------------------
(* playback_dsp_cycle                                                      *)

(* read_block: the newest block unless it was read before.  Only its place *)
(* is kept; the reader gives it back to the writer right here.             *)
ReadNewer == bridgeGen # lastGen

ReadBridge ==
    /\ player = "idle" /\ turns < MaxPlayed
    /\ turns' = turns + 1
    /\ copied' = {}
    /\ IF muted = "no" /\ ReadNewer
       THEN /\ source' = [gen |-> bridgeGen, frames |-> bridgeBuffers[frontIndex].frames,
                          index |-> frontIndex]
            /\ lastGen' = bridgeGen
            /\ consumedGen' = bridgeGen
       ELSE source' = NoBlock /\ UNCHANGED <<lastGen, consumedGen>>
    /\ handed' = NoPair /\ sound' = NoPair /\ playWindow' = NoPair
    /\ player' = "dequeue"
    /\ UNCHANGED <<played, bridgeVars, muted>>

HasBlock == source # NoBlock

(* Silence is as long as a quantum, as far as both channels hold it.       *)
SilenceBytes(pair, quantum) ==
    Least(Least(quantum * FrameBytes, Capacity), Least(pair[1].max, pair[2].max))

Untouched(c) == [b \in 0 .. c.max - 1 |-> "old"]
Cleared(c) == [b \in 0 .. c.max - 1 |-> IF b < Clearable(c) THEN "zero" ELSE "old"]
Filled(c, n, value) == [b \in 0 .. c.max - 1 |-> IF b < n THEN value ELSE "old"]

NoBuffer ==
    /\ player = "dequeue"
    /\ player' = "idle"
    /\ UNCHANGED <<lastGen, source, consumedGen, handed, sound, playWindow, copied, played, turns,
                   bridgeVars, muted>>

(* A buffer of a single channel is cleared and stamped with what was.      *)
DequeueSingle ==
    /\ player = "dequeue"
    /\ \E c \in Channels :
           /\ handed' = <<c>> /\ sound' = <<Cleared(c)>>
           /\ playWindow' = <<IF c.chunk = "absent" THEN 0 ELSE Clearable(c)>>
    /\ player' = "idle"
    /\ UNCHANGED <<lastGen, source, consumedGen, copied, played, turns, bridgeVars, muted>>

(* A pair that is not accepted is cleared, as far as it can be, and both   *)
(* chunks are stamped empty; silence is written at once.                   *)
LeftAsHanded == <<FrameBytes, FrameBytes>>
ReportedWindow == <<0, 0>>

DequeuePair ==
    /\ player = "dequeue"
    /\ \E l, r \in Channels : \E quantum \in Quantums :
       LET pair == <<l, r>>
           n == IF HasBlock THEN source.frames * FrameBytes ELSE SilenceBytes(pair, quantum)
       IN  /\ handed' = pair
           /\ IF ~PairAccepted(pair, [s \in Sides |-> WindowAt(0, n)])
              THEN /\ sound' = [s \in Sides |-> Cleared(pair[s])]
                   /\ playWindow' = ReportedWindow
                   /\ player' = "idle"
              ELSE IF HasBlock
              THEN /\ sound' = [s \in Sides |-> Untouched(pair[s])]
                   /\ playWindow' = <<0, 0>>
                   /\ player' = "left"
              ELSE /\ sound' = [s \in Sides |-> Filled(pair[s], n, "zero")]
                   /\ playWindow' = <<n, n>>
                   /\ player' = "idle"
    /\ UNCHANGED <<lastGen, source, consumedGen, copied, played, turns, bridgeVars, muted>>

(* The copies read what the captured buffer holds by now.                  *)
CopySide(s, step, next) ==
    /\ player = step
    /\ copied' = copied \cup {bridgeBuffers[source.index].gen}
    /\ sound' = [sound EXCEPT ![s] = Filled(handed[s], source.frames * FrameBytes, "audio")]
    /\ player' = next
    /\ UNCHANGED <<lastGen, source, consumedGen, handed, playWindow, played, turns, bridgeVars,
                   muted>>

CopyLeft == CopySide(1, "left", "right")
CopyRight == CopySide(2, "right", "stamp")

StampPair ==
    /\ player = "stamp"
    /\ playWindow' = [s \in Sides |-> source.frames * FrameBytes]
    /\ played' = source.gen
    /\ player' = "idle"
    /\ UNCHANGED <<lastGen, source, consumedGen, handed, sound, copied, turns, bridgeVars, muted>>

PlayCallback ==
    ReadBridge \/ NoBuffer \/ DequeueSingle \/ DequeuePair \/ CopyLeft \/ CopyRight \/ StampPair

PathNext == BeginCapture \/ PublishBlock \/ SetMute \/ PlayCallback
PathSpec == PathInit /\ [][PathNext]_pathVars

-----------------------------------------------------------------------------
(* Properties                                                              *)

PathTypeOK ==
    /\ frontIndex \in {0, 1} /\ consumedGen <= bridgeGen /\ lastGen <= bridgeGen
    /\ player \in {"idle", "dequeue", "left", "right", "stamp"} /\ muted \in Mutes
    /\ bridgeGen - consumedGen <= 1

(* Nobody waits for the reader, yet the block it copies is the one it      *)
(* captured to the end of both channels, and no block is played again.     *)
BlockStaysWhole == [][
    /\ copied' \subseteq {source'.gen}
    /\ (player = "stamp" => source.gen > played)]_pathVars

(* Whatever the host hands over, it never plays a byte that this callback  *)
(* did not write: the window of each channel lies in the channel and holds *)
(* audio or silence from end to end.                                       *)
NothingStalePlayed ==
    player \in {"idle", "stamp"} =>
        \A s \in DOMAIN handed : \A b \in 0 .. playWindow[s] - 1 :
            b \in DOMAIN sound[s] /\ sound[s][b] # "old"

(* The bytes of a channel's window, one by one.                            *)
BytesOf(c, w) == {c.at + w.offset + b : b \in 0 .. w.size - 1}

(* The arithmetic on intervals accepts for capture what is sound byte by   *)
(* byte: windows of whole samples, inside their channels, no byte shared.  *)
CapturedIsSound ==
    captured # NoPair =>
        LET w == [s \in Sides |-> CaptureWindow(captured[s])]
            bytes == [s \in Sides |-> BytesOf(captured[s], w[s])]
        IN  /\ bytes[1] \cap bytes[2] = {}
            /\ \A s \in Sides : \A b \in bytes[s] :
                   captured[s].at <= b /\ b < captured[s].at + captured[s].max
=============================================================================
