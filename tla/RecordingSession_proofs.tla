------------------------ MODULE RecordingSession_proofs ------------------------
(***************************************************************************)
(* What TLAPS proves of RecordingSession, for every set of rates, clock    *)
(* values and block sizes, every window and header size, and every number  *)
(* of units, segments, crashes and restarts.                               *)
(***************************************************************************)
EXTENDS RecordingSession, WellFoundedInduction, FiniteSetTheorems, SequenceTheorems, TLAPS

(***************************************************************************)
(* The inductive invariant.                                                *)
(***************************************************************************)
FileNames == Times \X Nat \X Nat
Headers == 0 .. NoHeader
Segments == [data : Seq(Nat), header : Headers, headers : SUBSET Headers,
             safe : [header : Headers, len : Nat], named : BOOLEAN]
RateOrNone == Rates \cup {0}
Writers == [name : FileNames \cup {<<>>}, rate : RateOrNone, bytes : Nat, offset : Nat, since : Nat]
Entries == [name : FileNames, rate : RateOrNone, units : Nat]
Statuses == [kind : {"starting", "active", "failed", "stopped"},
             path : FileNames \cup {<<>>}, warning : BOOLEAN]

Startup == {"none", "spawned", "validate", "handshake", "mark"}
Closed == Startup \cup {"panicked", "create", "stopped", "done"}
Opened == {"finalize", "sync final", "header", "space", "data", "checkpoint", "sync checkpoint"}
Carrying == {"finalize", "sync final", "create", "header", "space", "data"}
Broken == {"failed", "raise", "error", "off"}
Steps == Closed \cup Opened \cup Broken \cup {"ready"}
Ended == {"exited", "down", "lost"}

FileTypes ==
    /\ IsFiniteSet(DOMAIN files) /\ DOMAIN owed = DOMAIN files /\ DOMAIN files \subseteq FileNames
    /\ files \in [DOMAIN files -> Segments] /\ owed \in [DOMAIN files -> Seq(Nat)]
    /\ \A n \in DOMAIN files : files[n].safe.len <= Len(files[n].data)

(* The units of this session that a segment must hold start here.          *)
Start == from + dropped

WriterTypes ==
    /\ writer \in Writers /\ (Open => writer.name \in FileNames)
    /\ summary \in Seq(Entries) /\ block \in Seq(Nat) /\ meta \in RateOrNone
    /\ stopping \in BOOLEAN /\ part \in Nat
    /\ taken \in Nat /\ taken <= MaxUnits
    /\ from \in Nat /\ dropped \in Nat /\ Start \in Nat /\ Start <= taken

ProcessTypes ==
    /\ pc \in Steps
    /\ main \in {"setup", "record", "waiting", "live", "teardown", "joining", "ending"} \cup Ended
    /\ status \in Statuses /\ failedFlag \in BOOLEAN /\ verdict \in {"none", "ok", "err", "gone"}
    /\ alert \in {"none", "low", "failure"} /\ exit \in {-1, 0, 3, 4, 5, 6}
    /\ outcome \in {"none", "success", "failed", "timeout"}

Types == FileTypes /\ WriterTypes /\ ProcessTypes

(* Where the worker has a segment open, and where it has nothing.          *)
StepInv ==
    /\ pc \in Opened => Open
    /\ pc \in Closed => ~Open
    /\ pc \in Startup => /\ summary = <<>> /\ block = <<>> /\ taken = Start /\ part = 0
                         /\ ~stopping
    /\ pc = "ready" /\ ~Open => summary = <<>>
    /\ main \in {"setup", "record"} => pc = "none"
    /\ main \in Ended => pc \in {"none", "off"}

(* A rollover opens a segment for a block of one unit at least.            *)
Opening == pc = "create" \/ (pc \in {"finalize", "sync final"} /\ ~stopping)
PartInv == part + (IF Opening THEN 1 ELSE 0) <= MaxParts + taken

(* The open segment: what is accounted, what is written, what is safe.     *)
OpenInv ==
    Open /\ main # "lost" =>
        /\ Current \in DOMAIN files
        /\ writer.bytes = Len(owed[Current]) /\ writer.bytes <= writer.offset
        /\ writer.offset = Len(files[Current].data) /\ FitsHeader(writer.bytes)
        /\ \A k \in 1 .. writer.bytes : files[Current].data[k] = owed[Current][k]
        /\ pc \notin {"data"} \cup Broken => writer.offset = writer.bytes
        /\ pc \in {"sync checkpoint", "sync final"} => files[Current].header = writer.bytes
        /\ pc \in {"header", "space"} => writer.offset = 0
        /\ pc = "header" => /\ files[Current] = EmptyFile
                            /\ \A i \in 1 .. Len(summary) : summary[i].name # Current
        /\ pc \in Opened \cup {"ready"} /\ pc # "header" =>
              Len(summary) > 0 /\ summary[Len(summary)].name = Current

SinceInv ==
    Open /\ Current \in DOMAIN files =>
        /\ files[Current].safe.len + writer.since = Len(owed[Current])
        /\ writer.since < Window + MaxBlock
        /\ pc \in Carrying \cup {"ready"} => writer.since < Window

(* The block in hand ends the take.                                        *)
BlockInv ==
    /\ block # <<>> => writer.offset - writer.bytes + Len(block) \in BlockSizes
    /\ pc = "data" => block # <<>> /\ FitsHeader(writer.offset + Len(block))
    /\ pc \notin Carrying \cup {"off"} => block = <<>>
    /\ stopping => block = <<>>
    /\ \A k \in 1 .. Len(block) : block[k] + Len(block) = taken + k
    /\ pc = "data" => \A k \in writer.bytes + 1 .. writer.offset :
          files[Current].data[k] + Len(block) + writer.offset = taken + k

(* The segments of the summary: the open one, and the finished ones.       *)
Lost(n) == main = "lost" /\ Open /\ n = Current
SummaryInv ==
    \A i \in 1 .. Len(summary) :
        /\ \A j \in 1 .. Len(summary) : summary[i].name = summary[j].name => i = j
        /\ ~Lost(summary[i].name) =>
              /\ summary[i].name \in DOMAIN files
              /\ summary[i].units = Len(owed[summary[i].name])
              /\ files[summary[i].name].header <= Len(owed[summary[i].name])
        /\ ~(Open /\ summary[i].name = Current) =>
              /\ files[summary[i].name].named
              /\ files[summary[i].name].header = Len(files[summary[i].name].data)
              /\ files[summary[i].name].data = owed[summary[i].name]

(* What a checkpoint made safe of a segment of this session.               *)
SafeInv ==
    \A i \in 1 .. Len(summary) : summary[i].name \in DOMAIN files =>
        LET f == files[summary[i].name]  o == owed[summary[i].name] IN
        /\ f.safe.len <= Len(o) /\ \A k \in 1 .. f.safe.len : f.data[k] = o[k]
        /\ f.safe.header # NoHeader => f.safe.header <= f.safe.len

(* The segments of sm hold the units from lo to last (HeldUpTo).           *)
Covers(sm, ow, lo, last) ==
    \E cut \in [1 .. Len(sm) + 1 -> lo .. last] :
        /\ cut[1] = lo /\ cut[Len(sm) + 1] = last
        /\ \A i \in 1 .. Len(sm) :
               /\ Len(ow[sm[i].name]) = cut[i + 1] - cut[i]
               /\ \A k \in 1 .. Len(ow[sm[i].name]) : ow[sm[i].name][k] = cut[i] + k

(* Every unit handed over is accounted, except those of the block in hand. *)
InHand == Len(block) + (writer.offset - writer.bytes)
HeldInv ==
    main # "lost" =>
        \E last \in Start .. taken : /\ Covers(summary, owed, Start, last)
                                     /\ pc \notin Broken => last + InHand = taken

EndInv ==
    /\ outcome = "success" \/ exit = 0 =>
          ~Open /\ Covers(summary, owed, Start, taken) /\ pc \in {"done", "off"}
    /\ pc = "done" => main # "lost"

SessionInv ==
    /\ Types /\ StepInv /\ PartInv /\ OpenInv /\ SinceInv /\ BlockInv /\ SummaryInv /\ SafeInv
    /\ HeldInv /\ EndInv

-----------------------------------------------------------------------------
(* Numbers, names and sequences.                                           *)
LEMMA LeastNatural ==
  ASSUME NEW T \in SUBSET Nat, T # {}
  PROVE  \E x \in T : \A y \in T : x <= y
<1>1. PICK x \in T : \A y \in T : ~(<<y, x>> \in OpToRel(<, Nat))
  BY NatLessThanWellFounded, WFMin
<1>2. \A y \in T : ~(y < x) BY <1>1, Zenon DEF OpToRel
<1> QED BY <1>2

LEMMA Sizes ==
  /\ Window \in Nat \ {0} /\ MaxField \in Nat /\ Overhead \in Nat
  /\ MaxUnits \in Nat /\ MaxParts \in Nat
  /\ \A n \in BlockSizes : n \in Nat \ {0} /\ n + Overhead <= MaxField
  /\ NoHeader \in Nat /\ 0 \in Headers /\ NoHeader \in Headers
  /\ FitsHeader(0)
<1>1. /\ Window \in Nat \ {0} /\ MaxField \in Nat /\ Overhead \in Nat
      /\ MaxUnits \in Nat /\ MaxParts \in Nat
  BY SizesAssumption, BoundsAssumption
<1>2. BlockSizes # {} /\ \A n \in BlockSizes : n \in 1 .. MaxField - Overhead
  BY SizesAssumption
<1>3. \A n \in BlockSizes : n \in Nat \ {0} /\ n + Overhead <= MaxField BY <1>1, <1>2, SMT
<1>4. 0 + Overhead <= MaxField BY <1>1, <1>2, <1>3, SMT
<1>5. NoHeader \in Nat /\ 0 \in Headers /\ NoHeader \in Headers BY <1>1, SMT DEF NoHeader, Headers
<1> QED BY <1>1, <1>3, <1>4, <1>5 DEF FitsHeader

LEMMA MaxBlockIs ==
  MaxBlock \in BlockSizes /\ MaxBlock \in Nat \ {0} /\ \A n \in BlockSizes : n <= MaxBlock
<1> DEFINE gaps == {MaxField - n : n \in BlockSizes}
<1>1. gaps \in SUBSET Nat BY Sizes, SMT
<1>2. BlockSizes # {} BY SizesAssumption
<1>3. gaps # {} BY <1>2
<1>4. PICK g \in gaps : \A h \in gaps : g <= h
  <2> HIDE DEF gaps
  <2> QED BY <1>1, <1>3, LeastNatural
<1>5. PICK m \in BlockSizes : g = MaxField - m BY <1>4
<1>6. \A n \in BlockSizes : MaxField - m <= MaxField - n BY <1>4, <1>5
<1>7. \A n \in BlockSizes : m >= n BY <1>6, Sizes, SMT
<1>8. \E x \in BlockSizes : \A y \in BlockSizes : x >= y BY <1>5, <1>7
<1>9. MaxBlock \in BlockSizes /\ \A n \in BlockSizes : MaxBlock >= n
  BY <1>8, Zenon DEF MaxBlock, Max
<1> QED BY <1>9, Sizes, SMT

(* Exclusive creation finds a name that no file has.                       *)
LEMMA NameIsFree ==
  ASSUME FileTypes, NEW t \in Times, NEW p \in Nat
  PROVE  FreeName(t, p) \in FileNames /\ FreeName(t, p) \notin DOMAIN files
<1> DEFINE card == Cardinality(DOMAIN files)
           Free == {s \in 0 .. card : <<t, p, s>> \notin DOMAIN files}
           Chosen(s) == /\ <<t, p, s>> \notin DOMAIN files
                        /\ \A q \in 0 .. s - 1 : <<t, p, q>> \in DOMAIN files
<1>1. IsFiniteSet(DOMAIN files) /\ card \in Nat BY FS_CardinalityType DEF FileTypes
<1>2. Free # {}
  <2> SUFFICES ASSUME \A s \in 0 .. card : <<t, p, s>> \in DOMAIN files PROVE FALSE
    OBVIOUS
  <2> DEFINE f == [s \in 0 .. card |-> <<t, p, s>>]
  <2>1. f \in [0 .. card -> DOMAIN files] OBVIOUS
  <2>2. \A a, b \in 0 .. card : f[a] = f[b] => a = b OBVIOUS
  <2>3. f \in Injection(0 .. card, DOMAIN files) BY <2>1, <2>2 DEF Injection, IsInjective
  <2>4. Cardinality(0 .. card) <= card BY <1>1, <2>3, FS_Injection
  <2>5. Cardinality(0 .. card) = card + 1
    <3> HIDE DEF card
    <3>1. 0 \in Int /\ card \in Int /\ ~(0 > card) BY <1>1, SMT
    <3>2. Cardinality(0 .. card) = card - 0 + 1 BY <3>1, FS_Interval
    <3> QED BY <1>1, <3>2, SMT
  <2> HIDE DEF card
  <2> QED BY <1>1, <2>4, <2>5, SMT
<1> HIDE DEF card
<1>3. Free \in SUBSET Nat BY <1>1, SMT
<1>4. PICK s \in Free : \A q \in Free : s <= q
  <2> HIDE DEF Free
  <2> QED BY <1>2, <1>3, LeastNatural
<1>5. s \in 0 .. card /\ Chosen(s)
  <2>1. ASSUME NEW q \in 0 .. s - 1 PROVE <<t, p, q>> \in DOMAIN files
    <3>1. q \in 0 .. card /\ ~(s <= q) BY <1>1, <1>4, <2>1, SMT
    <3> QED BY <1>4, <3>1
  <2> QED BY <1>4, <2>1
<1> DEFINE least == CHOOSE r \in 0 .. card : Chosen(r)
<1>6. least \in 0 .. card /\ Chosen(least)
  <2> HIDE DEF Chosen
  <2> QED BY <1>5
<1>7. FreeName(t, p) = <<t, p, least>> BY DEF FreeName, card
<1>8. least \in Nat
  <2> HIDE DEF least
  <2> QED BY <1>1, <1>6, SMT
<1> HIDE DEF least
<1> QED BY <1>6, <1>7, <1>8 DEF FileNames

LEMMA NamesAreNotNone == <<>> \notin FileNames
  BY DEF FileNames

LEMMA ElementInSet ==
  ASSUME NEW S, NEW s \in Seq(S), NEW i \in 1 .. Len(s)
  PROVE  s[i] \in S
  BY SMT

LEMMA AppendFacts ==
  ASSUME NEW S, NEW s \in Seq(S), NEW e \in S
  PROVE  /\ Append(s, e) \in Seq(S) /\ Len(Append(s, e)) = Len(s) + 1 /\ Len(s) \in Nat
         /\ Append(s, e)[Len(s) + 1] = e
         /\ \A i \in 1 .. Len(s) : Append(s, e)[i] = s[i]
  BY SMT

LEMMA ConcatFacts ==
  ASSUME NEW S, NEW s \in Seq(S), NEW t \in Seq(S)
  PROVE  /\ s \o t \in Seq(S) /\ Len(s \o t) = Len(s) + Len(t) /\ Len(s) \in Nat /\ Len(t) \in Nat
         /\ \A k \in 1 .. Len(s) : (s \o t)[k] = s[k]
         /\ \A k \in 1 .. Len(t) : (s \o t)[Len(s) + k] = t[k]
  BY SMT

LEMMA SubSeqFacts ==
  ASSUME NEW S, NEW s \in Seq(S), NEW a \in Nat \ {0}, NEW b \in Nat, b <= Len(s), a <= b + 1
  PROVE  /\ SubSeq(s, a, b) \in Seq(S) /\ Len(SubSeq(s, a, b)) = b + 1 - a
         /\ \A k \in 1 .. b + 1 - a : SubSeq(s, a, b)[k] = s[a + k - 1]
  BY SMT

LEMMA RestFacts ==
  ASSUME NEW S, NEW s \in Seq(S), NEW n \in Nat, n < Len(s)
  PROVE  /\ SubSeq(s, n + 1, Len(s)) \in Seq(S) /\ Len(SubSeq(s, n + 1, Len(s))) = Len(s) - n
         /\ \A k \in 1 .. Len(s) - n : SubSeq(s, n + 1, Len(s))[k] = s[n + k] /\ n + k \in 1 .. Len(s)
  BY SMT

(* A sequence given element by element.                                    *)
LEMMA MadeSequence ==
  ASSUME NEW S, NEW n \in Nat, NEW s, s = [k \in 1 .. n |-> s[k]], \A k \in 1 .. n : s[k] \in S
  PROVE  s \in Seq(S) /\ Len(s) = n /\ DOMAIN s = 1 .. n
  BY SMT

(* A write at the end of a file appends.                                   *)
LEMMA WriteAtEnd ==
  ASSUME NEW data \in Seq(Nat), NEW units \in Seq(Nat)
  PROVE  LET w == WriteAt(data, Len(data), units) IN
         /\ w \in Seq(Nat) /\ Len(w) = Len(data) + Len(units)
         /\ \A k \in 1 .. Len(data) : w[k] = data[k]
         /\ \A k \in 1 .. Len(units) : w[Len(data) + k] = units[k]
<1> DEFINE m == Len(data)
           n == Len(units)
           At(i) == IF i \in m + 1 .. m + n THEN units[i - m]
                    ELSE IF i <= m THEN data[i] ELSE 0
           w == [i \in 1 .. m + n |-> At(i)]
<1>1. m \in Nat /\ n \in Nat OBVIOUS
<1>2. Max({m, m + n}) = m + n
  <2>1. \A x \in {m, m + n} : (\A y \in {m, m + n} : x >= y) <=> x = m + n
    <3> HIDE DEF m, n
    <3> QED BY <1>1, SMT
  <2> HIDE DEF m, n
  <2> QED BY <2>1, Zenon DEF Max
<1>3. WriteAt(data, m, units) = w BY <1>2, Zenon DEF WriteAt
<1>4. \A k \in 1 .. m : data[k] \in Nat BY ElementInSet
<1>5. \A k \in 1 .. n : units[k] \in Nat BY ElementInSet
<1> HIDE DEF m, n
<1>6. \A k \in 1 .. m : k \in 1 .. m + n /\ At(k) = data[k] BY <1>1, SMT
<1>7. \A k \in 1 .. n : m + k \in 1 .. m + n /\ At(m + k) = units[k] BY <1>1, SMT
<1>8. \A i \in 1 .. m + n : At(i) \in Nat
  <2> SUFFICES ASSUME NEW i \in 1 .. m + n PROVE At(i) \in Nat OBVIOUS
  <2>1. CASE i <= m
    <3>1. i \in 1 .. m BY <1>1, <2>1, SMT
    <3> QED BY <3>1, <1>4, <1>6
  <2>2. CASE ~(i <= m)
    <3>1. i - m \in 1 .. n /\ i = m + (i - m) BY <1>1, <2>2, SMT
    <3> QED BY <3>1, <1>5, <1>7
  <2> QED BY <2>1, <2>2
<1>9. w \in Seq(Nat) /\ Len(w) = m + n
  <2>1. m + n \in Nat BY <1>1, SMT
  <2>2. \A i \in 1 .. m + n : w[i] \in Nat
    <3> HIDE DEF At
    <3> QED BY <1>8
  <2>3. w = [i \in 1 .. m + n |-> w[i]] OBVIOUS
  <2> HIDE DEF w, At
  <2> QED BY <2>1, <2>2, <2>3, MadeSequence
<1>10. /\ \A k \in 1 .. m : w[k] = data[k]
       /\ \A k \in 1 .. n : w[m + k] = units[k]
  BY <1>6, <1>7
<1> HIDE DEF w
<1> QED BY <1>3, <1>9, <1>10 DEF m, n

-----------------------------------------------------------------------------
(* The steps of the worker that touch its segments, and all others.        *)
Busy == Receive \/ Segment \/ StopSeen \/ OpenNext \/ PublishSpace
WorkerIdle ==
    \/ ProbeIoUring \/ ValidateOutputDir \/ RuntimePanics \/ SendHandshake \/ MarkActive
    \/ CheckSpace \/ PublishStopped \/ RecordFailure \/ RaiseFlag

LEMMA Cases ==
  ASSUME [Next]_vars
  PROVE  Busy \/ WorkerIdle \/ MainStep \/ Kill \/ PowerLoss \/ Restart \/ UNCHANGED vars
  BY DEF Next, WorkerStep, Busy, WorkerIdle

(* What a step that touches no segment may do.                             *)
Idle ==
    /\ UNCHANGED <<segmentVars, from>>
    /\ \/ pc' = pc \/ pc' = "off"
       \/ pc \in Startup /\ pc' \in Startup \cup {"panicked", "failed", "ready"}
       \/ pc = "stopped" /\ pc' = "done"
       \/ pc \in {"failed", "raise"} /\ pc' \in {"raise", "error"}
    /\ main' \in {"setup", "record"} => main \in {"setup", "record"} /\ pc' = pc
    /\ main' \in Ended => pc' \in {"none", "off"}
    /\ main' = "lost" <=> main = "lost"
    /\ outcome' = "success" => outcome = "success" \/ (pc = "done" /\ pc' = "done")
    /\ exit' = 0 => exit = 0 \/ outcome = "success"

LEMMA IdleStep ==
  ASSUME Types, StepInv, WorkerIdle \/ MainStep \/ Kill \/ UNCHANGED vars
  PROVE  Idle
<1> USE DEF wavVars, workerVars, mainVars, historyVars
<1>1. /\ main \in {"setup", "record"} => pc = "none"
      /\ main \in Ended => pc \in {"none", "off"}
  BY DEF StepInv
<1>2. CASE WorkerIdle
  <2>1. UNCHANGED <<segmentVars, from, main, outcome, exit>>
    BY <1>2 DEF WorkerIdle, ProbeIoUring, ValidateOutputDir, RuntimePanics, SendHandshake, MarkActive,
       CheckSpace, PublishStopped, RecordFailure, RaiseFlag
  <2>2. /\ pc \notin {"none", "off"}
        /\ \/ pc' = pc
           \/ pc \in Startup /\ pc' \in Startup \cup {"panicked", "failed", "ready"}
           \/ pc = "stopped" /\ pc' = "done"
           \/ pc \in {"failed", "raise"} /\ pc' \in {"raise", "error"}
    BY <1>2 DEF WorkerIdle, ProbeIoUring, ValidateOutputDir, RuntimePanics, SendHandshake, MarkActive,
       CheckSpace, PublishStopped, RecordFailure, RaiseFlag, Startup
  <2> QED BY <1>1, <2>1, <2>2 DEF Idle
<1>3. CASE UNCHANGED vars BY <1>1, <1>3 DEF vars, Idle, segmentVars
<1>4. CASE Kill
  <2>1. UNCHANGED <<segmentVars, from, outcome, exit>> /\ main' = "down" /\ main # "lost"
    BY <1>4 DEF Kill, RestOfWorker, Alive
  <2>2. pc' \in {"none", "off"} /\ (pc' = pc \/ pc' = "off") BY <1>4 DEF Kill, WorkerEnds
  <2> QED BY <2>1, <2>2 DEF Idle
<1>5. CASE MainStep
  <2>1. CASE Configure
    <3>1. UNCHANGED <<segmentVars, from, outcome>> /\ main = "setup" /\ pc = "none" /\ pc' = "none"
      BY <1>1, <2>1 DEF Configure, RestOfWorker, WorkerEnds
    <3>2. main' = "record" \/ main' = "exited" BY <2>1 DEF Configure, Exits
    <3>3. exit' = exit \/ exit' \in SetupFailures BY <2>1 DEF Configure, Exits
    <3> QED BY <3>1, <3>2, <3>3 DEF Idle, SetupFailures
  <2>2. CASE Spawn
    BY <1>1, <2>2 DEF Spawn, RestOfWorker, Idle, Startup, Ended
  <2>3. CASE SpawnFails \/ WorkerNotReady \/ Exit
    <3>1. UNCHANGED <<segmentVars, from, outcome>> /\ main' = "exited" /\ main # "lost"
      BY <2>3 DEF SpawnFails, WorkerNotReady, Exit, RestOfWorker, Exits
    <3>2. pc' \in {"none", "off"} /\ (pc' = pc \/ pc' = "off")
      BY <2>3 DEF SpawnFails, WorkerNotReady, Exit, WorkerEnds
    <3>3. exit' = 0 => outcome = "success"
      BY <2>3 DEF SpawnFails, WorkerNotReady, Exit, Exits, ExitCode
    <3> QED BY <3>1, <3>2, <3>3 DEF Idle
  <2>4. CASE WorkerReady \/ Poll \/ EndHost \/ Stop
    BY <1>1, <2>4 DEF WorkerReady, Poll, EndHost, Stop, Idle, Ended
  <2>5. CASE Join
    BY <1>1, <2>5 DEF Join, Finished, Joined, Idle, Ended
  <2>6. CASE JoinTimeout
    BY <1>1, <2>6 DEF JoinTimeout, TimeoutOutcome, Idle, Ended
  <2> QED BY <1>5, <2>1, <2>2, <2>3, <2>4, <2>5, <2>6 DEF MainStep
<1> QED BY <1>2, <1>3, <1>4, <1>5

(* The worker works on segments only while the session is alive.           *)
LEMMA BusyStep ==
  ASSUME Types, StepInv, Busy
  PROVE  /\ UNCHANGED <<main, outcome, exit, from, session>>
         /\ pc \in {"ready", "create"} \cup Opened /\ main \notin Ended \cup {"setup", "record"}
<1> USE DEF wavVars, workerVars, mainVars, historyVars, Quiet
<1>1. UNCHANGED <<main, outcome, exit, from, session>>
  BY DEF Busy, Receive, Segment, StopSeen, OpenNext, PublishSpace
<1>2. pc \in {"ready", "create"} \cup Opened
  BY DEF Busy, Receive, TakeMetadata, TakeBlock, Segment, Create, WriteRest, WriteSome, RewriteHeader,
     SyncCheckpoint, SyncFinal, FailIO, Failing, StopSeen, TakeStop, OpenNext, OpenSegment,
     PublishSpace, SegmentReady, Opened
<1>3. pc \notin {"none", "off"} BY <1>2 DEF Opened
<1> QED BY <1>1, <1>2, <1>3 DEF StepInv

LEMMA ProcessTypesStep ==
  ASSUME Types, StepInv, [Next]_vars
  PROVE  ProcessTypes'
<1>1. ProcessTypes /\ WriterTypes BY DEF Types
<1> USE DEF wavVars, workerVars, mainVars, historyVars, Quiet
<1>2. pc' \in Steps
  <2> USE DEF Steps, Startup, Opened, Closed, Broken
  <2>1. CASE Busy
    <3>1. CASE Receive \/ StopSeen \/ OpenNext \/ PublishSpace
      BY <3>1 DEF Receive, TakeMetadata, TakeBlock, StopSeen, TakeStop, OpenNext, OpenSegment,
         PublishSpace, SegmentReady
    <3>2. CASE Segment
      BY <3>2 DEF Segment, Create, WriteRest, RewriteHeader, SyncCheckpoint, SyncFinal, FailIO, WriteSome
    <3> QED BY <2>1, <3>1, <3>2 DEF Busy
  <2>2. CASE Idle BY <2>2, <1>1 DEF Idle, ProcessTypes
  <2>3. CASE PowerLoss \/ Restart BY <2>3 DEF PowerLoss, Restart, WorkerEnds
  <2> QED BY <2>1, <2>2, <2>3, Cases, IdleStep
<1>3. main' \in {"setup", "record", "waiting", "live", "teardown", "joining", "ending"} \cup Ended
  <2>1. CASE Busy \/ WorkerIdle \/ UNCHANGED vars
    <3>1. main' = main
      BY <2>1, BusyStep DEF WorkerIdle, ProbeIoUring, ValidateOutputDir, RuntimePanics, SendHandshake,
         MarkActive, CheckSpace, PublishStopped, RecordFailure, RaiseFlag, vars
    <3> QED BY <3>1, <1>1 DEF ProcessTypes
  <2>2. CASE MainStep
    BY <2>2, <1>1 DEF MainStep, Configure, Spawn, SpawnFails, WorkerReady, WorkerNotReady, Poll, EndHost,
       Stop, Join, JoinTimeout, Exit, Exits, Ended, ProcessTypes
  <2>3. CASE Kill \/ PowerLoss \/ Restart BY <2>3 DEF Kill, PowerLoss, Restart, Ended
  <2> QED BY <2>1, <2>2, <2>3, Cases
<1>4. status' \in Statuses
  <2>1. \A kind \in {"starting", "active", "failed", "stopped"}, path \in FileNames \cup {<<>>} :
           Status(kind, path, FALSE) \in Statuses
    BY DEF Status, Statuses
  <2>2. \A low \in BOOLEAN : [status EXCEPT !.warning = low] \in Statuses
    BY <1>1 DEF ProcessTypes, Statuses
  <2>3. writer.name \in FileNames \cup {<<>>} BY <1>1 DEF WriterTypes, Writers
  <2>4. CASE Busy
    <3>1. CASE OpenNext BY <3>1, <2>1, <2>3 DEF OpenNext, Current
    <3>2. CASE PublishSpace BY <3>2, <2>2 DEF PublishSpace
    <3>3. CASE Receive \/ Segment \/ StopSeen
      BY <3>3, <1>1 DEF Receive, Segment, StopSeen, ProcessTypes
    <3> QED BY <2>4, <3>1, <3>2, <3>3 DEF Busy
  <2>5. CASE WorkerIdle
    BY <2>5, <2>1, <2>2, <1>1 DEF WorkerIdle, ProbeIoUring, ValidateOutputDir, RuntimePanics,
       SendHandshake, MarkActive, CheckSpace, PublishStopped, RecordFailure, RaiseFlag, ProcessTypes
  <2>6. CASE MainStep \/ Kill \/ PowerLoss \/ UNCHANGED vars
    BY <2>6, <1>1 DEF MainStep, Configure, Spawn, SpawnFails, WorkerReady, WorkerNotReady, Poll, EndHost,
       Stop, Join, JoinTimeout, Exit, RestOfWorker, Kill, PowerLoss, vars, ProcessTypes
  <2>7. CASE Restart BY <2>7, <2>1 DEF Restart, Starting
  <2> QED BY <2>4, <2>5, <2>6, <2>7, Cases
<1>5. failedFlag' \in BOOLEAN /\ verdict' \in {"none", "ok", "err", "gone"}
  <2>1. CASE Busy \/ MainStep \/ Kill \/ PowerLoss \/ UNCHANGED vars
    BY <2>1, <1>1 DEF Busy, Receive, Segment, StopSeen, OpenNext, PublishSpace, MainStep, Configure,
       Spawn, SpawnFails, WorkerReady, WorkerNotReady, Poll, EndHost, Stop, Join, JoinTimeout, Exit,
       RestOfWorker, Kill, PowerLoss, vars, ProcessTypes
  <2>2. CASE WorkerIdle
    BY <2>2, <1>1 DEF WorkerIdle, ProbeIoUring, ValidateOutputDir, RuntimePanics,
       SendHandshake, MarkActive, CheckSpace, PublishStopped, RecordFailure, RaiseFlag, ProcessTypes
  <2>3. CASE Restart BY <2>3 DEF Restart
  <2> QED BY <2>1, <2>2, <2>3, Cases
<1>6. /\ alert' \in {"none", "low", "failure"} /\ exit' \in {-1, 0, 3, 4, 5, 6}
      /\ outcome' \in {"none", "success", "failed", "timeout"}
  <2>1. CASE Busy \/ WorkerIdle \/ Kill \/ PowerLoss \/ UNCHANGED vars
    BY <2>1, <1>1 DEF Busy, Receive, Segment, StopSeen, OpenNext, PublishSpace, WorkerIdle, ProbeIoUring,
       ValidateOutputDir, RuntimePanics, SendHandshake, MarkActive, CheckSpace, PublishStopped,
       RecordFailure, RaiseFlag, Kill, PowerLoss, vars, ProcessTypes
  <2>2. CASE MainStep
    <3> USE DEF ProcessTypes
    <3>1. CASE Configure \/ Spawn \/ SpawnFails \/ WorkerNotReady \/ Exit
      BY <3>1, <1>1 DEF Configure, Spawn, SpawnFails, WorkerNotReady, Exit, Exits, SetupFailures, ExitCode
    <3>2. CASE WorkerReady \/ Poll \/ EndHost \/ Stop
      BY <3>2, <1>1 DEF WorkerReady, Poll, Condition, EndHost, Stop
    <3>3. CASE Join \/ JoinTimeout
      BY <3>3, <1>1 DEF Join, Joined, JoinTimeout, TimeoutOutcome
    <3> QED BY <2>2, <3>1, <3>2, <3>3 DEF MainStep
  <2>3. CASE Restart BY <2>3 DEF Restart
  <2> QED BY <2>1, <2>2, <2>3, Cases
<1> QED BY <1>2, <1>3, <1>4, <1>5, <1>6 DEF ProcessTypes

-----------------------------------------------------------------------------
(* How the segments come to hold the take.                                 *)
LEMMA CoversEmpty ==
  ASSUME NEW ow, NEW lo \in Nat
  PROVE  Covers(<<>>, ow, lo, lo)
<1> DEFINE cut == [i \in 1 .. 1 |-> lo]
<1>1. Len(<<>>) + 1 = 1 /\ 1 .. Len(<<>>) = {} BY SMT
<1>2. lo \in lo .. lo /\ 1 \in 1 .. 1 BY SMT
<1>3. cut \in [1 .. 1 -> lo .. lo] /\ cut[1] = lo BY <1>2
<1> HIDE DEF cut
<1> QED BY <1>1, <1>3, Zenon DEF Covers

LEMMA CoversSame ==
  ASSUME NEW sm \in Seq(Entries), NEW sm2 \in Seq(Entries), NEW ow, NEW ow2, NEW lo, NEW last,
         Len(sm2) = Len(sm),
         \A i \in 1 .. Len(sm) : sm2[i].name = sm[i].name /\ ow2[sm[i].name] = ow[sm[i].name],
         Covers(sm, ow, lo, last)
  PROVE  Covers(sm2, ow2, lo, last)
<1>1. PICK cut \in [1 .. Len(sm) + 1 -> lo .. last] :
        /\ cut[1] = lo /\ cut[Len(sm) + 1] = last
        /\ \A i \in 1 .. Len(sm) :
               /\ Len(ow[sm[i].name]) = cut[i + 1] - cut[i]
               /\ \A k \in 1 .. Len(ow[sm[i].name]) : ow[sm[i].name][k] = cut[i] + k
  BY Zenon DEF Covers
<1>2. \A i \in 1 .. Len(sm2) :
         /\ Len(ow2[sm2[i].name]) = cut[i + 1] - cut[i]
         /\ \A k \in 1 .. Len(ow2[sm2[i].name]) : ow2[sm2[i].name][k] = cut[i] + k
  BY <1>1, SMTT(30)
<1>3. cut \in [1 .. Len(sm2) + 1 -> lo .. last] /\ cut[1] = lo /\ cut[Len(sm2) + 1] = last
  BY <1>1
<1> QED BY <1>2, <1>3, Zenon DEF Covers

LEMMA CoversPush ==
  ASSUME NEW sm \in Seq(Entries), NEW e \in Entries, NEW ow, NEW ow2,
         NEW lo \in Nat, NEW last \in Nat, lo <= last,
         ow2[e.name] = <<>>, \A i \in 1 .. Len(sm) : ow2[sm[i].name] = ow[sm[i].name],
         Covers(sm, ow, lo, last)
  PROVE  Covers(Append(sm, e), ow2, lo, last)
<1> DEFINE m == Len(sm)
           sm2 == Append(sm, e)
<1>1. /\ sm2 \in Seq(Entries) /\ Len(sm2) = m + 1 /\ m \in Nat /\ sm2[m + 1] = e
      /\ \A i \in 1 .. m : sm2[i] = sm[i]
  BY AppendFacts
<1>2. PICK cut \in [1 .. m + 1 -> lo .. last] :
        /\ cut[1] = lo /\ cut[m + 1] = last
        /\ \A i \in 1 .. m :
               /\ Len(ow[sm[i].name]) = cut[i + 1] - cut[i]
               /\ \A k \in 1 .. Len(ow[sm[i].name]) : ow[sm[i].name][k] = cut[i] + k
  BY Zenon DEF Covers
<1> DEFINE cut2 == [i \in 1 .. Len(sm2) + 1 |-> IF i = m + 2 THEN last ELSE cut[i]]
<1> HIDE DEF m, sm2
<1>3. /\ last \in lo .. last /\ Len(sm2) + 1 = m + 2 /\ 1 # m + 2 /\ 1 \in 1 .. m + 2
      /\ m + 2 \in 1 .. m + 2 /\ m + 1 \in 1 .. m + 2 /\ m + 1 # m + 2
      /\ \A i \in 1 .. m + 2 : i # m + 2 => i \in 1 .. m + 1
      /\ \A i \in 1 .. m : /\ i \in 1 .. m + 2 /\ i # m + 2
                           /\ i + 1 \in 1 .. m + 2 /\ i + 1 # m + 2
      /\ \A i \in 1 .. m + 1 : i \in 1 .. m \/ i = m + 1
  BY <1>1, SMT
<1>4. cut2 \in [1 .. Len(sm2) + 1 -> lo .. last] BY <1>2, <1>3
<1>5. cut2[1] = lo /\ cut2[Len(sm2) + 1] = last /\ cut2[m + 1] = last /\ cut2[m + 2] = last
  BY <1>2, <1>3
<1>6. \A i \in 1 .. m : cut2[i] = cut[i] /\ cut2[i + 1] = cut[i + 1] BY <1>3
<1> HIDE DEF cut2
<1>7. ASSUME NEW i \in 1 .. Len(sm2)
      PROVE  /\ Len(ow2[sm2[i].name]) = cut2[i + 1] - cut2[i]
             /\ \A k \in 1 .. Len(ow2[sm2[i].name]) : ow2[sm2[i].name][k] = cut2[i] + k
  <2>1. CASE i \in 1 .. m
    <3>1. ow2[sm2[i].name] = ow[sm[i].name] BY <1>1, <2>1 DEF m
    <3> QED BY <3>1, <2>1, <1>2, <1>6
  <2>2. CASE i = m + 1
    <3>1. ow2[sm2[i].name] = <<>> /\ Len(<<>>) = 0 /\ 1 .. Len(<<>>) = {} BY <1>1, <2>2
    <3>2. i + 1 = m + 2 BY <1>1, <2>2, SMT
    <3>3. cut2[i + 1] = last /\ cut2[i] = last /\ last - last = 0 BY <1>5, <2>2, <3>2
    <3> QED BY <3>1, <3>3
  <2> QED BY <1>1, <1>3, <2>1, <2>2
<1>8. Covers(sm2, ow2, lo, last) BY <1>4, <1>5, <1>7, Zenon DEF Covers
<1> QED BY <1>8 DEF sm2

(* size units join the last segment.                                       *)
LEMMA CoversWrite ==
  ASSUME NEW sm \in Seq(Entries), NEW sm2 \in Seq(Entries), NEW ow, NEW ow2,
         NEW lo \in Nat, NEW last \in Nat, NEW size \in Nat, lo <= last,
         Len(sm) > 0, Len(sm2) = Len(sm),
         \A i \in 1 .. Len(sm) : sm2[i].name = sm[i].name,
         \A i \in 1 .. Len(sm) : i # Len(sm) => ow2[sm[i].name] = ow[sm[i].name],
         ow[sm[Len(sm)].name] \in Seq(Nat),
         Len(ow2[sm[Len(sm)].name]) = Len(ow[sm[Len(sm)].name]) + size,
         \A k \in 1 .. Len(ow[sm[Len(sm)].name]) :
            ow2[sm[Len(sm)].name][k] = ow[sm[Len(sm)].name][k],
         \A k \in 1 .. size :
            ow2[sm[Len(sm)].name][Len(ow[sm[Len(sm)].name]) + k] = last + k,
         Covers(sm, ow, lo, last)
  PROVE  Covers(sm2, ow2, lo, last + size)
<1> DEFINE m == Len(sm)
           o == ow[sm[m].name]
           o2 == ow2[sm[m].name]
<1>1. PICK cut \in [1 .. m + 1 -> lo .. last] :
        /\ cut[1] = lo /\ cut[m + 1] = last
        /\ \A i \in 1 .. m :
               /\ Len(ow[sm[i].name]) = cut[i + 1] - cut[i]
               /\ \A k \in 1 .. Len(ow[sm[i].name]) : ow[sm[i].name][k] = cut[i] + k
  BY Zenon DEF Covers
<1>2. m \in Nat /\ m > 0 OBVIOUS
<1>3. Len(o) \in Nat /\ Len(o2) = Len(o) + size OBVIOUS
<1>4. /\ \A k \in 1 .. Len(o) : o2[k] = o[k]
      /\ \A k \in 1 .. size : o2[Len(o) + k] = last + k
  OBVIOUS
<1>5. /\ \A i \in 1 .. m : sm2[i].name = sm[i].name
      /\ \A i \in 1 .. m : i # m => ow2[sm[i].name] = ow[sm[i].name]
      /\ Len(sm2) = m
  OBVIOUS
<1> DEFINE cut2 == [i \in 1 .. m + 1 |-> IF i = m + 1 THEN last + size ELSE cut[i]]
<1>6. m \in 1 .. m /\ ow[sm[m].name] = o /\ ow2[sm[m].name] = o2 BY <1>2, SMT
<1> HIDE DEF m, o, o2
<1>7. /\ Len(o) = cut[m + 1] - cut[m] /\ \A k \in 1 .. Len(o) : o[k] = cut[m] + k
  BY <1>1, <1>6
<1>8. /\ last + size \in lo .. last + size /\ \A n \in lo .. last : n \in lo .. last + size
      /\ 1 \in 1 .. m + 1 /\ m + 1 \in 1 .. m + 1 /\ 1 # m + 1 /\ m # m + 1 /\ m \in 1 .. m + 1
      /\ \A i \in 1 .. m : i \in 1 .. m + 1 /\ i # m + 1 /\ i + 1 \in 1 .. m + 1
      /\ \A i \in 1 .. m : i # m => i + 1 # m + 1
  BY <1>2, SMT
<1>9. cut2 \in [1 .. m + 1 -> lo .. last + size] BY <1>8
<1>10. cut2[1] = lo /\ cut2[m + 1] = last + size BY <1>1, <1>8
<1>11. \A i \in 1 .. m : cut2[i] = cut[i] /\ (i # m => cut2[i + 1] = cut[i + 1]) BY <1>8
<1> HIDE DEF cut2
<1>12. ASSUME NEW i \in 1 .. m
       PROVE  /\ Len(ow2[sm2[i].name]) = cut2[i + 1] - cut2[i]
              /\ \A k \in 1 .. Len(ow2[sm2[i].name]) : ow2[sm2[i].name][k] = cut2[i] + k
  <2>1. CASE i # m
    <3>1. ow2[sm2[i].name] = ow[sm[i].name] BY <1>5, <2>1
    <3>2. sm2[i].name = sm[i].name BY <1>5
    <3>3. cut2[i] = cut[i] /\ cut2[i + 1] = cut[i + 1] BY <2>1, <1>11
    <3>4. /\ Len(ow[sm[i].name]) = cut[i + 1] - cut[i]
          /\ \A k \in 1 .. Len(ow[sm[i].name]) : ow[sm[i].name][k] = cut[i] + k
      BY <1>1
    <3>5. ow2[sm2[i].name] = ow[sm[i].name] BY <3>1, <3>2
    <3> QED BY <3>3, <3>4, <3>5, Zenon
  <2>2. CASE i = m
    <3>1. ow2[sm2[i].name] = o2 BY <1>5, <1>6, <2>2
    <3>2. cut[m] \in Nat /\ cut[m + 1] = last /\ cut2[m] = cut[m]
      <4>1. cut[m] \in lo .. last BY <1>8
      <4> QED BY <4>1, <1>1, <1>6, <1>11, SMT
    <3>3. Len(o) = last - cut[m] BY <1>7, <3>2
    <3>4. Len(o2) = cut2[m + 1] - cut2[m] BY <1>3, <1>10, <3>2, <3>3, SMT
    <3>5. ASSUME NEW k \in 1 .. Len(o2) PROVE o2[k] = cut[m] + k
      <4>1. CASE k <= Len(o)
        <5>1. k \in 1 .. Len(o) BY <1>3, <4>1, SMT
        <5> QED BY <5>1, <1>4, <1>7
      <4>2. CASE ~(k <= Len(o))
        <5>1. k - Len(o) \in 1 .. size /\ k = Len(o) + (k - Len(o)) BY <1>3, <4>2, SMT
        <5>2. o2[k] = last + (k - Len(o)) BY <5>1, <1>4
        <5>3. k \in Int BY <1>3, SMT
        <5>4. last + (k - Len(o)) = cut[m] + k
          <6> DEFINE a == Len(o)
                     c == cut[m]
          <6>1. a \in Nat /\ c \in Nat /\ a = last - c BY <1>3, <3>2, <3>3
          <6> HIDE DEF a, c
          <6>2. last + (k - a) = c + k BY <5>3, <6>1, SMT
          <6> QED BY <6>2 DEF a, c
        <5> QED BY <5>2, <5>4
      <4> QED BY <4>1, <4>2
    <3> QED BY <2>2, <3>1, <3>2, <3>4, <3>5
  <2> QED BY <2>1, <2>2
<1> QED BY <1>5, <1>9, <1>10, <1>12, Zenon DEF Covers

-----------------------------------------------------------------------------
(* Steps that touch no segment keep the invariant.                         *)
LEMMA IdleKeeps ==
  ASSUME SessionInv, Idle, ProcessTypes'
  PROVE  SessionInv'
<1>1. /\ Types /\ StepInv /\ PartInv /\ OpenInv /\ SinceInv /\ BlockInv /\ SummaryInv /\ SafeInv
      /\ HeldInv /\ EndInv
  BY DEF SessionInv
<1>2. /\ UNCHANGED <<files, owed, writer, part, summary, meta, block, stopping, taken, from, dropped, Start>>
      /\ main' = "lost" <=> main = "lost"
  BY DEF Idle, segmentVars, fileVars, Start
<1>3. Types' BY <1>1, <1>2 DEF Types, FileTypes, WriterTypes, Open
<1>4. StepInv'
  <2>1. main' \in {"setup", "record"} => pc' = "none" BY <1>1 DEF Idle, StepInv
  <2>2. main' \in Ended => pc' \in {"none", "off"} BY DEF Idle
  <2>3. pc' \in Startup => pc \in Startup BY DEF Idle, Startup
  <2>4. pc' \in Opened => pc \in Opened BY DEF Idle, Opened, Startup
  <2>5. pc' \in Closed => pc \in Closed BY DEF Idle, Closed, Startup
  <2>6. pc' = "ready" => pc = "ready" \/ pc \in Startup BY DEF Idle, Startup
  <2> QED BY <1>1, <1>2, <2>1, <2>2, <2>3, <2>4, <2>5, <2>6 DEF StepInv, Open
<1>5. pc' \notin Broken \cup Startup \cup {"panicked", "ready", "done"} => pc' = pc
  BY DEF Idle, Broken
<1>6. Open => pc' = pc \/ (pc \in Broken /\ pc' \in Broken) \/ pc' = "off"
  BY <1>1 DEF Idle, StepInv, Closed, Startup, Broken
<1>7. PartInv'
  <2>1. Opening' => Opening BY <1>2, <1>5 DEF Opening, Broken, Startup
  <2>2. part \in Nat /\ taken \in Nat BY <1>1 DEF Types, WriterTypes
  <2> HIDE DEF Opening
  <2> QED BY <1>1, <1>2, <2>1, <2>2, Sizes, SMT DEF PartInv
<1>8. OpenInv'
  <2> USE DEF Open, Current
  <2>1. CASE pc' = pc BY <1>1, <1>2, <2>1 DEF OpenInv
  <2>2. CASE pc' \in Broken
    <3>1. pc' \notin Opened \cup {"ready"} BY <2>2 DEF Broken, Opened
    <3>2. pc' \notin {"sync checkpoint", "sync final", "header", "space"} BY <2>2 DEF Broken
    <3> QED BY <1>1, <1>2, <2>2, <3>1, <3>2 DEF OpenInv
  <2>3. CASE ~Open BY <1>2, <2>3 DEF OpenInv
  <2> QED BY <1>6, <2>1, <2>2, <2>3 DEF Broken
<1>9. SinceInv'
  <2>1. pc' \in Carrying \cup {"ready"} /\ Open => pc' = pc BY <1>6 DEF Carrying, Broken
  <2> QED BY <1>1, <1>2, <2>1 DEF SinceInv, Open, Current
<1>10. BlockInv'
  <2>1. pc' = "data" => pc' = pc BY <1>5 DEF Broken, Startup
  <2>2. pc' \notin Carrying \cup {"off"} => pc \notin Carrying \cup {"off"}
    BY DEF Idle, Carrying, Startup
  <2> QED BY <1>1, <1>2, <2>1, <2>2 DEF BlockInv, Current, FitsHeader
<1>11. SummaryInv' BY <1>1, <1>2 DEF SummaryInv, Lost, Open, Current
<1>12. SafeInv' BY <1>1, <1>2 DEF SafeInv
<1>13. HeldInv'
  <2>1. pc' \notin Broken => pc \notin Broken BY DEF Idle, Broken, Startup
  <2> QED BY <1>1, <1>2, <2>1 DEF HeldInv, InHand
<1>14. EndInv'
  <2>1. pc = "done" => ~Open /\ Covers(summary, owed, Start, taken)
    <3> SUFFICES ASSUME pc = "done" PROVE ~Open /\ Covers(summary, owed, Start, taken) OBVIOUS
    <3>1. ~Open BY <1>1 DEF StepInv, Closed
    <3>2. block = <<>> BY <1>1 DEF BlockInv, Carrying
    <3>3. InHand = 0 BY <3>1, <3>2, SMT DEF InHand, Open, NoWriter
    <3>4. PICK last \in Start .. taken : Covers(summary, owed, Start, last) /\ last + InHand = taken
      BY <1>1 DEF HeldInv, EndInv, Broken
    <3>5. last = taken BY <1>1, <3>3, <3>4, SMT DEF Types, WriterTypes
    <3> QED BY <3>1, <3>4, <3>5
  <2>2. pc \in {"done", "off"} => pc' \in {"done", "off"} BY DEF Idle, Startup
  <2>3. pc' = "done" => main' # "lost"
    <3>1. pc' = "done" => pc \in {"done", "stopped"} BY DEF Idle, Startup
    <3> QED BY <1>1, <1>2, <3>1 DEF StepInv, Ended
  <2>4. outcome' = "success" \/ exit' = 0 =>
          outcome = "success" \/ exit = 0 \/ (pc = "done" /\ pc' = "done")
    BY DEF Idle
  <2> QED BY <1>1, <1>2, <2>1, <2>2, <2>3, <2>4 DEF EndInv, Open
<1> QED BY <1>3, <1>4, <1>7, <1>8, <1>9, <1>10, <1>11, <1>12, <1>13, <1>14 DEF SessionInv

-----------------------------------------------------------------------------
(* Every behaviour starts in the invariant.                                *)
LEMMA InitSession ==
  ASSUME Init
  PROVE  SessionInv
<1> USE DEF Init, SegmentsInit, FreshProcess
<1>0. Start = 0 BY SMT DEF Start
<1>1. FileTypes
  <2>1. DOMAIN files = {} /\ DOMAIN owed = {} BY SMT
  <2>2. IsFiniteSet({}) BY FS_EmptySet
  <2>3. files = [n \in {} |-> files[n]] /\ owed = [n \in {} |-> owed[n]] BY SMT
  <2> QED BY <2>1, <2>2, <2>3 DEF FileTypes
<1>2. NoWriter \in Writers /\ ~Open BY DEF Writers, RateOrNone, NoWriter, Open
<1>3. summary \in Seq(Entries) /\ block \in Seq(Nat) /\ Len(summary) = 0 /\ Len(block) = 0 BY SMT
<1>4. WriterTypes
  <2>1. 0 \in Nat /\ 0 <= 0 /\ 0 <= MaxUnits BY Sizes, SMT
  <2>2. meta \in RateOrNone BY DEF RateOrNone
  <2> QED BY <1>0, <1>2, <1>3, <2>1, <2>2, Zenon DEF WriterTypes
<1>5. ProcessTypes
  <2>1. status \in Statuses BY DEF Starting, Status, Statuses
  <2> QED BY <2>1 DEF ProcessTypes, Steps, Closed, Startup
<1>6. StepInv BY <1>0, <1>2 DEF StepInv, Opened, Ended
<1>7. PartInv BY Sizes, SMT DEF PartInv, Opening
<1>8. OpenInv /\ SinceInv BY <1>2 DEF OpenInv, SinceInv
<1>9. BlockInv
  <2>1. 1 .. Len(block) = {} BY <1>3, SMT
  <2> QED BY <2>1 DEF BlockInv
<1>10. SummaryInv /\ SafeInv
  <2>1. 1 .. Len(summary) = {} BY <1>3, SMT
  <2> QED BY <2>1 DEF SummaryInv, SafeInv
<1>11. HeldInv
  <2>1. InHand = 0 BY <1>3, SMT DEF InHand, NoWriter
  <2>2. Covers(summary, owed, Start, 0)
    <3>1. 0 \in Nat OBVIOUS
    <3>2. Covers(<<>>, owed, 0, 0) BY <3>1, CoversEmpty
    <3> QED BY <1>0, <3>2
  <2>3. 0 \in 0 .. 0 /\ 0 + 0 = 0 BY SMT
  <2> QED BY <1>0, <2>1, <2>2, <2>3 DEF HeldInv
<1>12. EndInv BY DEF EndInv
<1> QED BY <1>1, <1>4, <1>5, <1>6, <1>7, <1>8, <1>9, <1>10, <1>11, <1>12 DEF SessionInv, Types

-----------------------------------------------------------------------------
(* The worker's steps: what all of them keep.                              *)
LEMMA BusyEnds ==
  ASSUME SessionInv, Busy
  PROVE  /\ main' = main /\ main # "lost" /\ from' = from /\ EndInv'
         /\ pc \in {"ready", "create"} \cup Opened
         /\ /\ pc' \in Opened => Open'
            /\ pc' \in Closed => ~Open'
            /\ pc' = "ready" /\ ~Open' => summary' = <<>>
            => StepInv'
<1> USE DEF wavVars, workerVars, mainVars, historyVars, Quiet
<1>1. Types /\ StepInv /\ EndInv BY DEF SessionInv
<1>2. /\ UNCHANGED <<main, outcome, exit, from>>
      /\ pc \in {"ready", "create"} \cup Opened /\ main \notin Ended \cup {"setup", "record"}
  BY <1>1, BusyStep
<1>3. pc' \in {"ready", "create", "stopped", "failed"} \cup Opened
  BY DEF Busy, Receive, TakeMetadata, TakeBlock, Segment, Create, WriteRest, WriteSome, RewriteHeader,
     SyncCheckpoint, SyncFinal, FailIO, StopSeen, TakeStop, OpenNext, OpenSegment,
     PublishSpace, SegmentReady, Opened
<1>4. pc \notin {"done", "off"} /\ pc' # "done" /\ pc' \notin Startup BY <1>2, <1>3 DEF Opened, Startup
<1>5. EndInv' BY <1>1, <1>2, <1>4 DEF EndInv
<1>6. main # "lost" BY <1>2 DEF Ended
<1> QED BY <1>2, <1>4, <1>5, <1>6 DEF StepInv

(* Steps that leave the files as they are.                                 *)
LEMMA FilesSame ==
  ASSUME SessionInv, Busy, UNCHANGED <<files, owed, writer, summary>>
  PROVE  FileTypes' /\ SummaryInv' /\ SafeInv'
<1>1. FileTypes /\ SummaryInv /\ SafeInv BY DEF SessionInv, Types
<1>2. main' = main BY BusyEnds
<1> QED BY <1>1, <1>2 DEF FileTypes, SummaryInv, SafeInv, Lost, Open, Current

LEMMA MetadataKeeps ==
  ASSUME SessionInv, NEW r \in Rates, TakeMetadata(r), Busy, ProcessTypes'
  PROVE  SessionInv'
<1>1. /\ WriterTypes /\ StepInv /\ PartInv /\ OpenInv /\ SinceInv /\ BlockInv /\ HeldInv
  BY DEF SessionInv, Types
<1>2. main' = main /\ main # "lost" /\ UNCHANGED <<from, dropped, Start>> /\ EndInv'
  BY BusyEnds DEF Start, TakeMetadata
<1>3. /\ pc = "ready" /\ ~stopping /\ part < MaxParts /\ meta' = r
      /\ pc' = (IF Open THEN "finalize" ELSE "create")
      /\ UNCHANGED <<files, owed, writer, part, summary, block, stopping, taken>>
  BY DEF TakeMetadata
<1>4. FileTypes' /\ SummaryInv' /\ SafeInv' BY <1>3, FilesSame
<1>5. Open' = Open /\ Current' = Current BY <1>3 DEF Open, Current
<1>6. WriterTypes' BY <1>1, <1>2, <1>3, <1>5 DEF WriterTypes, RateOrNone
<1>7. StepInv' BY <1>3, <1>5, BusyEnds DEF Opened, Closed, Startup
<1>8. PartInv'
  <2>1. part \in Nat /\ taken \in Nat BY <1>1 DEF WriterTypes
  <2> QED BY <1>3, <2>1, Sizes, SMT DEF PartInv
<1>9. OpenInv' BY <1>1, <1>2, <1>3, <1>5 DEF OpenInv, Opened, Broken, FitsHeader
<1>10. SinceInv' BY <1>1, <1>3, <1>5 DEF SinceInv
<1>11. BlockInv'
  <2>1. block = <<>> BY <1>1, <1>3 DEF BlockInv, Carrying
  <2>2. pc' \in Carrying BY <1>3 DEF Carrying
  <2>3. 1 .. Len(block) = {} BY <2>1, SMT
  <2> QED BY <1>3, <2>1, <2>2, <2>3 DEF BlockInv
<1>12. HeldInv'
  <2>1. pc \notin Broken BY <1>3 DEF Broken
  <2> QED BY <1>1, <1>2, <1>3, <2>1 DEF HeldInv, InHand
<1> QED BY <1>2, <1>4, <1>6, <1>7, <1>8, <1>9, <1>10, <1>11, <1>12 DEF SessionInv, Types

LEMMA StopKeeps ==
  ASSUME SessionInv, TakeStop, Busy, ProcessTypes'
  PROVE  SessionInv'
<1>1. /\ WriterTypes /\ StepInv /\ PartInv /\ OpenInv /\ SinceInv /\ BlockInv /\ HeldInv
  BY DEF SessionInv, Types
<1>2. main' = main /\ main # "lost" /\ UNCHANGED <<from, dropped, Start>> /\ EndInv'
  BY BusyEnds DEF Start, TakeStop
<1>3. /\ pc = "ready" /\ ~stopping /\ stopping' = TRUE
      /\ pc' = (IF Open THEN "finalize" ELSE "stopped")
      /\ UNCHANGED <<files, owed, writer, part, summary, meta, block, taken>>
  BY DEF TakeStop
<1>4. FileTypes' /\ SummaryInv' /\ SafeInv' BY <1>3, FilesSame
<1>5. Open' = Open /\ Current' = Current BY <1>3 DEF Open, Current
<1>6. WriterTypes' BY <1>1, <1>2, <1>3, <1>5 DEF WriterTypes
<1>7. StepInv' BY <1>3, <1>5, BusyEnds DEF Opened, Closed, Startup
<1>8. PartInv'
  <2>1. part \in Nat /\ taken \in Nat BY <1>1 DEF WriterTypes
  <2>2. ~Opening' BY <1>3 DEF Opening
  <2>3. part <= MaxParts + taken
    <3>1. ~Opening BY <1>3 DEF Opening
    <3> QED BY <1>1, <2>1, <3>1, Sizes, SMT DEF PartInv
  <2> QED BY <1>3, <2>1, <2>2, <2>3, Sizes, SMT DEF PartInv
<1>9. OpenInv' BY <1>1, <1>2, <1>3, <1>5 DEF OpenInv, Opened, Broken, FitsHeader
<1>10. SinceInv' BY <1>1, <1>3, <1>5 DEF SinceInv
<1>11. BlockInv'
  <2>1. block = <<>> BY <1>1, <1>3 DEF BlockInv, Carrying
  <2>2. 1 .. Len(block) = {} BY <2>1, SMT
  <2> QED BY <1>3, <2>1, <2>2 DEF BlockInv
<1>12. HeldInv'
  <2>1. pc \notin Broken BY <1>3 DEF Broken
  <2> QED BY <1>1, <1>2, <1>3, <2>1 DEF HeldInv, InHand
<1> QED BY <1>2, <1>4, <1>6, <1>7, <1>8, <1>9, <1>10, <1>11, <1>12 DEF SessionInv, Types

LEMMA FailKeeps ==
  ASSUME SessionInv, FailIO, Busy, ProcessTypes'
  PROVE  SessionInv'
<1>1. /\ WriterTypes /\ StepInv /\ PartInv /\ OpenInv /\ SinceInv /\ BlockInv /\ HeldInv
  BY DEF SessionInv, Types
<1>2. main' = main /\ main # "lost" /\ UNCHANGED <<from, dropped, Start>> /\ EndInv'
  BY BusyEnds DEF Start, FailIO
<1>3. /\ pc' = "failed" /\ block' = <<>>
      /\ UNCHANGED <<files, owed, writer, part, summary, meta, stopping, taken>>
  BY DEF FailIO
<1>4. FileTypes' /\ SummaryInv' /\ SafeInv' BY <1>3, FilesSame
<1>5. Open' = Open /\ Current' = Current BY <1>3 DEF Open, Current
<1>6. WriterTypes'
  <2>1. <<>> \in Seq(Nat) BY SMT
  <2> QED BY <1>1, <1>2, <1>3, <1>5, <2>1 DEF WriterTypes
<1>7. StepInv' BY <1>3, <1>5, BusyEnds DEF Opened, Closed, Startup
<1>8. PartInv'
  <2>1. part \in Nat /\ taken \in Nat BY <1>1 DEF WriterTypes
  <2>2. ~Opening' BY <1>3 DEF Opening
  <2>3. part <= MaxParts + taken
    <3> HIDE DEF Opening
    <3> QED BY <1>1, <2>1, Sizes, SMT DEF PartInv
  <2> QED BY <1>3, <2>1, <2>2, <2>3, Sizes, SMT DEF PartInv
<1>9. OpenInv' BY <1>1, <1>2, <1>3, <1>5 DEF OpenInv, Opened, Broken, FitsHeader
<1>10. SinceInv' BY <1>1, <1>3, <1>5 DEF SinceInv, Carrying
<1>11. BlockInv'
  <2>1. 1 .. Len(block') = {} BY <1>3, SMT
  <2> QED BY <1>3, <2>1 DEF BlockInv
<1>12. HeldInv'
  <2>1. pc' \in Broken BY <1>3 DEF Broken
  <2> QED BY <1>1, <1>2, <1>3, <2>1 DEF HeldInv
<1> QED BY <1>2, <1>4, <1>6, <1>7, <1>8, <1>9, <1>10, <1>11, <1>12 DEF SessionInv, Types

LEMMA ReadyKeeps ==
  ASSUME SessionInv, SegmentReady, Busy, ProcessTypes'
  PROVE  SessionInv'
<1>1. /\ WriterTypes /\ StepInv /\ PartInv /\ OpenInv /\ SinceInv /\ BlockInv /\ HeldInv
  BY DEF SessionInv, Types
<1>2. main' = main /\ main # "lost" /\ UNCHANGED <<from, dropped, Start>> /\ EndInv'
  BY BusyEnds DEF Start, SegmentReady
<1>3. /\ pc = "space" /\ pc' = (IF block = <<>> THEN "ready" ELSE "data")
      /\ UNCHANGED <<files, owed, writer, part, summary, meta, block, stopping, taken>>
  BY DEF SegmentReady
<1>4. FileTypes' /\ SummaryInv' /\ SafeInv' BY <1>3, FilesSame
<1>5. Open' = Open /\ Current' = Current BY <1>3 DEF Open, Current
<1>6. WriterTypes' BY <1>1, <1>2, <1>3, <1>5 DEF WriterTypes
<1>7. StepInv' BY <1>1, <1>3, <1>5, BusyEnds DEF StepInv, Opened, Closed, Startup
<1>8. PartInv' BY <1>1, <1>3 DEF PartInv, Opening
<1>9. OpenInv' BY <1>1, <1>2, <1>3, <1>5 DEF OpenInv, Opened, Broken, FitsHeader
<1>10. SinceInv' BY <1>1, <1>3, <1>5 DEF SinceInv, Carrying
<1>11. BlockInv'
  <2>1. writer.offset = 0 /\ writer.bytes = 0
    <3>1. Open BY <1>1, <1>3 DEF StepInv, Opened
    <3> QED BY <1>1, <1>2, <1>3, <3>1 DEF OpenInv, Broken
  <2>2. block # <<>> => Len(block) \in BlockSizes
    <3>1. Len(block) \in Nat BY <1>1 DEF WriterTypes
    <3>2. writer.offset - writer.bytes + Len(block) = Len(block) BY <2>1, <3>1, SMT
    <3> QED BY <1>1, <3>2 DEF BlockInv
  <2>3. block # <<>> => FitsHeader(writer.offset + Len(block))
    BY <2>1, <2>2, Sizes, SMT DEF FitsHeader
  <2>4. writer.bytes + 1 .. writer.offset = {} BY <2>1, SMT
  <2>5. pc' \in Carrying \cup {"ready"} /\ (pc' = "ready" => block = <<>>) BY <1>3 DEF Carrying
  <2>6. pc' = "data" => block # <<>> BY <1>3
  <2>7. FitsHeader(writer.offset + Len(block))' <=> FitsHeader(writer.offset + Len(block))
    BY <1>3 DEF FitsHeader
  <2>8. /\ block # <<>> => writer.offset - writer.bytes + Len(block) \in BlockSizes
        /\ stopping => block = <<>>
        /\ \A k \in 1 .. Len(block) : block[k] + Len(block) = taken + k
    BY <1>1 DEF BlockInv
  <2> QED BY <1>3, <2>3, <2>4, <2>5, <2>6, <2>7, <2>8 DEF BlockInv
<1>12. HeldInv'
  <2>1. pc \notin Broken BY <1>3 DEF Broken
  <2> QED BY <1>1, <1>2, <1>3, <2>1 DEF HeldInv, InHand
<1> QED BY <1>2, <1>4, <1>6, <1>7, <1>8, <1>9, <1>10, <1>11, <1>12 DEF SessionInv, Types

LEMMA OpenBlockKeeps ==
  ASSUME SessionInv, NEW n \in BlockSizes, TakeBlock(n), Open, Busy, ProcessTypes'
  PROVE  SessionInv'
<1>1. /\ WriterTypes /\ StepInv /\ PartInv /\ OpenInv /\ SinceInv /\ BlockInv /\ HeldInv
  BY DEF SessionInv, Types
<1>2. main' = main /\ main # "lost" /\ UNCHANGED <<from, dropped, Start>> /\ EndInv'
  BY BusyEnds DEF Start, TakeBlock
<1>3. /\ pc = "ready" /\ ~stopping /\ Open /\ taken + n <= MaxUnits
      /\ block' = [i \in 1 .. n |-> taken + i] /\ taken' = taken + n /\ meta' = writer.rate
      /\ pc' = (IF WouldOverflow(n) THEN "finalize" ELSE "data")
      /\ UNCHANGED <<files, owed, writer, part, summary, stopping>>
  BY DEF TakeBlock
<1>4. FileTypes' /\ SummaryInv' /\ SafeInv' BY <1>3, FilesSame
<1>5. Open' = Open /\ Current' = Current BY <1>3 DEF Open, Current
<1>6. /\ n \in Nat /\ n > 0 /\ taken \in Nat /\ part \in Nat /\ Start \in Nat /\ Start <= taken
      /\ writer.offset \in Nat
  BY <1>1, Sizes DEF WriterTypes, Writers
<1>7. /\ block' \in Seq(Nat) /\ Len(block') = n
      /\ \A k \in 1 .. Len(block') : block'[k] + Len(block') = taken' + k
  <2>1. block' = [i \in 1 .. n |-> block'[i]] /\ \A k \in 1 .. n : block'[k] = taken + k BY <1>3
  <2>2. \A k \in 1 .. n : block'[k] \in Nat BY <1>6, <2>1, SMT
  <2>3. block' \in Seq(Nat) /\ Len(block') = n BY <1>6, <2>1, <2>2, MadeSequence
  <2>4. \A k \in 1 .. n : (taken + k) + n = (taken + n) + k BY <1>6, SMT
  <2> QED BY <1>3, <2>1, <2>3, <2>4
<1>8. WriterTypes'
  <2>1. writer.rate \in RateOrNone BY <1>1 DEF WriterTypes, Writers
  <2>2. taken' \in Nat /\ Start <= taken' /\ taken' <= MaxUnits BY <1>3, <1>6, SMT
  <2> QED BY <1>1, <1>2, <1>3, <1>5, <1>7, <2>1, <2>2 DEF WriterTypes
<1>9. StepInv' BY <1>3, <1>5, BusyEnds DEF Opened, Closed, Startup
<1>10. PartInv'
  <2>1. ~Opening BY <1>3 DEF Opening
  <2>2. part <= MaxParts + taken BY <1>1, <1>6, <2>1, Sizes, SMT DEF PartInv
  <2>3. part' = part /\ taken' = taken + n BY <1>3
  <2> HIDE DEF Opening
  <2> QED BY <1>6, <2>2, <2>3, Sizes, SMT DEF PartInv
<1>11. OpenInv' BY <1>1, <1>2, <1>3, <1>5 DEF OpenInv, Opened, Broken, FitsHeader
<1>12. SinceInv' BY <1>1, <1>3, <1>5 DEF SinceInv
<1>13. writer.offset = writer.bytes BY <1>1, <1>2, <1>3 DEF OpenInv, Broken
<1>14. BlockInv'
  <2>1. writer.offset - writer.bytes + Len(block') = n BY <1>6, <1>7, <1>13, SMT
  <2>2. writer.bytes + 1 .. writer.offset = {} BY <1>6, <1>13, SMT
  <2>3. pc' = "data" => FitsHeader(writer.offset + Len(block'))
    BY <1>3, <1>7, <1>13 DEF WouldOverflow, FitsHeader
  <2>4. block' # <<>>
    <3>1. Len(<<>>) = 0 BY SMT
    <3> QED BY <1>6, <1>7, <3>1
  <2>5. pc' \in Carrying BY <1>3 DEF Carrying
  <2> QED BY <1>3, <1>7, <2>1, <2>2, <2>3, <2>4, <2>5 DEF BlockInv, FitsHeader
<1>15. HeldInv'
  <2>1. pc \notin Broken BY <1>3 DEF Broken
  <2>2. PICK last \in Start .. taken : Covers(summary, owed, Start, last) /\ last + InHand = taken
    BY <1>1, <1>2, <2>1 DEF HeldInv
  <2>3. InHand = 0 /\ InHand' = n
    <3>1. block = <<>> BY <1>1, <1>3 DEF BlockInv, Carrying
    <3>2. Len(block) = 0 /\ writer.offset - writer.bytes = 0 BY <1>6, <1>13, <3>1, SMT
    <3>3. writer' = writer BY <1>3
    <3> QED BY <1>6, <1>7, <3>2, <3>3, SMT DEF InHand
  <2>4. last \in Start .. taken' /\ last + InHand' = taken' BY <1>3, <1>6, <2>2, <2>3, SMT
  <2>5. Covers(summary, owed, Start, last)' BY <1>2, <1>3, <2>2 DEF Covers
  <2> QED BY <1>2, <2>4, <2>5 DEF HeldInv
<1> QED BY <1>2, <1>4, <1>8, <1>9, <1>10, <1>11, <1>12, <1>14, <1>15 DEF SessionInv, Types

(* With no segment open the block is dropped: the summary is still empty,  *)
(* so what a segment must hold starts behind the block.                    *)
LEMMA DroppedBlockKeeps ==
  ASSUME SessionInv, NEW n \in BlockSizes, TakeBlock(n), ~Open, Busy, ProcessTypes'
  PROVE  SessionInv'
<1>1. /\ WriterTypes /\ StepInv /\ PartInv /\ OpenInv /\ SinceInv /\ BlockInv /\ HeldInv
  BY DEF SessionInv, Types
<1>2. main' = main /\ main # "lost" /\ from' = from /\ EndInv' BY BusyEnds
<1>3. /\ pc = "ready" /\ ~stopping /\ taken + n <= MaxUnits
      /\ taken' = taken + n /\ dropped' = dropped + n
      /\ UNCHANGED <<files, owed, writer, part, summary, stopping, pc, meta, block>>
  BY DEF TakeBlock
<1>4. FileTypes' /\ SummaryInv' /\ SafeInv' BY <1>3, FilesSame
<1>5. Open' = Open /\ Current' = Current BY <1>3 DEF Open, Current
<1>6. /\ n \in Nat /\ taken \in Nat /\ part \in Nat /\ from \in Nat /\ dropped \in Nat
      /\ summary = <<>> /\ block = <<>>
  BY <1>1, <1>3, Sizes DEF WriterTypes, StepInv, BlockInv, Carrying
<1>7. Start = taken
  <2>1. PICK last \in Start .. taken : Covers(summary, owed, Start, last) /\ last + InHand = taken
    BY <1>1, <1>2, <1>3 DEF HeldInv, Broken
  <2>2. InHand = 0
    <3>1. Len(block) = 0 BY <1>6, SMT
    <3>2. writer.offset = 0 /\ writer.bytes = 0 BY DEF Open, NoWriter
    <3> QED BY <3>1, <3>2, SMT DEF InHand
  <2>3. last = Start
    <3>1. Len(summary) + 1 = 1 BY <1>6, SMT
    <3> QED BY <2>1, <3>1 DEF Covers
  <2>4. Start \in Nat BY <1>1 DEF WriterTypes
  <2> QED BY <1>6, <2>1, <2>2, <2>3, <2>4, SMT
<1>8. Start' = taken' /\ taken' \in Nat /\ dropped' \in Nat
  <2>1. Start' = (from + dropped) + n BY <1>2, <1>3, <1>6, SMT DEF Start
  <2> QED BY <1>3, <1>6, <1>7, <2>1, SMT DEF Start
<1>9. WriterTypes'
  <2>1. taken' <= taken' BY <1>8, SMT
  <2> QED BY <1>1, <1>2, <1>3, <1>5, <1>8, <2>1 DEF WriterTypes
<1>10. StepInv' BY <1>3, <1>6, BusyEnds DEF Opened, Closed, Startup
<1>11. PartInv'
  <2>1. ~Opening /\ ~Opening' BY <1>3 DEF Opening
  <2>2. part <= MaxParts + taken BY <1>1, <1>6, <2>1, Sizes, SMT DEF PartInv
  <2>3. part' = part /\ taken' = taken + n BY <1>3
  <2> HIDE DEF Opening
  <2> QED BY <1>6, <2>1, <2>2, <2>3, Sizes, SMT DEF PartInv
<1>12. OpenInv' /\ SinceInv' BY <1>5 DEF OpenInv, SinceInv
<1>13. BlockInv'
  <2>1. 1 .. Len(block) = {} BY <1>6, SMT
  <2> QED BY <1>3, <1>6, <2>1 DEF BlockInv
<1>14. HeldInv'
  <2>1. Covers(<<>>, owed, taken', taken') BY <1>8, CoversEmpty
  <2>2. Covers(summary, owed, Start, taken)' BY <1>3, <1>6, <1>8, <2>1
  <2>3. InHand' = 0
    <3>1. Len(block') = 0 BY <1>3, <1>6, SMT
    <3>2. writer'.offset = 0 /\ writer'.bytes = 0 BY <1>3 DEF Open, NoWriter
    <3> QED BY <3>1, <3>2, SMT DEF InHand
  <2>4. \A t \in Nat : t \in t .. t /\ t + 0 = t BY SMT
  <2> QED BY <1>8, <2>2, <2>3, <2>4 DEF HeldInv
<1> QED BY <1>2, <1>4, <1>9, <1>10, <1>11, <1>12, <1>13, <1>14 DEF SessionInv, Types

LEMMA FitsIsHeader ==
  ASSUME NEW b \in Nat, FitsHeader(b)
  PROVE  b \in Headers /\ b # NoHeader
  BY Sizes, SMT DEF FitsHeader, Headers, NoHeader

(* What rewriting a header and a sync do to a file.                        *)
LEMMA WithHeaderFacts ==
  ASSUME NEW f \in Segments, NEW h \in Headers
  PROVE  /\ WithHeader(f, h) \in Segments /\ WithHeader(f, h).data = f.data
         /\ WithHeader(f, h).header = h /\ WithHeader(f, h).named = f.named
         /\ WithHeader(f, h).safe = f.safe
<1>1. f.headers \cup {h} \in SUBSET Headers BY DEF Segments
<1> QED BY <1>1 DEF WithHeader, Segments

LEMMA SyncedFacts ==
  ASSUME NEW f \in Segments
  PROVE  /\ Synced(f) \in Segments /\ Synced(f).data = f.data /\ Synced(f).header = f.header
         /\ Synced(f).named = TRUE
         /\ Synced(f).safe.header = f.header /\ Synced(f).safe.len = Len(f.data)
<1>1. f.header \in Headers /\ Len(f.data) \in Nat BY SMT DEF Segments
<1>2. {f.header} \in SUBSET Headers BY <1>1
<1>3. [header |-> f.header, len |-> Len(f.data)] \in [header : Headers, len : Nat] BY <1>1
<1> QED BY <1>2, <1>3 DEF Synced, Segments

-----------------------------------------------------------------------------
(* A new segment.                                                          *)
LEMMA CreateKeeps ==
  ASSUME SessionInv, NEW t \in Times, Create(t), Busy, ProcessTypes'
  PROVE  SessionInv'
<1> DEFINE name == FreeName(t, part')
<1>1. /\ FileTypes /\ WriterTypes /\ StepInv /\ PartInv /\ SinceInv /\ BlockInv /\ SummaryInv /\ SafeInv
      /\ HeldInv
  BY DEF SessionInv, Types
<1>2. main' = main /\ main # "lost" /\ UNCHANGED <<from, dropped, Start>> /\ EndInv'
  BY BusyEnds DEF Start, Create
<1>3. /\ pc = "create" /\ pc' = "header" /\ part' = part + 1
      /\ files' = Extended(files, name, EmptyFile) /\ owed' = Extended(owed, name, <<>>)
      /\ writer' = [NoWriter EXCEPT !.name = name, !.rate = meta]
      /\ UNCHANGED <<summary, meta, block, stopping, taken>>
  BY DEF Create
<1>4. part \in Nat /\ part' \in Nat /\ taken \in Nat BY <1>1, <1>3, SMT DEF WriterTypes
<1>5. name \in FileNames /\ name \notin DOMAIN files BY <1>1, <1>4, NameIsFree
<1> HIDE DEF name
<1>6. /\ DOMAIN files' = DOMAIN files \cup {name} /\ DOMAIN owed' = DOMAIN files \cup {name}
      /\ files'[name] = EmptyFile /\ owed'[name] = <<>>
      /\ \A m \in DOMAIN files : files'[m] = files[m] /\ owed'[m] = owed[m]
      /\ files' = [m \in DOMAIN files \cup {name} |-> files'[m]]
      /\ owed' = [m \in DOMAIN files \cup {name} |-> owed'[m]]
  BY <1>1, <1>3, <1>5 DEF Extended, FileTypes
<1>7. /\ EmptyFile \in Segments /\ EmptyFile.safe.len = 0 /\ Len(EmptyFile.data) = 0
      /\ <<>> \in Seq(Nat) /\ Len(<<>>) = 0
  BY Sizes, SMT DEF EmptyFile, Segments
<1>8. FileTypes'
  <2>1. IsFiniteSet(DOMAIN files \cup {name}) BY <1>1, FS_AddElement DEF FileTypes
  <2>2. \A m \in DOMAIN files \cup {name} :
           files'[m] \in Segments /\ owed'[m] \in Seq(Nat) /\ files'[m].safe.len <= Len(files'[m].data)
    <3>1. \A m \in DOMAIN files :
             files[m] \in Segments /\ owed[m] \in Seq(Nat) /\ files[m].safe.len <= Len(files[m].data)
      BY <1>1 DEF FileTypes
    <3>2. 0 <= 0 OBVIOUS
    <3> QED BY <1>6, <1>7, <3>1, <3>2
  <2>3. DOMAIN files' \subseteq FileNames BY <1>1, <1>5, <1>6 DEF FileTypes
  <2>4. files' \in [DOMAIN files' -> Segments] /\ owed' \in [DOMAIN files' -> Seq(Nat)]
    BY <1>6, <2>2
  <2> QED BY <1>6, <2>1, <2>2, <2>3, <2>4 DEF FileTypes
<1>9. /\ writer'.name = name /\ writer'.rate = meta
      /\ writer'.bytes = 0 /\ writer'.offset = 0 /\ writer'.since = 0 /\ writer' \in Writers
  BY <1>1, <1>3, <1>5 DEF NoWriter, Writers, WriterTypes
<1>10. Open' /\ Current' = name
  <2>1. name # <<>> BY <1>5, NamesAreNotNone
  <2>2. NoWriter.name = <<>> BY DEF NoWriter
  <2> QED BY <1>9, <2>1, <2>2 DEF Open, Current
<1>11. ~Open /\ writer = NoWriter BY <1>1, <1>3 DEF StepInv, Closed, Open
<1>12. WriterTypes' BY <1>1, <1>2, <1>3, <1>4, <1>5, <1>9 DEF WriterTypes
<1>13. StepInv' BY <1>3, <1>10, BusyEnds DEF Closed, Startup
<1>14. PartInv'
  <2>1. Opening /\ ~Opening' BY <1>3 DEF Opening
  <2>2. part + 1 <= MaxParts + taken BY <1>1, <2>1 DEF PartInv
  <2>3. part' = part + 1 /\ taken' = taken BY <1>3
  <2> HIDE DEF Opening
  <2> QED BY <1>4, <2>1, <2>2, <2>3, SMT DEF PartInv
<1>15. \A i \in 1 .. Len(summary) : summary[i].name \in DOMAIN files
  BY <1>1, <1>2 DEF SummaryInv, Lost
<1>16. OpenInv'
  <2>1. \A i \in 1 .. Len(summary) : summary[i].name # name BY <1>5, <1>15
  <2>2. 1 .. 0 = {} BY SMT
  <2>3. FitsHeader(0) BY Sizes
  <2>4. pc' \notin {"sync checkpoint", "sync final"} /\ 0 <= 0 BY <1>3
  <2>5. FitsHeader(writer.bytes)' BY <1>9, <2>3 DEF FitsHeader
  <2> QED BY <1>3, <1>6, <1>7, <1>9, <1>10, <2>1, <2>2, <2>4, <2>5 DEF OpenInv
<1>17. SinceInv'
  <2>1. 0 + 0 = 0 /\ 0 < Window + MaxBlock /\ 0 < Window BY Sizes, MaxBlockIs, SMT
  <2> QED BY <1>6, <1>7, <1>9, <1>10, <2>1 DEF SinceInv
<1>18. BlockInv'
  <2>1. writer.offset - writer.bytes = writer'.offset - writer'.bytes BY <1>9, <1>11 DEF NoWriter
  <2>2. pc \notin {"data"} /\ pc' \in Carrying /\ pc' # "data" BY <1>3 DEF Carrying
  <2> QED BY <1>1, <1>3, <2>1, <2>2 DEF BlockInv
<1>19. SummaryInv'
  <2>1. summary' = summary /\ ~Open /\ main' # "lost" BY <1>2, <1>3, <1>11
  <2>2. ASSUME NEW i \in 1 .. Len(summary)
        PROVE  /\ files'[summary[i].name] = files[summary[i].name]
               /\ owed'[summary[i].name] = owed[summary[i].name]
               /\ summary[i].name \in DOMAIN files'
    BY <1>6, <1>15
  <2> QED BY <1>1, <1>15, <2>1, <2>2 DEF SummaryInv, Lost
<1>20. SafeInv'
  <2>1. ASSUME NEW i \in 1 .. Len(summary)
        PROVE  /\ files'[summary[i].name] = files[summary[i].name]
               /\ owed'[summary[i].name] = owed[summary[i].name]
    BY <1>6, <1>15
  <2> QED BY <1>1, <1>3, <1>15, <2>1 DEF SafeInv
<1>21. HeldInv'
  <2>1. pc \notin Broken BY <1>3 DEF Broken
  <2>2. PICK last \in Start .. taken : Covers(summary, owed, Start, last) /\ last + InHand = taken
    BY <1>1, <1>2, <2>1 DEF HeldInv
  <2>3. InHand' = InHand BY <1>3, <1>9, <1>11 DEF InHand, NoWriter
  <2>4. summary \in Seq(Entries) BY <1>1 DEF WriterTypes
  <2>5. \A i \in 1 .. Len(summary) : owed'[summary[i].name] = owed[summary[i].name] BY <1>6, <1>15
  <2>6. Covers(summary, owed', Start, last) BY <2>2, <2>4, <2>5, CoversSame
  <2>7. Covers(summary, owed, Start, last)' BY <1>2, <1>3, <2>6 DEF Covers
  <2> QED BY <1>2, <1>3, <2>2, <2>3, <2>7 DEF HeldInv
<1> QED BY <1>2, <1>8, <1>12, <1>13, <1>14, <1>16, <1>17, <1>18, <1>19, <1>20, <1>21 DEF SessionInv, Types

LEMMA OpenKeeps ==
  ASSUME SessionInv, OpenSegment, Busy, ProcessTypes'
  PROVE  SessionInv'
<1> DEFINE e == [name |-> Current, rate |-> writer.rate, units |-> 0]
           f == WithHeader(EmptyFile, 0)
<1>1. /\ FileTypes /\ WriterTypes /\ StepInv /\ PartInv /\ OpenInv /\ SinceInv /\ BlockInv
      /\ SummaryInv /\ SafeInv /\ HeldInv
  BY DEF SessionInv, Types
<1>2. main' = main /\ main # "lost" /\ UNCHANGED <<from, dropped, Start>> /\ EndInv'
  BY BusyEnds DEF Start, OpenSegment
<1>3. /\ pc = "header" /\ pc' = "space" /\ summary' = Append(summary, e)
      /\ files' = [files EXCEPT ![Current] = WithHeader(files[Current], 0)]
      /\ UNCHANGED <<owed, writer, part, meta, block, stopping, taken>>
  BY DEF OpenSegment, PushSegment
<1>4. Open /\ Current \in DOMAIN files /\ Current \in FileNames
  BY <1>1, <1>2, <1>3 DEF StepInv, Opened, OpenInv, FileTypes
<1>5. /\ files[Current] = EmptyFile /\ writer.offset = 0 /\ writer.bytes = Len(owed[Current])
      /\ writer.bytes <= writer.offset
      /\ \A i \in 1 .. Len(summary) : summary[i].name # Current
  BY <1>1, <1>2, <1>3, <1>4 DEF OpenInv
<1>6. owed[Current] \in Seq(Nat) /\ writer \in Writers /\ summary \in Seq(Entries)
  BY <1>1, <1>4 DEF FileTypes, WriterTypes
<1>7. writer.bytes = 0 /\ owed[Current] = <<>>
  <2>1. writer.bytes \in Nat BY <1>6 DEF Writers
  <2>2. writer.bytes = 0 BY <1>5, <2>1, SMT
  <2> QED BY <1>5, <1>6, <2>2, EmptySeq
<1>8. Open' = Open /\ Current' = Current BY <1>3 DEF Open, Current
<1>9. /\ f \in Segments /\ f.header = 0 /\ f.data = <<>> /\ Len(f.data) = 0
      /\ f.safe.len = 0 /\ f.safe.header = NoHeader
  <2>1. /\ EmptyFile \in Segments /\ EmptyFile.data = <<>>
        /\ EmptyFile.safe.len = 0 /\ EmptyFile.safe.header = NoHeader
    <3>1. <<>> \in Seq(Nat) /\ 0 \in Nat BY SMT
    <3> QED BY <3>1, Sizes DEF EmptyFile, Segments
  <2>2. Len(<<>>) = 0 BY SMT
  <2> QED BY <2>1, <2>2, Sizes, WithHeaderFacts
<1> HIDE DEF f
<1>10. /\ DOMAIN files' = DOMAIN files /\ files'[Current] = f
       /\ \A n \in DOMAIN files : n # Current => files'[n] = files[n]
       /\ files' = [n \in DOMAIN files |-> files'[n]]
  BY <1>1, <1>3, <1>4, <1>5 DEF FileTypes, f
<1>11. FileTypes'
  <2>1. \A n \in DOMAIN files : files'[n] \in Segments /\ files'[n].safe.len <= Len(files'[n].data)
    <3>1. \A n \in DOMAIN files : files[n] \in Segments /\ files[n].safe.len <= Len(files[n].data)
      BY <1>1 DEF FileTypes
    <3>2. 0 <= 0 OBVIOUS
    <3> QED BY <1>9, <1>10, <3>1, <3>2
  <2> QED BY <1>1, <1>3, <1>10, <2>1 DEF FileTypes
<1>12. e \in Entries /\ e.name = Current /\ e.units = 0 BY <1>4, <1>6 DEF Entries, Writers
<1> HIDE DEF e
<1>13. /\ summary' \in Seq(Entries) /\ Len(summary') = Len(summary) + 1 /\ Len(summary) \in Nat
       /\ summary'[Len(summary) + 1] = e
       /\ \A i \in 1 .. Len(summary) : summary'[i] = summary[i]
  BY <1>3, <1>6, <1>12, AppendFacts
<1>14. /\ \A i \in 1 .. Len(summary') : i \in 1 .. Len(summary) \/ i = Len(summary) + 1
       /\ Len(summary') > 0
  BY <1>13, SMT
<1>15. WriterTypes' BY <1>1, <1>2, <1>3, <1>8, <1>13 DEF WriterTypes
<1>16. StepInv' BY <1>3, <1>4, <1>8, BusyEnds DEF Closed, Startup
<1>17. PartInv' BY <1>1, <1>3 DEF PartInv, Opening
<1>18. OpenInv'
  <2>1. 1 .. 0 = {} BY SMT
  <2>2. FitsHeader(writer.bytes)' BY <1>3, <1>7, Sizes DEF FitsHeader
  <2>3. pc' \notin {"sync checkpoint", "sync final", "header"} BY <1>3
  <2>4. Len(summary') > 0 /\ summary'[Len(summary')].name = Current BY <1>12, <1>13, <1>14
  <2>5. 0 <= 0 OBVIOUS
  <2>6. Len(owed'[Current]) = 0 BY <1>3, <1>5, <1>7
  <2> QED BY <1>3, <1>4, <1>5, <1>7, <1>8, <1>9, <1>10, <2>1, <2>2, <2>3, <2>4, <2>5, <2>6 DEF OpenInv
<1>19. SinceInv'
  <2>1. files[Current].safe.len = files'[Current].safe.len
    BY <1>5, <1>9, <1>10 DEF EmptyFile
  <2> QED BY <1>1, <1>3, <1>4, <1>8, <1>10, <2>1 DEF SinceInv, Carrying
<1>20. BlockInv' BY <1>1, <1>3 DEF BlockInv, Carrying
<1>21. \A i \in 1 .. Len(summary) : summary[i].name \in DOMAIN files /\ summary[i].name # Current
  BY <1>1, <1>2, <1>5 DEF SummaryInv, Lost
<1>22. \A i \in 1 .. Len(summary) : files'[summary[i].name] = files[summary[i].name]
  BY <1>10, <1>21
<1>23. SummaryInv'
  <2>1. main' # "lost" /\ owed' = owed BY <1>2, <1>3
  <2>2. ASSUME NEW i \in 1 .. Len(summary'), NEW j \in 1 .. Len(summary'),
               summary'[i].name = summary'[j].name
        PROVE  i = j
    <3>1. CASE i \in 1 .. Len(summary) /\ j \in 1 .. Len(summary)
      BY <1>1, <1>13, <2>2, <3>1 DEF SummaryInv
    <3>2. CASE i = Len(summary) + 1 \/ j = Len(summary) + 1
      BY <1>12, <1>13, <1>14, <1>21, <2>2, <3>2
    <3> QED BY <1>14, <3>1, <3>2
  <2>3. ASSUME NEW i \in 1 .. Len(summary')
        PROVE  /\ summary'[i].name \in DOMAIN files'
               /\ summary'[i].units = Len(owed'[summary'[i].name])
               /\ files'[summary'[i].name].header <= Len(owed'[summary'[i].name])
    <3>1. CASE i \in 1 .. Len(summary)
      BY <1>1, <1>2, <1>10, <1>13, <1>21, <1>22, <2>1, <3>1 DEF SummaryInv, Lost
    <3>2. CASE i = Len(summary) + 1
      <4>1. Len(owed'[Current]) = 0 /\ 0 <= 0 BY <1>5, <1>7, <2>1
      <4>2. summary'[i].name = Current /\ summary'[i].units = 0 BY <1>12, <1>13, <3>2
      <4> QED BY <1>4, <1>9, <1>10, <4>1, <4>2
    <3> QED BY <1>14, <3>1, <3>2
  <2>4. ASSUME NEW i \in 1 .. Len(summary'), ~(Open' /\ summary'[i].name = Current')
        PROVE  /\ files'[summary'[i].name].named
               /\ files'[summary'[i].name].header = Len(files'[summary'[i].name].data)
               /\ files'[summary'[i].name].data = owed'[summary'[i].name]
    <3>1. i \in 1 .. Len(summary) BY <1>4, <1>8, <1>12, <1>13, <1>14, <2>4
    <3> QED BY <1>1, <1>13, <1>21, <1>22, <2>1, <3>1 DEF SummaryInv
  <2> QED BY <2>2, <2>3, <2>4 DEF SummaryInv
<1>24. SafeInv'
  <2>1. ASSUME NEW i \in 1 .. Len(summary')
        PROVE  LET g == files'[summary'[i].name]  o == owed'[summary'[i].name] IN
               /\ g.safe.len <= Len(o) /\ \A k \in 1 .. g.safe.len : g.data[k] = o[k]
               /\ g.safe.header # NoHeader => g.safe.header <= g.safe.len
    <3>1. CASE i \in 1 .. Len(summary)
      BY <1>1, <1>3, <1>13, <1>21, <1>22, <3>1 DEF SafeInv
    <3>2. CASE i = Len(summary) + 1
      <4>1. Len(owed'[Current]) = 0 /\ 0 <= 0 /\ 1 .. 0 = {} BY <1>3, <1>5, <1>7, SMT
      <4>2. summary'[i].name = Current BY <1>12, <1>13, <3>2
      <4> QED BY <1>9, <1>10, <4>1, <4>2
    <3> QED BY <1>14, <3>1, <3>2
  <2> QED BY <2>1 DEF SafeInv
<1>25. HeldInv'
  <2>1. pc \notin Broken BY <1>3 DEF Broken
  <2>2. PICK last \in Start .. taken : Covers(summary, owed, Start, last) /\ last + InHand = taken
    BY <1>1, <1>2, <2>1 DEF HeldInv
  <2>3. InHand' = InHand BY <1>3 DEF InHand
  <2>4. Start \in Nat /\ last \in Nat /\ Start <= last
    <3>1. Start \in Nat /\ taken \in Nat BY <1>1 DEF WriterTypes
    <3> QED BY <2>2, <3>1, SMT
  <2>5. Covers(summary', owed, Start, last)
    BY <1>3, <1>6, <1>7, <1>12, <2>2, <2>4, CoversPush
  <2>6. Covers(summary, owed, Start, last)' BY <1>2, <1>3, <2>5 DEF Covers
  <2> QED BY <1>2, <1>3, <2>2, <2>3, <2>6 DEF HeldInv
<1> QED BY <1>2, <1>11, <1>15, <1>16, <1>17, <1>18, <1>19, <1>20, <1>23, <1>24, <1>25 DEF SessionInv, Types

-----------------------------------------------------------------------------
(* A change of the open segment.                                           *)
LEMMA ChangeFile ==
  ASSUME FileTypes, Current \in DOMAIN files, NEW g \in Segments,
         files' = [files EXCEPT ![Current] = g]
  PROVE  /\ DOMAIN files' = DOMAIN files /\ files'[Current] = g
         /\ \A n \in DOMAIN files : n # Current => files'[n] = files[n]
         /\ \A n : n # Current => files'[n] = files[n]
         /\ owed' = owed /\ g.safe.len <= Len(g.data) => FileTypes'
<1>1. /\ DOMAIN files' = DOMAIN files /\ files'[Current] = g
      /\ \A n \in DOMAIN files : n # Current => files'[n] = files[n]
      /\ files' = [n \in DOMAIN files |-> files'[n]]
  BY DEF FileTypes
<1>2. \A n : n # Current => files'[n] = files[n]
  OBVIOUS
<1>3. ASSUME owed' = owed, g.safe.len <= Len(g.data) PROVE FileTypes'
  <2>1. \A n \in DOMAIN files : files'[n] \in Segments /\ files'[n].safe.len <= Len(files'[n].data)
    BY <1>1, <1>3 DEF FileTypes
  <2> QED BY <1>1, <1>3, <2>1 DEF FileTypes
<1> QED BY <1>1, <1>2, <1>3

(* The summary when only its open segment changes.                         *)
LEMMA SummaryKeeps ==
  ASSUME SessionInv, main' # "lost", main # "lost", summary' = summary, Open, Open', Current' = Current,
         DOMAIN files' = DOMAIN files,
         \A n \in DOMAIN files : n # Current => files'[n] = files[n],
         owed' = owed,
         Current \in DOMAIN files,
         files'[Current].header <= Len(owed[Current])
  PROVE  SummaryInv'
<1>1. SummaryInv BY DEF SessionInv
<1>2. \A i \in 1 .. Len(summary) : summary[i].name \in DOMAIN files BY <1>1 DEF SummaryInv, Lost
<1>3. ASSUME NEW i \in 1 .. Len(summary')
      PROVE  /\ summary'[i].name \in DOMAIN files'
             /\ summary'[i].units = Len(owed'[summary'[i].name])
             /\ files'[summary'[i].name].header <= Len(owed'[summary'[i].name])
  <2>1. CASE summary[i].name = Current BY <1>1, <1>2, <2>1 DEF SummaryInv, Lost
  <2>2. CASE summary[i].name # Current
    <3>1. files'[summary[i].name] = files[summary[i].name] BY <1>2, <2>2
    <3> QED BY <1>1, <1>2, <3>1 DEF SummaryInv, Lost
  <2> QED BY <2>1, <2>2
<1>4. ASSUME NEW i \in 1 .. Len(summary'), ~(Open' /\ summary'[i].name = Current')
      PROVE  /\ files'[summary'[i].name].named
             /\ files'[summary'[i].name].header = Len(files'[summary'[i].name].data)
             /\ files'[summary'[i].name].data = owed'[summary'[i].name]
  <2>1. summary[i].name # Current BY <1>4
  <2>2. files'[summary[i].name] = files[summary[i].name] BY <1>2, <2>1
  <2> QED BY <1>1, <2>1, <2>2 DEF SummaryInv
<1>5. \A i \in 1 .. Len(summary') : \A j \in 1 .. Len(summary') :
         summary'[i].name = summary'[j].name => i = j
  BY <1>1 DEF SummaryInv
<1> QED BY <1>3, <1>4, <1>5 DEF SummaryInv

LEMMA SafeKeeps ==
  ASSUME SessionInv, main # "lost", summary' = summary, owed' = owed, DOMAIN files' = DOMAIN files,
         \A n \in DOMAIN files : n # Current => files'[n] = files[n],
         LET g == files'[Current]  o == owed[Current] IN
            (\E i \in 1 .. Len(summary) : summary[i].name = Current) =>
               /\ g.safe.len <= Len(o) /\ \A k \in 1 .. g.safe.len : g.data[k] = o[k]
               /\ g.safe.header # NoHeader => g.safe.header <= g.safe.len
  PROVE  SafeInv'
<1>1. SafeInv BY DEF SessionInv
<1> SUFFICES ASSUME NEW i \in 1 .. Len(summary), summary[i].name \in DOMAIN files
             PROVE  LET g == files'[summary[i].name]  o == owed[summary[i].name] IN
                    /\ g.safe.len <= Len(o) /\ \A k \in 1 .. g.safe.len : g.data[k] = o[k]
                    /\ g.safe.header # NoHeader => g.safe.header <= g.safe.len
  BY DEF SafeInv
<1>2. CASE summary[i].name = Current BY <1>2
<1>3. CASE summary[i].name # Current BY <1>1, <1>3 DEF SafeInv
<1> QED BY <1>2, <1>3

(* What holds of the open segment where the worker writes.                 *)
LEMMA WritingFacts ==
  ASSUME SessionInv, Busy, pc \in Opened
  PROVE  LET f == files[Current] IN
         /\ Open /\ Current \in DOMAIN files /\ Current \in FileNames
         /\ f \in Segments /\ f.data \in Seq(Nat) /\ owed[Current] \in Seq(Nat)
         /\ f.safe.len \in Nat /\ f.safe.len <= Len(f.data)
         /\ writer \in Writers /\ writer.bytes \in Nat /\ writer.offset \in Nat /\ writer.since \in Nat
         /\ writer.bytes = Len(owed[Current]) /\ writer.bytes <= writer.offset
         /\ writer.offset = Len(f.data) /\ FitsHeader(writer.bytes)
         /\ \A k \in 1 .. writer.bytes : f.data[k] = owed[Current][k]
         /\ pc # "data" => writer.offset = writer.bytes
         /\ pc \in {"sync checkpoint", "sync final"} => f.header = writer.bytes
         /\ f.safe.len + writer.since = Len(owed[Current]) /\ writer.since < Window + MaxBlock
         /\ pc \in Carrying => writer.since < Window
         /\ summary \in Seq(Entries) /\ block \in Seq(Nat) /\ taken \in Nat /\ Start \in Nat
         /\ pc # "header" => Len(summary) > 0 /\ summary[Len(summary)].name = Current
<1>1. FileTypes /\ WriterTypes /\ StepInv /\ OpenInv /\ SinceInv BY DEF SessionInv, Types
<1>2. Open /\ main # "lost" BY <1>1, BusyEnds DEF StepInv
<1>3. Current \in DOMAIN files BY <1>1, <1>2 DEF OpenInv
<1>4. /\ Current \in FileNames /\ files[Current] \in Segments /\ owed[Current] \in Seq(Nat)
      /\ files[Current].safe.len <= Len(files[Current].data)
  BY <1>1, <1>3 DEF FileTypes
<1>5. files[Current].data \in Seq(Nat) /\ files[Current].safe.len \in Nat BY <1>4 DEF Segments
<1>6. /\ writer \in Writers /\ writer.bytes \in Nat /\ writer.offset \in Nat /\ writer.since \in Nat
      /\ summary \in Seq(Entries) /\ block \in Seq(Nat) /\ taken \in Nat /\ Start \in Nat
  BY <1>1 DEF WriterTypes, Writers
<1>7. /\ writer.bytes = Len(owed[Current]) /\ writer.bytes <= writer.offset
      /\ writer.offset = Len(files[Current].data) /\ FitsHeader(writer.bytes)
      /\ \A k \in 1 .. writer.bytes : files[Current].data[k] = owed[Current][k]
      /\ pc # "data" => writer.offset = writer.bytes
      /\ pc \in {"sync checkpoint", "sync final"} => files[Current].header = writer.bytes
      /\ pc # "header" => Len(summary) > 0 /\ summary[Len(summary)].name = Current
  BY <1>1, <1>2 DEF OpenInv, Opened, Broken
<1>8. /\ files[Current].safe.len + writer.since = Len(owed[Current]) /\ writer.since < Window + MaxBlock
      /\ pc \in Carrying => writer.since < Window
  BY <1>1, <1>2, <1>3 DEF SinceInv
<1> QED BY <1>2, <1>3, <1>4, <1>5, <1>6, <1>7, <1>8

LEMMA RewriteKeeps ==
  ASSUME SessionInv, RewriteHeader, Busy, ProcessTypes'
  PROVE  SessionInv'
<1> DEFINE f == files[Current]
           g == WithHeader(f, writer.bytes)
<1>1. /\ FileTypes /\ WriterTypes /\ StepInv /\ PartInv /\ OpenInv /\ SinceInv /\ BlockInv /\ HeldInv
      /\ SafeInv
  BY DEF SessionInv, Types
<1>2. main' = main /\ main # "lost" /\ UNCHANGED <<from, dropped, Start>> /\ EndInv'
  BY BusyEnds DEF Start, RewriteHeader
<1>3. /\ pc \in {"checkpoint", "finalize"} /\ FitsHeader(writer.bytes)
      /\ files' = [files EXCEPT ![Current] = g]
      /\ pc' = (IF pc = "checkpoint" THEN "sync checkpoint" ELSE "sync final")
      /\ UNCHANGED <<owed, writer, part, summary, meta, block, stopping, taken>>
  BY DEF RewriteHeader
<1>4. /\ Open /\ Current \in DOMAIN files /\ Current \in FileNames
      /\ f \in Segments /\ f.safe.len <= Len(f.data) /\ writer.bytes \in Nat
      /\ writer.bytes = Len(owed[Current]) /\ writer.offset = writer.bytes
      /\ writer.offset = Len(f.data) /\ \A k \in 1 .. writer.bytes : f.data[k] = owed[Current][k]
      /\ Len(summary) > 0 /\ summary[Len(summary)].name = Current
  <2>1. pc \in Opened /\ pc # "data" /\ pc # "header" BY <1>3 DEF Opened
  <2> HIDE DEF f
  <2> QED BY <2>1, WritingFacts DEF f
<1>5. writer.bytes \in Headers BY <1>3, <1>4, FitsIsHeader
<1>6. g \in Segments /\ g.data = f.data /\ g.header = writer.bytes /\ g.safe = f.safe
  BY <1>4, <1>5, WithHeaderFacts
<1>7. g.safe.len <= Len(g.data) /\ owed' = owed BY <1>3, <1>4, <1>6
<1> HIDE DEF g
<1>8. /\ DOMAIN files' = DOMAIN files /\ files'[Current] = g
      /\ \A n \in DOMAIN files : n # Current => files'[n] = files[n]
      /\ FileTypes'
  BY <1>1, <1>3, <1>4, <1>6, <1>7, ChangeFile
<1>9. Open' = Open /\ Current' = Current BY <1>3 DEF Open, Current
<1>10. WriterTypes' BY <1>1, <1>2, <1>3, <1>9 DEF WriterTypes
<1>11. StepInv' BY <1>3, <1>4, <1>9, BusyEnds DEF Closed, Startup
<1>12. PartInv' BY <1>1, <1>3 DEF PartInv, Opening
<1>13. OpenInv'
  <2>1. pc' \notin {"header", "space"} BY <1>3
  <2>2. writer.bytes <= writer.bytes BY <1>4
  <2> QED BY <1>3, <1>4, <1>6, <1>8, <1>9, <2>1, <2>2, ZenonT(40) DEF OpenInv, FitsHeader
<1>14. SinceInv' BY <1>1, <1>3, <1>4, <1>6, <1>8, <1>9 DEF SinceInv, Carrying
<1>15. BlockInv'
  <2>1. pc' \notin Carrying \cup {"off"} => pc \notin Carrying \cup {"off"} BY <1>3 DEF Carrying
  <2>2. pc' # "data" BY <1>3
  <2> QED BY <1>1, <1>3, <2>1, <2>2 DEF BlockInv
<1>16. SummaryInv'
  <2>1. files'[Current].header <= Len(owed[Current]) BY <1>4, <1>6, <1>8
  <2> QED BY <1>2, <1>3, <1>4, <1>8, <1>9, <2>1, SummaryKeeps
<1>17. SafeInv'
  <2>1. f.safe.len <= Len(owed[Current]) BY <1>4
  <2>2. ASSUME NEW i \in 1 .. Len(summary), summary[i].name = Current
        PROVE  LET h == files'[Current]  o == owed[Current] IN
               /\ h.safe.len <= Len(o) /\ \A k \in 1 .. h.safe.len : h.data[k] = o[k]
               /\ h.safe.header # NoHeader => h.safe.header <= h.safe.len
    BY <1>1, <1>4, <1>6, <1>8, <2>2 DEF SafeInv
  <2> QED BY <1>2, <1>3, <1>8, <2>2, SafeKeeps
<1>18. HeldInv'
  <2>1. pc \notin Broken BY <1>3 DEF Broken
  <2> QED BY <1>1, <1>2, <1>3, <2>1 DEF HeldInv, InHand
<1> QED BY <1>2, <1>8, <1>10, <1>11, <1>12, <1>13, <1>14, <1>15, <1>16, <1>17, <1>18 DEF SessionInv, Types

LEMMA CheckpointKeeps ==
  ASSUME SessionInv, SyncCheckpoint, Busy, ProcessTypes'
  PROVE  SessionInv'
<1> DEFINE f == files[Current]
           g == Synced(f)
<1>1. /\ FileTypes /\ WriterTypes /\ StepInv /\ PartInv /\ OpenInv /\ SinceInv /\ BlockInv /\ HeldInv
  BY DEF SessionInv, Types
<1>2. main' = main /\ main # "lost" /\ UNCHANGED <<from, dropped, Start>> /\ EndInv'
  BY BusyEnds DEF Start, SyncCheckpoint
<1>3. /\ pc = "sync checkpoint" /\ pc' = "ready" /\ writer' = [writer EXCEPT !.since = 0]
      /\ files' = [files EXCEPT ![Current] = g]
      /\ UNCHANGED <<owed, part, summary, meta, block, stopping, taken>>
  BY DEF SyncCheckpoint
<1>4. /\ Open /\ Current \in DOMAIN files /\ Current \in FileNames
      /\ f \in Segments /\ f.data \in Seq(Nat) /\ writer \in Writers /\ writer.bytes \in Nat
      /\ writer.bytes = Len(owed[Current]) /\ writer.offset = writer.bytes /\ FitsHeader(writer.bytes)
      /\ writer.offset = Len(f.data) /\ \A k \in 1 .. writer.bytes : f.data[k] = owed[Current][k]
      /\ f.header = writer.bytes
      /\ Len(summary) > 0 /\ summary[Len(summary)].name = Current
  <2>1. pc \in Opened /\ pc # "data" /\ pc # "header" BY <1>3 DEF Opened
  <2> HIDE DEF f
  <2> QED BY <1>3, <2>1, WritingFacts DEF f
<1>5. /\ g \in Segments /\ g.data = f.data /\ g.header = writer.bytes
      /\ g.safe.len = writer.bytes /\ g.safe.header = writer.bytes
  <2>1. /\ g \in Segments /\ g.data = f.data /\ g.header = f.header
        /\ g.safe.header = f.header /\ g.safe.len = Len(f.data)
    BY <1>4, SyncedFacts
  <2> HIDE DEF f, g
  <2> QED BY <1>4, <2>1
<1> HIDE DEF f, g
<1>6. g.safe.len <= Len(g.data) /\ owed' = owed
  <2>1. writer.bytes <= writer.bytes BY <1>4
  <2> QED BY <1>3, <1>4, <1>5, <2>1
<1>7. /\ DOMAIN files' = DOMAIN files /\ files'[Current] = g
      /\ \A n \in DOMAIN files : n # Current => files'[n] = files[n]
      /\ FileTypes'
  BY <1>1, <1>3, <1>4, <1>5, <1>6, ChangeFile
<1>8. /\ writer' \in Writers /\ writer'.name = writer.name /\ writer'.bytes = writer.bytes
      /\ writer'.offset = writer.offset /\ writer'.since = 0
  BY <1>3, <1>4 DEF Writers
<1>9. Open' /\ Current' = Current
  <2>1. writer'.name # <<>> BY <1>4, <1>8, NamesAreNotNone DEF Current
  <2>2. NoWriter.name = <<>> BY DEF NoWriter
  <2> QED BY <1>8, <2>1, <2>2 DEF Open, Current
<1>10. WriterTypes' BY <1>1, <1>2, <1>3, <1>4, <1>8 DEF WriterTypes, Current
<1>11. StepInv' BY <1>3, <1>9, BusyEnds DEF Closed, Startup
<1>12. PartInv' BY <1>1, <1>3 DEF PartInv, Opening
<1>13. OpenInv'
  <2>1. pc' \notin {"header", "space", "sync checkpoint", "sync final"} BY <1>3
  <2>2. writer.bytes <= writer.bytes BY <1>4
  <2>3. FitsHeader(writer.bytes)' BY <1>4, <1>8 DEF FitsHeader
  <2>4. /\ Current \in DOMAIN files' /\ files'[Current].data = f.data /\ owed' = owed /\ summary' = summary
        /\ writer'.bytes = writer.bytes /\ writer'.offset = writer.bytes
    BY <1>3, <1>4, <1>5, <1>7, <1>8
  <2> QED BY <1>4, <1>9, <2>1, <2>2, <2>3, <2>4 DEF OpenInv
<1>14. SinceInv'
  <2>1. writer.bytes + 0 = writer.bytes /\ 0 < Window + MaxBlock /\ 0 < Window
    BY <1>4, Sizes, MaxBlockIs, SMT
  <2> QED BY <1>3, <1>4, <1>5, <1>7, <1>8, <1>9, <2>1 DEF SinceInv
<1>15. BlockInv'
  <2>1. block = <<>> BY <1>1, <1>3 DEF BlockInv, Carrying
  <2>2. 1 .. Len(block) = {} BY <2>1, SMT
  <2> QED BY <1>3, <2>1, <2>2 DEF BlockInv
<1>16. SummaryInv'
  <2>1. files'[Current].header <= Len(owed[Current]) BY <1>4, <1>5, <1>7
  <2> QED BY <1>2, <1>3, <1>4, <1>7, <1>9, <2>1, SummaryKeeps
<1>17. SafeInv'
  <2>1. LET h == files'[Current]  o == owed[Current] IN
        /\ h.safe.len <= Len(o) /\ \A k \in 1 .. h.safe.len : h.data[k] = o[k]
        /\ h.safe.header # NoHeader => h.safe.header <= h.safe.len
    BY <1>4, <1>5, <1>7
  <2> QED BY <1>2, <1>3, <1>7, <2>1, SafeKeeps
<1>18. HeldInv'
  <2>1. pc \notin Broken BY <1>3 DEF Broken
  <2> QED BY <1>1, <1>2, <1>3, <1>8, <2>1 DEF HeldInv, InHand
<1> QED BY <1>2, <1>7, <1>10, <1>11, <1>12, <1>13, <1>14, <1>15, <1>16, <1>17, <1>18 DEF SessionInv, Types

LEMMA FinalKeeps ==
  ASSUME SessionInv, SyncFinal, Busy, ProcessTypes'
  PROVE  SessionInv'
<1> DEFINE f == files[Current]
           g == Synced(f)
<1>1. /\ FileTypes /\ WriterTypes /\ StepInv /\ PartInv /\ OpenInv /\ SinceInv /\ BlockInv /\ HeldInv
      /\ SummaryInv
  BY DEF SessionInv, Types
<1>2. main' = main /\ main # "lost" /\ UNCHANGED <<from, dropped, Start>> /\ EndInv'
  BY BusyEnds DEF Start, SyncFinal
<1>3. /\ pc = "sync final" /\ pc' = (IF stopping THEN "stopped" ELSE "create") /\ writer' = NoWriter
      /\ files' = [files EXCEPT ![Current] = g]
      /\ UNCHANGED <<owed, part, summary, meta, block, stopping, taken>>
  BY DEF SyncFinal
<1>4. /\ Open /\ Current \in DOMAIN files
      /\ f \in Segments /\ f.data \in Seq(Nat) /\ owed[Current] \in Seq(Nat) /\ writer.bytes \in Nat
      /\ writer.bytes = Len(owed[Current]) /\ writer.offset = writer.bytes
      /\ writer.offset = Len(f.data) /\ \A k \in 1 .. writer.bytes : f.data[k] = owed[Current][k]
      /\ f.header = writer.bytes
  <2>1. pc \in Opened /\ pc # "data" /\ pc # "header" BY <1>3 DEF Opened
  <2> HIDE DEF f
  <2> QED BY <1>3, <2>1, WritingFacts DEF f
<1>5. /\ g \in Segments /\ g.data = f.data /\ g.header = writer.bytes /\ g.named = TRUE
      /\ g.safe.len = writer.bytes /\ g.safe.header = writer.bytes
  <2>1. /\ g \in Segments /\ g.data = f.data /\ g.header = f.header /\ g.named = TRUE
        /\ g.safe.header = f.header /\ g.safe.len = Len(f.data)
    BY <1>4, SyncedFacts
  <2> HIDE DEF f, g
  <2> QED BY <1>4, <2>1
<1> HIDE DEF f, g
<1>6. f.data = owed[Current]
  <2>1. Len(f.data) = Len(owed[Current]) /\ \A k \in 1 .. Len(f.data) : f.data[k] = owed[Current][k]
    BY <1>4
  <2> QED BY <1>4, <2>1, SeqEqual
<1>7. g.safe.len <= Len(g.data) /\ owed' = owed
  <2>1. writer.bytes <= writer.bytes BY <1>4
  <2> QED BY <1>3, <1>4, <1>5, <2>1
<1>8. /\ DOMAIN files' = DOMAIN files /\ files'[Current] = g
      /\ \A n \in DOMAIN files : n # Current => files'[n] = files[n]
      /\ FileTypes'
  BY <1>1, <1>3, <1>4, <1>5, <1>7, ChangeFile
<1>9. ~Open' /\ NoWriter \in Writers /\ NoWriter.offset = 0 /\ NoWriter.bytes = 0
  BY <1>3 DEF Open, NoWriter, Writers, RateOrNone
<1>10. WriterTypes' BY <1>1, <1>2, <1>3, <1>9 DEF WriterTypes
<1>11. StepInv' BY <1>3, <1>9, BusyEnds DEF Opened
<1>12. PartInv' BY <1>1, <1>3 DEF PartInv, Opening
<1>13. OpenInv' /\ SinceInv' BY <1>9 DEF OpenInv, SinceInv
<1>14. writer.offset - writer.bytes = NoWriter.offset - NoWriter.bytes BY <1>4, <1>9, SMT
<1>15. BlockInv'
  <2>1. pc' \notin Carrying \cup {"off"} => stopping BY <1>3 DEF Carrying
  <2>2. pc' # "data" BY <1>3
  <2> QED BY <1>1, <1>3, <1>14, <2>1, <2>2 DEF BlockInv
<1>16. \A i \in 1 .. Len(summary) : summary[i].name \in DOMAIN files BY <1>1, <1>2 DEF SummaryInv, Lost
<1>17. ASSUME NEW i \in 1 .. Len(summary)
       PROVE  LET h == files'[summary[i].name]  o == owed[summary[i].name] IN
              /\ h.named /\ h.header = Len(h.data) /\ h.data = o
              /\ summary[i].units = Len(o) /\ h.header <= Len(o)
  <2>1. CASE summary[i].name = Current
    <3>1. writer.bytes <= writer.bytes BY <1>4
    <3> QED BY <1>1, <1>2, <1>4, <1>5, <1>6, <1>8, <2>1, <3>1 DEF SummaryInv, Lost
  <2>2. CASE summary[i].name # Current
    <3>1. files'[summary[i].name] = files[summary[i].name] BY <1>8, <1>16, <2>2
    <3> QED BY <1>1, <1>2, <2>2, <3>1 DEF SummaryInv, Lost
  <2> QED BY <2>1, <2>2
<1>18. SummaryInv'
  <2>1. \A i, j \in 1 .. Len(summary) : summary[i].name = summary[j].name => i = j
    BY <1>1 DEF SummaryInv
  <2> QED BY <1>3, <1>8, <1>9, <1>16, <1>17, <2>1 DEF SummaryInv
<1>19. SafeInv'
  <2>1. LET h == files'[Current]  o == owed[Current] IN
        /\ h.safe.len <= Len(o) /\ \A k \in 1 .. h.safe.len : h.data[k] = o[k]
        /\ h.safe.header # NoHeader => h.safe.header <= h.safe.len
    BY <1>4, <1>5, <1>8
  <2> QED BY <1>2, <1>3, <1>8, <2>1, SafeKeeps
<1>20. HeldInv'
  <2>1. pc \notin Broken BY <1>3 DEF Broken
  <2>2. InHand' = InHand BY <1>3, <1>14 DEF InHand
  <2> QED BY <1>1, <1>2, <1>3, <2>1, <2>2 DEF HeldInv
<1> QED BY <1>2, <1>8, <1>10, <1>11, <1>12, <1>13, <1>15, <1>18, <1>19, <1>20 DEF SessionInv, Types

-----------------------------------------------------------------------------
(* Writing a block: a part of it, and its rest.                            *)
LEMMA SomeKeeps ==
  ASSUME SessionInv, NEW n \in 1 .. MaxBlock, WriteSome(n), Busy, ProcessTypes'
  PROVE  SessionInv'
<1> DEFINE f == files[Current]
           head == SubSeq(block, 1, n)
           data == WriteAt(f.data, Len(f.data), head)
           g == [f EXCEPT !.data = data]
<1>1. /\ FileTypes /\ WriterTypes /\ StepInv /\ PartInv /\ OpenInv /\ SinceInv /\ BlockInv /\ HeldInv
      /\ SummaryInv /\ SafeInv
  BY DEF SessionInv, Types
<1>2. main' = main /\ main # "lost" /\ UNCHANGED <<from, dropped, Start>> /\ EndInv'
  BY BusyEnds DEF Start, WriteSome
<1>3. pc = "data" /\ pc \in Opened BY DEF WriteSome, Opened
<1>4. /\ Open /\ Current \in DOMAIN files /\ Current \in FileNames
      /\ f \in Segments /\ f.data \in Seq(Nat) /\ owed[Current] \in Seq(Nat)
      /\ f.safe.len \in Nat /\ f.safe.len <= Len(f.data)
      /\ writer \in Writers /\ writer.bytes \in Nat /\ writer.offset \in Nat
      /\ writer.bytes = Len(owed[Current]) /\ writer.bytes <= writer.offset
      /\ writer.offset = Len(f.data) /\ FitsHeader(writer.bytes)
      /\ \A k \in 1 .. writer.bytes : f.data[k] = owed[Current][k]
      /\ block \in Seq(Nat) /\ taken \in Nat
      /\ Len(summary) > 0 /\ summary[Len(summary)].name = Current
  <2> HIDE DEF f
  <2> QED BY <1>3, WritingFacts DEF f
<1>5. /\ n < Len(block) /\ pc' = "data" /\ block' = SubSeq(block, n + 1, Len(block))
      /\ writer' = [writer EXCEPT !.offset = writer.offset + n]
      /\ files' = [files EXCEPT ![Current] = g]
      /\ UNCHANGED <<owed, part, summary, meta, stopping, taken>>
  BY <1>3, <1>4 DEF WriteSome, NextOffset, Rest
<1> HIDE DEF f
<1>6. /\ n \in Nat \ {0} /\ n <= Len(block) /\ Len(block) \in Nat /\ n + 1 \in Nat \ {0}
      /\ n + 1 <= Len(block) + 1 /\ 1 \in Nat \ {0} /\ 1 <= n + 1 /\ n < Len(block) /\ Len(block) <= Len(block)
      /\ writer.bytes \in Nat /\ writer.offset \in Nat /\ writer.bytes <= writer.offset /\ taken \in Nat
  <2>1. n \in Nat \ {0} BY MaxBlockIs, SMT
  <2>2. Len(block) \in Nat /\ n < Len(block) BY <1>4, <1>5
  <2>3. /\ n <= Len(block) /\ n + 1 \in Nat \ {0} /\ n + 1 <= Len(block) + 1
        /\ 1 \in Nat \ {0} /\ 1 <= n + 1 /\ Len(block) <= Len(block)
    BY <2>1, <2>2, SMT
  <2> QED BY <1>4, <2>1, <2>2, <2>3
<1>7. /\ head \in Seq(Nat) /\ Len(head) = n /\ \A k \in 1 .. n : head[k] = block[k]
  <2>1. /\ head \in Seq(Nat) /\ Len(head) = n + 1 - 1
        /\ \A k \in 1 .. n + 1 - 1 : head[k] = block[1 + k - 1]
    BY <1>4, <1>6, SubSeqFacts
  <2>2. n + 1 - 1 = n /\ \A k \in 1 .. n : 1 + k - 1 = k BY <1>6, SMT
  <2> HIDE DEF head
  <2> QED BY <2>1, <2>2
<1>8. /\ block' \in Seq(Nat) /\ Len(block') = Len(block) - n
      /\ \A k \in 1 .. Len(block') : block'[k] = block[n + k] /\ n + k \in 1 .. Len(block)
  <2>1. n \in Nat /\ n < Len(block) /\ block \in Seq(Nat) BY <1>4, <1>6
  <2> DEFINE rest == SubSeq(block, n + 1, Len(block))
  <2>2. /\ rest \in Seq(Nat) /\ Len(rest) = Len(block) - n
        /\ \A k \in 1 .. Len(block) - n : rest[k] = block[n + k] /\ n + k \in 1 .. Len(block)
    BY <2>1, RestFacts
  <2>3. block' = rest BY <1>5
  <2> HIDE DEF rest
  <2> QED BY <2>2, <2>3
<1>9. /\ data \in Seq(Nat) /\ Len(data) = writer.offset + n
      /\ \A k \in 1 .. writer.offset : data[k] = f.data[k]
      /\ \A k \in 1 .. n : data[writer.offset + k] = block[k]
  <2> HIDE DEF head
  <2>1. /\ data \in Seq(Nat) /\ Len(data) = Len(f.data) + Len(head)
        /\ \A k \in 1 .. Len(f.data) : data[k] = f.data[k]
        /\ \A k \in 1 .. Len(head) : data[Len(f.data) + k] = head[k]
    BY <1>4, <1>7, WriteAtEnd
  <2> HIDE DEF data
  <2> QED BY <1>4, <1>7, <2>1
<1> HIDE DEF head, data
<1>10. /\ g \in Segments /\ g.data = data /\ g.safe = f.safe /\ g.header = f.header
  BY <1>4, <1>9 DEF Segments
<1> HIDE DEF g
<1>11. g.safe.len <= Len(g.data) /\ owed' = owed
  <2>1. f.safe.len <= writer.offset + n
    <3>1. f.safe.len \in Nat /\ f.safe.len <= writer.offset BY <1>4
    <3> QED BY <1>6, <3>1, SMT
  <2> QED BY <1>5, <1>9, <1>10, <2>1
<1>12. /\ DOMAIN files' = DOMAIN files /\ files'[Current] = g
       /\ \A m \in DOMAIN files : m # Current => files'[m] = files[m]
       /\ FileTypes'
  BY <1>1, <1>4, <1>5, <1>10, <1>11, ChangeFile
<1>13. /\ writer' \in Writers /\ writer'.name = writer.name /\ writer'.bytes = writer.bytes
       /\ writer'.offset = writer.offset + n /\ writer'.since = writer.since
  <2>1. writer.offset + n \in Nat BY <1>6, SMT
  <2> QED BY <1>4, <1>5, <2>1 DEF Writers
<1>14. Open' /\ Current' = Current
  <2>1. writer'.name # <<>> BY <1>4, <1>13, NamesAreNotNone DEF Current
  <2>2. NoWriter.name = <<>> BY DEF NoWriter
  <2> QED BY <1>13, <2>1, <2>2 DEF Open, Current
<1>15. WriterTypes' BY <1>1, <1>2, <1>4, <1>5, <1>8, <1>13 DEF WriterTypes, Current
<1>16. StepInv' BY <1>5, <1>14, BusyEnds DEF Closed, Startup
<1>17. PartInv' BY <1>1, <1>3, <1>5 DEF PartInv, Opening
<1>18. OpenInv'
  <2>1. pc' \notin {"header", "space", "sync checkpoint", "sync final"} /\ pc' \in {"data"} BY <1>5
  <2>2. writer.bytes <= writer.offset + n /\ \A k \in 1 .. writer.bytes : k \in 1 .. writer.offset
    BY <1>6, SMT
  <2>3. FitsHeader(writer.bytes)' BY <1>4, <1>13 DEF FitsHeader
  <2>4. \A k \in 1 .. writer.bytes : data[k] = owed[Current][k] BY <1>4, <1>9, <2>2
  <2> QED BY <1>4, <1>5, <1>9, <1>10, <1>12, <1>13, <1>14, <2>1, <2>2, <2>3, <2>4 DEF OpenInv
<1>19. SinceInv'
  BY <1>1, <1>3, <1>4, <1>5, <1>10, <1>12, <1>13, <1>14 DEF SinceInv, f
<1>20. BlockInv'
  <2>1. /\ writer.offset - writer.bytes + Len(block) \in BlockSizes
        /\ FitsHeader(writer.offset + Len(block)) /\ ~stopping
        /\ \A k \in 1 .. Len(block) : block[k] + Len(block) = taken + k
        /\ \A k \in writer.bytes + 1 .. writer.offset :
              f.data[k] + Len(block) + writer.offset = taken + k
    <3>1. block # <<>> BY <1>1, <1>3 DEF BlockInv
    <3> QED BY <1>1, <1>3, <3>1 DEF BlockInv, f
  <2>2. /\ writer'.offset - writer'.bytes + Len(block') = writer.offset - writer.bytes + Len(block)
        /\ writer'.offset + Len(block') = writer.offset + Len(block)
    <3>1. /\ (writer.offset + n) - writer.bytes + (Len(block) - n) = writer.offset - writer.bytes + Len(block)
          /\ (writer.offset + n) + (Len(block) - n) = writer.offset + Len(block)
      BY <1>6, SMT
    <3> QED BY <1>8, <1>13, <3>1
  <2>3. block' # <<>>
    <3>1. Len(block') > 0 BY <1>5, <1>6, <1>8, SMT
    <3>2. Len(<<>>) = 0 BY SMT
    <3> QED BY <3>1, <3>2
  <2>4. FitsHeader(writer.offset + Len(block))' BY <2>1, <2>2 DEF FitsHeader
  <2>5. ASSUME NEW k \in 1 .. Len(block') PROVE block'[k] + Len(block') = taken + k
    <3>1. block'[k] = block[n + k] /\ n + k \in 1 .. Len(block) BY <1>8
    <3>2. block[n + k] + Len(block) = taken + (n + k) BY <2>1, <3>1
    <3>3. block[n + k] \in Nat BY <1>4, <3>1, ElementInSet
    <3>4. k \in Int BY <1>6, <1>8, SMT
    <3> DEFINE b == block[n + k]
    <3>5. b \in Nat /\ b + Len(block) = taken + (n + k) BY <3>2, <3>3
    <3> HIDE DEF b
    <3>6. b + (Len(block) - n) = taken + k BY <1>6, <3>4, <3>5, SMT
    <3> QED BY <1>8, <3>1, <3>6 DEF b
  <2>6. ASSUME NEW k \in writer.bytes + 1 .. writer.offset + n
        PROVE  data[k] + Len(block') + (writer.offset + n) = taken + k
    <3> DEFINE d == data[k]
    <3>1. d + Len(block) + writer.offset = taken + k /\ d \in Nat
      <4>1. CASE k <= writer.offset
        <5>1. k \in writer.bytes + 1 .. writer.offset /\ k \in 1 .. writer.offset
          BY <1>6, <4>1, SMT
        <5>2. d = f.data[k] BY <1>9, <5>1
        <5>3. f.data[k] \in Nat BY <1>4, <5>1, ElementInSet
        <5> QED BY <2>1, <5>1, <5>2, <5>3
      <4>2. CASE ~(k <= writer.offset)
        <5> DEFINE j == k - writer.offset
        <5>1. j \in 1 .. n /\ writer.offset + j = k /\ j \in 1 .. Len(block) /\ j \in Nat
          BY <1>6, <4>2, SMT
        <5> HIDE DEF j
        <5>2. d = block[j] BY <1>9, <5>1
        <5>3. block[j] \in Nat BY <1>4, <5>1, ElementInSet
        <5>4. block[j] + Len(block) = taken + j BY <2>1, <5>1
        <5> HIDE DEF d
        <5>5. d \in Nat /\ d + Len(block) = taken + j BY <5>2, <5>3, <5>4
        <5>6. d + Len(block) + writer.offset = taken + k
          <6> DEFINE b == Len(block)
                     p == writer.offset
          <6>1. b \in Nat /\ p \in Nat /\ taken \in Nat /\ j \in Nat /\ p + j = k /\ d + b = taken + j
            BY <1>6, <5>1, <5>5
          <6> HIDE DEF b, p
          <6>2. d + b + p = taken + k BY <5>5, <6>1, SMT
          <6> QED BY <6>2 DEF b, p
        <5> QED BY <5>5, <5>6
      <4> QED BY <4>1, <4>2
    <3>2. k \in Int BY <1>6, SMT
    <3> HIDE DEF d
    <3>3. d + (Len(block) - n) + (writer.offset + n) = taken + k BY <1>6, <3>1, <3>2, SMT
    <3> QED BY <1>8, <3>3 DEF d
  <2>7. pc' \in Carrying BY <1>5 DEF Carrying
  <2>8. files'[Current'].data = data BY <1>10, <1>12, <1>14
  <2>9. \A k \in writer'.bytes + 1 .. writer'.offset :
           files'[Current'].data[k] + Len(block') + writer'.offset = taken' + k
    BY <1>5, <1>13, <2>6, <2>8
  <2> QED BY <1>5, <2>1, <2>2, <2>3, <2>4, <2>5, <2>7, <2>9 DEF BlockInv
<1>21. SummaryInv'
  <2>1. files'[Current].header <= Len(owed[Current])
    <3>1. Len(summary) \in 1 .. Len(summary)
      <4>1. Len(summary) \in Nat BY <1>1 DEF WriterTypes
      <4> QED BY <1>4, <4>1, SMT
    <3> QED BY <1>1, <1>2, <1>4, <1>10, <1>12, <3>1 DEF SummaryInv, Lost, f
  <2> QED BY <1>2, <1>4, <1>5, <1>12, <1>14, <2>1, SummaryKeeps
<1>22. SafeInv'
  <2>1. ASSUME NEW i \in 1 .. Len(summary), summary[i].name = Current
        PROVE  LET h == files'[Current]  o == owed[Current] IN
               /\ h.safe.len <= Len(o) /\ \A k \in 1 .. h.safe.len : h.data[k] = o[k]
               /\ h.safe.header # NoHeader => h.safe.header <= h.safe.len
    <3>1. /\ f.safe.len <= Len(owed[Current]) /\ \A k \in 1 .. f.safe.len : f.data[k] = owed[Current][k]
          /\ f.safe.header # NoHeader => f.safe.header <= f.safe.len
      BY <1>1, <1>4, <2>1, ZenonT(40) DEF SafeInv, f
    <3>2. \A k \in 1 .. f.safe.len : k \in 1 .. writer.offset
      <4>1. f.safe.len \in Nat /\ f.safe.len <= writer.offset BY <1>4
      <4> QED BY <1>6, <4>1, SMT
    <3> QED BY <1>9, <1>10, <1>12, <3>1, <3>2
  <2> QED BY <1>2, <1>5, <1>12, <2>1, SafeKeeps
<1>23. HeldInv'
  <2>1. pc \notin Broken BY <1>3 DEF Broken
  <2>2. InHand' = InHand
    <3>1. (Len(block) - n) + ((writer.offset + n) - writer.bytes) = Len(block) + (writer.offset - writer.bytes)
      BY <1>6, SMT
    <3> QED BY <1>8, <1>13, <3>1 DEF InHand
  <2> QED BY <1>1, <1>2, <1>5, <2>1, <2>2 DEF HeldInv
<1> QED BY <1>2, <1>12, <1>15, <1>16, <1>17, <1>18, <1>19, <1>20, <1>21, <1>22, <1>23 DEF SessionInv, Types

LEMMA RestKeeps ==
  ASSUME SessionInv, WriteRest, Busy, ProcessTypes'
  PROVE  SessionInv'
<1> DEFINE f == files[Current]
           data == WriteAt(f.data, Len(f.data), block)
           g == [f EXCEPT !.data = data]
           size == writer.offset + Len(block) - writer.bytes
           units == [i \in 1 .. size |-> taken - size + i]
           o == owed[Current]
           o2 == o \o units
           m == Len(summary)
<1>1. /\ FileTypes /\ WriterTypes /\ StepInv /\ PartInv /\ OpenInv /\ SinceInv /\ BlockInv /\ HeldInv
      /\ SummaryInv /\ SafeInv
  BY DEF SessionInv, Types
<1>2. main' = main /\ main # "lost" /\ UNCHANGED <<from, dropped, Start>> /\ EndInv'
  BY BusyEnds DEF Start, WriteRest
<1>3. pc = "data" /\ pc \in Opened BY DEF WriteRest, Opened
<1>4. /\ Open /\ Current \in DOMAIN files /\ Current \in FileNames
      /\ f \in Segments /\ f.data \in Seq(Nat) /\ o \in Seq(Nat)
      /\ f.safe.len \in Nat /\ f.safe.len <= Len(f.data)
      /\ writer \in Writers /\ writer.bytes \in Nat /\ writer.offset \in Nat /\ writer.since \in Nat
      /\ writer.bytes = Len(o) /\ writer.bytes <= writer.offset
      /\ writer.offset = Len(f.data)
      /\ \A k \in 1 .. writer.bytes : f.data[k] = o[k]
      /\ f.safe.len + writer.since = Len(o) /\ writer.since < Window
      /\ summary \in Seq(Entries) /\ block \in Seq(Nat) /\ taken \in Nat /\ Start \in Nat
      /\ m > 0 /\ summary[m].name = Current
  <2>1. pc \in Carrying BY <1>3 DEF Carrying
  <2> HIDE DEF f, o, m
  <2> QED BY <1>3, <2>1, WritingFacts DEF f, o, m
<1>5. /\ files' = [files EXCEPT ![Current] = g]
      /\ writer' = [writer EXCEPT !.offset = writer.offset + Len(block), !.bytes = writer.offset + Len(block),
                                  !.since = writer.since + size]
      /\ owed' = [owed EXCEPT ![Current] = o2] /\ summary' = AddBlock(size)
      /\ pc' = (IF CheckpointDue(writer.since + size) THEN "checkpoint" ELSE "ready")
      /\ block' = <<>> /\ UNCHANGED <<part, meta, stopping, taken>>
  BY <1>4 DEF WriteRest
<1> HIDE DEF f, o, g
(* The block in hand and its place.                                        *)
<1>6. /\ writer.offset - writer.bytes + Len(block) \in BlockSizes
      /\ FitsHeader(writer.offset + Len(block)) /\ ~stopping
      /\ \A k \in 1 .. Len(block) : block[k] + Len(block) = taken + k
      /\ \A k \in writer.bytes + 1 .. writer.offset :
            f.data[k] + Len(block) + writer.offset = taken + k
  <2>1. block # <<>> BY <1>1, <1>3 DEF BlockInv
  <2> QED BY <1>1, <1>3, <2>1 DEF BlockInv, f
<1>7. PICK last \in Start .. taken : Covers(summary, owed, Start, last) /\ last + InHand = taken
  BY <1>1, <1>2, <1>3 DEF HeldInv, Broken
<1>8. /\ writer.bytes \in Nat /\ writer.offset \in Nat /\ writer.bytes <= writer.offset
      /\ writer.since \in Nat /\ Len(block) \in Nat /\ taken \in Nat /\ Start \in Nat
  BY <1>4
<1>9. size = writer.offset - writer.bytes + Len(block) /\ size = InHand /\ size \in Nat
  BY <1>8, SMT DEF InHand
<1>10. size \in BlockSizes BY <1>6, <1>9
<1> HIDE DEF size
<1>11. last \in Nat /\ last = taken - size /\ last + size = taken /\ Start <= last /\ taken \in Start .. taken
  <2>1. last + size = taken BY <1>7, <1>9
  <2> QED BY <1>7, <1>8, <1>9, <2>1, SMT
<1>12. /\ units \in Seq(Nat) /\ Len(units) = size /\ \A k \in 1 .. size : units[k] = last + k
  <2>1. \A k \in 1 .. size : units[k] = last + k BY <1>11
  <2>4. size \in Nat /\ last \in Nat BY <1>9, <1>11
  <2>2. \A k \in 1 .. size : last + k \in Nat BY <2>4, SMT
  <2>5. \A k \in 1 .. size : units[k] \in Nat BY <2>1, <2>2
  <2>3. units = [k \in 1 .. size |-> units[k]] OBVIOUS
  <2> HIDE DEF units
  <2>6. units \in Seq(Nat) /\ Len(units) = size BY <2>3, <2>4, <2>5, MadeSequence
  <2> QED BY <2>1, <2>6
<1> HIDE DEF units
<1>13. /\ o2 \in Seq(Nat) /\ Len(o2) = writer.bytes + size
       /\ \A k \in 1 .. writer.bytes : o2[k] = o[k]
       /\ \A k \in 1 .. size : o2[writer.bytes + k] = last + k
  <2>1. /\ o2 \in Seq(Nat) /\ Len(o2) = Len(o) + Len(units)
        /\ \A k \in 1 .. Len(o) : o2[k] = o[k]
        /\ \A k \in 1 .. Len(units) : o2[Len(o) + k] = units[k]
    <3>1. o \in Seq(Nat) /\ units \in Seq(Nat) BY <1>4, <1>12
    <3> QED BY <3>1, ConcatFacts
  <2> HIDE DEF o2
  <2> QED BY <1>4, <1>12, <2>1
<1>14. /\ data \in Seq(Nat) /\ Len(data) = writer.offset + Len(block)
       /\ \A k \in 1 .. writer.offset : data[k] = f.data[k]
       /\ \A k \in 1 .. Len(block) : data[writer.offset + k] = block[k]
  <2>1. /\ data \in Seq(Nat) /\ Len(data) = Len(f.data) + Len(block)
        /\ \A k \in 1 .. Len(f.data) : data[k] = f.data[k]
        /\ \A k \in 1 .. Len(block) : data[Len(f.data) + k] = block[k]
    BY <1>4, WriteAtEnd
  <2> HIDE DEF data
  <2> QED BY <1>4, <2>1
<1> HIDE DEF o2, data
<1>15. writer.offset + Len(block) = writer.bytes + size BY <1>8, <1>9, SMT
(* What is on the disk is what is accounted.                               *)
<1>16. ASSUME NEW k \in 1 .. writer.bytes + size PROVE data[k] = o2[k]
  <2> DEFINE d == data[k]
  <2>1. k \in Int /\ 1 <= k /\ k <= writer.bytes + size BY <1>8, <1>9, SMT
  <2>2. CASE k <= writer.bytes
    <3>1. k \in 1 .. writer.bytes /\ k \in 1 .. writer.offset BY <1>8, <2>1, <2>2, SMT
    <3>2. data[k] = f.data[k] /\ o2[k] = o[k] BY <1>13, <1>14, <3>1
    <3> QED BY <1>4, <3>1, <3>2
  <2>3. CASE ~(k <= writer.bytes)
    <3> DEFINE j == k - writer.bytes
    <3>1. j \in 1 .. size /\ writer.bytes + j = k BY <1>8, <1>9, <2>1, <2>3, SMT
    <3> HIDE DEF j
    <3>2. o2[k] = last + j BY <1>13, <3>1
    <3>3. d + Len(block) + writer.offset = taken + k /\ d \in Nat
      <4>1. CASE k <= writer.offset
        <5>1. k \in writer.bytes + 1 .. writer.offset /\ k \in 1 .. writer.offset
          BY <1>8, <2>1, <2>3, <4>1, SMT
        <5>2. d = f.data[k] BY <1>14, <5>1
        <5>3. k \in 1 .. Len(f.data) /\ f.data \in Seq(Nat) BY <1>4, <5>1
        <5>4. f.data[k] \in Nat BY <5>3, ElementInSet
        <5> QED BY <1>6, <5>1, <5>2, <5>4
      <4>2. CASE ~(k <= writer.offset)
        <5> DEFINE i == k - writer.offset
        <5>1. i \in 1 .. Len(block) /\ writer.offset + i = k /\ i \in Nat
          BY <1>8, <1>15, <2>1, <4>2, SMT
        <5> HIDE DEF i
        <5>2. d = block[i] BY <1>14, <5>1
        <5>3. block[i] \in Nat BY <1>4, <5>1, ElementInSet
        <5>4. block[i] + Len(block) = taken + i BY <1>6, <5>1
        <5> HIDE DEF d
        <5>5. d \in Nat /\ d + Len(block) = taken + i BY <5>2, <5>3, <5>4
        <5>6. d + Len(block) + writer.offset = taken + k
          <6> DEFINE b == Len(block)
                     p == writer.offset
          <6>1. b \in Nat /\ p \in Nat /\ taken \in Nat /\ i \in Nat /\ p + i = k /\ d + b = taken + i
            BY <1>8, <5>1, <5>5
          <6> HIDE DEF b, p
          <6>2. d + b + p = taken + k BY <5>5, <6>1, SMT
          <6> QED BY <6>2 DEF b, p
        <5> QED BY <5>5, <5>6
      <4> QED BY <4>1, <4>2
    <3> HIDE DEF d
    <3>4. d = last + j
      <4>1. /\ size \in Nat /\ last \in Nat /\ last + size = taken /\ j \in Nat /\ k \in Int
            /\ writer.bytes + j = k /\ d \in Nat
        BY <1>9, <1>11, <2>1, <3>1, <3>3, SMT
      <4>2. /\ writer.bytes \in Nat /\ writer.offset \in Nat /\ Len(block) \in Nat BY <1>8
      <4> DEFINE p == writer.offset
                 q == writer.bytes
                 r == Len(block)
      <4>3. p \in Nat /\ q \in Nat /\ r \in Nat BY <4>2
      <4>4. p + r = q + size /\ q + j = k BY <1>15, <4>1
      <4>5. d + r + p = taken + k BY <3>3
      <4> HIDE DEF p, q, r
      <4>6. taken \in Nat BY <1>8
      <4>7. d + (r + p) = (last + size) + (q + j) BY <4>1, <4>3, <4>4, <4>5, <4>6, SMT
      <4> QED BY <4>1, <4>3, <4>4, <4>7, SMT
    <3> QED BY <3>2, <3>4 DEF d
  <2> QED BY <2>2, <2>3
(* The files.                                                              *)
<1>17. /\ g \in Segments /\ g.data = data /\ g.safe = f.safe /\ g.header = f.header
  BY <1>4, <1>14 DEF Segments, g
<1>18. g.safe.len <= Len(g.data)
  <2>1. f.safe.len \in Nat /\ f.safe.len <= writer.offset BY <1>4
  <2>2. f.safe.len <= writer.offset + Len(block) BY <1>8, <2>1, SMT
  <2> QED BY <1>14, <1>17, <2>2
<1>19. /\ DOMAIN files' = DOMAIN files /\ files'[Current] = g
       /\ \A n \in DOMAIN files : n # Current => files'[n] = files[n]
  BY <1>1, <1>4, <1>5, <1>17, ChangeFile
<1>20. /\ DOMAIN owed' = DOMAIN files /\ owed'[Current] = o2
       /\ \A n \in DOMAIN files : n # Current => owed'[n] = owed[n]
       /\ owed' = [n \in DOMAIN files |-> owed'[n]]
  BY <1>1, <1>4, <1>5 DEF FileTypes
<1>21. FileTypes'
  <2>1. files' = [n \in DOMAIN files |-> files'[n]] BY <1>1, <1>5 DEF FileTypes
  <2>2. \A n \in DOMAIN files : /\ files'[n] \in Segments /\ owed'[n] \in Seq(Nat)
                                /\ files'[n].safe.len <= Len(files'[n].data)
    BY <1>1, <1>13, <1>17, <1>18, <1>19, <1>20 DEF FileTypes
  <2> QED BY <1>1, <1>19, <1>20, <2>1, <2>2 DEF FileTypes
<1>22. /\ writer' \in Writers /\ writer'.name = writer.name /\ writer'.bytes = writer.bytes + size
       /\ writer'.offset = writer.bytes + size /\ writer'.since = writer.since + size
  <2>1. writer.bytes + size \in Nat /\ writer.since + size \in Nat BY <1>8, <1>9, SMT
  <2> QED BY <1>4, <1>5, <1>15, <2>1 DEF Writers
<1>23. Open' /\ Current' = Current
  <2>1. writer'.name # <<>> BY <1>4, <1>22, NamesAreNotNone DEF Current
  <2>2. NoWriter.name = <<>> BY DEF NoWriter
  <2> QED BY <1>22, <2>1, <2>2 DEF Open, Current
(* The summary.                                                            *)
<1>24. /\ summary' \in Seq(Entries) /\ Len(summary') = m /\ m \in Nat /\ m \in 1 .. m
       /\ summary'[m].name = Current /\ summary'[m].units = summary[m].units + size
       /\ \A i \in 1 .. m : summary'[i].name = summary[i].name
       /\ \A i \in 1 .. m : i # m => summary'[i] = summary[i]
  <2>1. m \in Nat /\ m \in 1 .. m
    <3>1. m \in Nat BY <1>4
    <3>2. m > 0 BY <1>4
    <3> HIDE DEF m
    <3> QED BY <3>1, <3>2, SMT
  <2>2. summary # <<>>
    <3>1. Len(<<>>) = 0 /\ ~(0 > 0) BY SMT
    <3> QED BY <1>4, <3>1
  <2>3. summary[m] \in Entries BY <1>4, <2>1, ElementInSet
  <2> DEFINE e == [summary[m] EXCEPT !.units = summary[m].units + size]
  <2>4. e \in Entries /\ e.name = summary[m].name /\ e.units = summary[m].units + size
    <3>1. summary[m].units + size \in Nat BY <1>9, <2>3, SMT DEF Entries
    <3> QED BY <2>3, <3>1 DEF Entries
  <2>5. summary' = [summary EXCEPT ![m] = e] BY <1>5, <2>2 DEF AddBlock
  <2> HIDE DEF e
  <2>6. /\ summary' \in Seq(Entries) /\ Len(summary') = Len(summary) /\ summary'[m] = e
        /\ \A i \in 1 .. Len(summary) : i # m => summary'[i] = summary[i]
    BY <1>4, <2>1, <2>4, <2>5, SMT
  <2> QED BY <1>4, <2>1, <2>4, <2>6
<1>25. WriterTypes'
  <2>1. <<>> \in Seq(Nat) BY SMT
  <2> QED BY <1>1, <1>2, <1>4, <1>5, <1>22, <1>24, <2>1 DEF WriterTypes, Current
<1>26. StepInv' BY <1>5, <1>23, BusyEnds DEF Closed, Startup
<1>27. PartInv' BY <1>1, <1>3, <1>5 DEF PartInv, Opening
<1>28. OpenInv'
  <2>1. pc' \notin {"header", "space", "sync checkpoint", "sync final"} BY <1>5
  <2>2. writer.bytes + size <= writer.bytes + size BY <1>8, <1>9, SMT
  <2>3. FitsHeader(writer.bytes)' BY <1>6, <1>15, <1>22 DEF FitsHeader
  <2> QED BY <1>4, <1>13, <1>14, <1>15, <1>16, <1>17, <1>19, <1>20, <1>22, <1>23, <1>24, <2>1, <2>2, <2>3
         DEF OpenInv
<1>29. SinceInv'
  <2>1. size <= MaxBlock /\ MaxBlock \in Nat /\ Window \in Nat BY <1>10, MaxBlockIs, Sizes
  <2>2. writer.since < Window BY <1>4
  <2>3. writer.since + size < Window + MaxBlock BY <1>8, <1>9, <2>1, <2>2, SMT
  <2>4. pc' \in Carrying \cup {"ready"} => writer.since + size < Window
    <3>1. pc' \in Carrying \cup {"ready"} => ~(writer.since + size >= Window)
      BY <1>5 DEF CheckpointDue, Carrying
    <3> QED BY <1>8, <1>9, <2>1, <3>1, SMT
  <2>5. f.safe.len + (writer.since + size) = writer.bytes + size
    <3> DEFINE a == f.safe.len
               b == writer.bytes
               c == writer.since
    <3>1. a \in Nat /\ b \in Nat /\ c \in Nat /\ size \in Nat /\ a + c = b BY <1>4, <1>9
    <3> HIDE DEF a, b, c
    <3>2. a + (c + size) = b + size BY <3>1, SMT
    <3> QED BY <3>2 DEF a, b, c
  <2> QED BY <1>13, <1>17, <1>19, <1>20, <1>22, <1>23, <2>3, <2>4, <2>5 DEF SinceInv
<1>30. BlockInv'
  <2>1. 1 .. Len(block') = {} BY <1>5, SMT
  <2>2. pc' # "data" BY <1>5
  <2> QED BY <1>5, <2>1, <2>2 DEF BlockInv
<1>31. \A i \in 1 .. m : /\ summary[i].name \in DOMAIN files
                         /\ i # m => summary[i].name # Current
  BY <1>1, <1>2, <1>4, <1>24, SMTT(30) DEF SummaryInv, Lost
<1>32. ASSUME NEW i \in 1 .. m, i # m
       PROVE  files'[summary[i].name] = files[summary[i].name] /\ owed'[summary[i].name] = owed[summary[i].name]
  BY <1>19, <1>20, <1>31, <1>32
<1>33. SummaryInv'
  <2>1. \A i, j \in 1 .. m : summary'[i].name = summary'[j].name => i = j
    BY <1>1, <1>24 DEF SummaryInv
  <2>2. ASSUME NEW i \in 1 .. m
        PROVE  /\ summary'[i].name \in DOMAIN files'
               /\ summary'[i].units = Len(owed'[summary'[i].name])
               /\ files'[summary'[i].name].header <= Len(owed'[summary'[i].name])
    <3>1. CASE i = m
      <4>1. summary[m].units = writer.bytes /\ f.header <= writer.bytes
        <5>1. ~Lost(summary[m].name) BY <1>2 DEF Lost
        <5>2. /\ summary[m].units = Len(owed[summary[m].name])
              /\ files[summary[m].name].header <= Len(owed[summary[m].name])
          BY <1>1, <1>24, <5>1 DEF SummaryInv
        <5> QED BY <1>4, <5>2 DEF f, o
      <4>2. f.header \in Nat
        <5>1. f.header \in Headers BY <1>4 DEF Segments
        <5> QED BY <5>1, Sizes, SMT DEF Headers
      <4>3. f.header <= writer.bytes + size BY <1>8, <1>9, <4>1, <4>2, SMT
      <4> QED BY <1>4, <1>13, <1>17, <1>19, <1>20, <1>24, <3>1, <4>1, <4>3
    <3>2. CASE i # m
      BY <1>1, <1>2, <1>19, <1>24, <1>31, <1>32, <3>2 DEF SummaryInv, Lost
    <3> QED BY <3>1, <3>2
  <2>3. ASSUME NEW i \in 1 .. m, ~(Open' /\ summary'[i].name = Current')
        PROVE  /\ files'[summary'[i].name].named
               /\ files'[summary'[i].name].header = Len(files'[summary'[i].name].data)
               /\ files'[summary'[i].name].data = owed'[summary'[i].name]
    <3>1. i # m BY <1>23, <1>24, <2>3
    <3> QED BY <1>1, <1>24, <1>31, <1>32, <3>1 DEF SummaryInv
  <2> QED BY <1>24, <2>1, <2>2, <2>3 DEF SummaryInv
<1>34. SafeInv'
  <2>1. ASSUME NEW i \in 1 .. m
        PROVE  LET h == files'[summary'[i].name]  p == owed'[summary'[i].name] IN
               /\ h.safe.len <= Len(p) /\ \A k \in 1 .. h.safe.len : h.data[k] = p[k]
               /\ h.safe.header # NoHeader => h.safe.header <= h.safe.len
    <3>1. CASE i = m
      <4>1. f.safe.len \in Nat /\ f.safe.len <= writer.bytes
        BY <1>1, <1>4, <1>24 DEF SafeInv, f, o
      <4>2. /\ f.safe.len <= writer.bytes + size
            /\ \A k \in 1 .. f.safe.len : k \in 1 .. writer.bytes + size
        BY <1>8, <1>9, <4>1, SMT
      <4>3. f.safe.header # NoHeader => f.safe.header <= f.safe.len
        BY <1>1, <1>4, <1>24 DEF SafeInv, f
      <4> QED BY <1>13, <1>16, <1>17, <1>19, <1>20, <1>24, <3>1, <4>2, <4>3
    <3>2. CASE i # m
      BY <1>1, <1>24, <1>31, <1>32, <3>2, SMTT(30) DEF SafeInv
    <3> QED BY <3>1, <3>2
  <2> QED BY <1>24, <2>1 DEF SafeInv
<1>35. HeldInv'
  <2>1. Covers(summary', owed', Start, last + size)
    <3>1. /\ \A k \in 1 .. Len(o) : owed'[Current][k] = o[k]
          /\ \A k \in 1 .. size : owed'[Current][Len(o) + k] = last + k
          /\ Len(owed'[Current]) = Len(o) + size
      BY <1>4, <1>13, <1>20
    <3>2. /\ summary \in Seq(Entries) /\ summary' \in Seq(Entries) /\ Start \in Nat /\ last \in Nat
          /\ size \in Nat /\ Start <= last /\ Len(summary) > 0 /\ Len(summary') = Len(summary)
          /\ \A i \in 1 .. Len(summary) : summary'[i].name = summary[i].name
          /\ \A i \in 1 .. Len(summary) : i # Len(summary) => owed'[summary[i].name] = owed[summary[i].name]
          /\ summary[Len(summary)].name = Current
      BY <1>4, <1>9, <1>11, <1>24, <1>32
    <3>3. /\ owed[summary[Len(summary)].name] \in Seq(Nat)
          /\ Len(owed'[summary[Len(summary)].name]) = Len(owed[summary[Len(summary)].name]) + size
          /\ \A k \in 1 .. Len(owed[summary[Len(summary)].name]) :
                owed'[summary[Len(summary)].name][k] = owed[summary[Len(summary)].name][k]
          /\ \A k \in 1 .. size :
                owed'[summary[Len(summary)].name][Len(owed[summary[Len(summary)].name]) + k] = last + k
      <4>1. o \in Seq(Nat) BY <1>4
      <4> HIDE DEF m
      <4> QED BY <3>1, <3>2, <4>1 DEF o
    <3> HIDE DEF m, o
    <3> QED BY <1>7, <3>2, <3>3, CoversWrite
  <2>2. InHand' = 0
    <3>1. Len(<<>>) = 0 BY SMT
    <3>2. 0 + ((writer.bytes + size) - (writer.bytes + size)) = 0 BY <1>8, <1>9, SMT
    <3> QED BY <1>5, <1>22, <3>1, <3>2 DEF InHand
  <2>3. Covers(summary, owed, Start, taken)' BY <1>2, <1>5, <1>11, <2>1
  <2>4. taken \in Start .. taken /\ taken + 0 = taken BY <1>8, <1>11, SMT
  <2> QED BY <1>2, <1>5, <2>2, <2>3, <2>4 DEF HeldInv
<1> QED BY <1>2, <1>21, <1>25, <1>26, <1>27, <1>28, <1>29, <1>30, <1>33, <1>34, <1>35 DEF SessionInv, Types

-----------------------------------------------------------------------------
(* A power loss and a new process.                                         *)
LEMMA RemainsFacts ==
  ASSUME NEW f \in Segments, f.safe.len <= Len(f.data), NEW g \in Remains(f)
  PROVE  /\ g \in Segments /\ g.safe = f.safe /\ g.named = f.named
         /\ f.safe.len <= Len(g.data)
         /\ \A k \in 1 .. f.safe.len : g.data[k] = f.data[k]
<1>1. f.safe.len \in Nat /\ f.data \in Seq(Nat) /\ f.safe.header \in Headers /\ f.headers \in SUBSET Headers
  BY DEF Segments
<1>2. PICK h \in f.headers \cup {f.safe.header}, n \in f.safe.len .. Len(f.data), kept \in KeptSets(f) :
        g = Torn(f, h, n, kept)
  BY DEF Remains
<1>3. PICK more \in SUBSET (f.safe.len + 1 .. Len(f.data)) : kept = 1 .. f.safe.len \cup more
  BY <1>2 DEF KeptSets
<1> DEFINE data == [i \in 1 .. n |-> IF i \in kept THEN f.data[i] ELSE 0]
<1>4. n \in Nat /\ f.safe.len <= n /\ n <= Len(f.data) /\ Len(f.data) \in Nat
  <2>1. Len(f.data) \in Nat BY <1>1
  <2>2. n \in f.safe.len .. Len(f.data) BY <1>2
  <2> QED BY <1>1, <2>1, <2>2, SMT
<1>5. \A i \in 1 .. n : i \in 1 .. Len(f.data) BY <1>4, SMT
<1>6. \A i \in 1 .. n : data[i] \in Nat
  <2>1. \A i \in 1 .. Len(f.data) : f.data[i] \in Nat BY <1>1, ElementInSet
  <2> QED BY <1>5, <2>1
<1>7. \A k \in 1 .. f.safe.len : k \in 1 .. n /\ k \in kept BY <1>1, <1>3, <1>4, SMT
<1>8. \A k \in 1 .. f.safe.len : data[k] = f.data[k] BY <1>7
<1>9. data = [i \in 1 .. n |-> data[i]] OBVIOUS
<1>10. g = [f EXCEPT !.header = h, !.headers = {h}, !.data = data] BY <1>2 DEF Torn
<1> HIDE DEF data
<1>11. data \in Seq(Nat) /\ Len(data) = n BY <1>4, <1>6, <1>9, MadeSequence
<1>12. h \in Headers /\ {h} \in SUBSET Headers BY <1>1, <1>2
<1>13. g \in Segments /\ g.safe = f.safe /\ g.named = f.named /\ g.data = data
  BY <1>10, <1>11, <1>12 DEF Segments
<1> QED BY <1>4, <1>8, <1>11, <1>13

LEMMA LossKeeps ==
  ASSUME SessionInv, PowerLoss, ProcessTypes'
  PROVE  SessionInv'
<1>1. /\ FileTypes /\ WriterTypes /\ StepInv /\ PartInv /\ SinceInv /\ BlockInv /\ SummaryInv /\ SafeInv
      /\ EndInv
  BY DEF SessionInv, Types
<1>2. /\ main' = "lost" /\ main \notin {"setup", "record", "lost"}
      /\ pc' = (IF pc = "none" THEN "none" ELSE "off")
      /\ UNCHANGED <<writer, part, summary, meta, block, stopping, taken, outcome, exit, from,
                     dropped, Start>>
      /\ FilesLost
  BY DEF PowerLoss, WorkerEnds, historyVars, Start
<1>3. Open' = Open /\ Current' = Current BY <1>2 DEF Open, Current
(* Only the open segment loses anything, and nothing that is safe.         *)
<1>4. /\ FileTypes' /\ DOMAIN files' \subseteq DOMAIN files
      /\ \A n \in DOMAIN files : ~(Open /\ n = Current) =>
            n \in DOMAIN files' /\ files'[n] = files[n] /\ owed'[n] = owed[n]
      /\ Open /\ Current \in DOMAIN files' =>
            /\ Current \in DOMAIN files /\ owed'[Current] = owed[Current]
            /\ files'[Current].safe = files[Current].safe
            /\ \A k \in 1 .. files[Current].safe.len : files'[Current].data[k] = files[Current].data[k]
      /\ ~Open => UNCHANGED <<files, owed>>
  <2>1. CASE ~Open /\ UNCHANGED fileVars BY <1>1, <2>1 DEF fileVars, FileTypes
  <2>2. CASE Open /\ \E f \in Remains(files[Current]) : files' = [files EXCEPT ![Current] = f] /\ UNCHANGED owed
    <3>1. Current \in DOMAIN files
      <4>1. OpenInv BY DEF SessionInv
      <4> QED BY <1>2, <2>2, <4>1 DEF OpenInv
    <3>2. PICK g \in Remains(files[Current]) : files' = [files EXCEPT ![Current] = g] BY <2>2
    <3>3. files[Current] \in Segments /\ files[Current].safe.len <= Len(files[Current].data)
      BY <1>1, <3>1 DEF FileTypes
    <3>4. /\ g \in Segments /\ g.safe = files[Current].safe /\ g.safe.len <= Len(g.data)
          /\ \A k \in 1 .. files[Current].safe.len : g.data[k] = files[Current].data[k]
      BY <3>3, RemainsFacts
    <3>5. /\ DOMAIN files' = DOMAIN files /\ files'[Current] = g /\ FileTypes'
          /\ \A n \in DOMAIN files : n # Current => files'[n] = files[n]
      BY <1>1, <2>2, <3>1, <3>2, <3>4, ChangeFile
    <3> QED BY <2>2, <3>1, <3>4, <3>5
  <2>3. CASE /\ Open /\ files' = Restrict(files, DOMAIN files \ {Current})
             /\ owed' = Restrict(owed, DOMAIN owed \ {Current})
    <3> DEFINE S == DOMAIN files \ {Current}
    <3>1. DOMAIN owed = DOMAIN files BY <1>1 DEF FileTypes
    <3>2. /\ DOMAIN files' = S /\ DOMAIN owed' = S
          /\ \A n \in S : files'[n] = files[n] /\ owed'[n] = owed[n]
          /\ files' = [n \in S |-> files'[n]] /\ owed' = [n \in S |-> owed'[n]]
      BY <2>3, <3>1 DEF Restrict
    <3>3. IsFiniteSet(S) BY <1>1, FS_Subset DEF FileTypes
    <3>4. \A n \in S : files[n] \in Segments /\ owed[n] \in Seq(Nat) /\ files[n].safe.len <= Len(files[n].data)
      BY <1>1 DEF FileTypes
    <3>5. FileTypes'
      <4>1. S \subseteq FileNames BY <1>1 DEF FileTypes
      <4> HIDE DEF S
      <4> QED BY <3>2, <3>3, <3>4, <4>1 DEF FileTypes
    <3> QED BY <2>3, <3>2, <3>5
  <2> QED BY <1>2, <2>1, <2>2, <2>3 DEF FilesLost
<1>5. WriterTypes' BY <1>1, <1>2, <1>3 DEF WriterTypes
<1>6. StepInv'
  <2>1. pc' \notin Opened /\ pc' \in {"none", "off"} BY <1>2 DEF Opened
  <2>2. pc' \in Closed => pc = "none" /\ pc' = "none" BY <1>2 DEF Closed, Startup
  <2>3. pc' \in Startup => pc = "none" BY <1>2 DEF Startup
  <2>4. "none" \in Closed /\ "none" \in Startup BY DEF Closed, Startup
  <2> QED BY <1>1, <1>2, <1>3, <2>1, <2>2, <2>3, <2>4 DEF StepInv
<1>7. PartInv'
  <2>1. part \in Nat /\ taken \in Nat BY <1>1 DEF WriterTypes
  <2>2. ~Opening' BY <1>2 DEF Opening
  <2>3. part <= MaxParts + taken
    <3> HIDE DEF Opening
    <3> QED BY <1>1, <2>1, Sizes, SMT DEF PartInv
  <2> QED BY <1>2, <2>1, <2>2, <2>3, Sizes, SMT DEF PartInv
<1>8. OpenInv' BY <1>2 DEF OpenInv
<1>9. SinceInv'
  <2>1. pc' \notin Carrying \cup {"ready"} BY <1>2 DEF Carrying
  <2> QED BY <1>1, <1>2, <1>3, <1>4, <2>1 DEF SinceInv
<1>10. BlockInv'
  <2>1. pc' # "data" /\ (pc' \notin Carrying \cup {"off"} => pc \notin Carrying \cup {"off"})
    BY <1>2 DEF Carrying
  <2> QED BY <1>1, <1>2, <2>1 DEF BlockInv
<1>11. \A i \in 1 .. Len(summary) : summary[i].name \in DOMAIN files BY <1>1, <1>2 DEF SummaryInv, Lost
<1>12. SummaryInv'
  <2>1. ASSUME NEW i \in 1 .. Len(summary), ~(Open /\ summary[i].name = Current)
        PROVE  /\ summary[i].name \in DOMAIN files'
               /\ files'[summary[i].name] = files[summary[i].name]
               /\ owed'[summary[i].name] = owed[summary[i].name]
    BY <1>4, <1>11, <2>1
  <2> QED BY <1>1, <1>2, <1>3, <2>1 DEF SummaryInv, Lost
<1>13. SafeInv'
  <2>1. ASSUME NEW i \in 1 .. Len(summary), summary[i].name \in DOMAIN files'
        PROVE  LET h == files'[summary[i].name]  o == owed'[summary[i].name] IN
               /\ h.safe.len <= Len(o) /\ \A k \in 1 .. h.safe.len : h.data[k] = o[k]
               /\ h.safe.header # NoHeader => h.safe.header <= h.safe.len
    <3>1. LET h == files[summary[i].name]  o == owed[summary[i].name] IN
               /\ h.safe.len <= Len(o) /\ \A k \in 1 .. h.safe.len : h.data[k] = o[k]
               /\ h.safe.header # NoHeader => h.safe.header <= h.safe.len
      BY <1>1, <1>11 DEF SafeInv
    <3>2. CASE Open /\ summary[i].name = Current BY <1>4, <2>1, <3>1, <3>2
    <3>3. CASE ~(Open /\ summary[i].name = Current) BY <1>4, <1>11, <3>1, <3>3
    <3> QED BY <3>2, <3>3
  <2> QED BY <1>2, <2>1 DEF SafeInv
<1>14. HeldInv' BY <1>2 DEF HeldInv
<1>15. EndInv'
  <2>1. pc \in {"done", "off"} => pc' \in {"done", "off"} BY <1>2
  <2>2. pc' # "done" BY <1>2
  <2>3. ASSUME outcome' = "success" \/ exit' = 0
        PROVE  ~Open' /\ Covers(summary, owed, Start, taken)' /\ pc' \in {"done", "off"}
    <3>1. ~Open /\ Covers(summary, owed, Start, taken) /\ pc \in {"done", "off"}
      BY <1>1, <1>2, <2>3 DEF EndInv
    <3>2. UNCHANGED <<files, owed>> BY <1>4, <3>1
    <3>3. Covers(summary, owed, Start, taken)' BY <1>2, <3>1, <3>2 DEF Covers
    <3> QED BY <1>3, <2>1, <3>1, <3>3
  <2> QED BY <2>2, <2>3 DEF EndInv
<1> QED BY <1>4, <1>5, <1>6, <1>7, <1>8, <1>9, <1>10, <1>12, <1>13, <1>14, <1>15 DEF SessionInv, Types

LEMMA RestartKeeps ==
  ASSUME SessionInv, Restart, ProcessTypes'
  PROVE  SessionInv'
<1>1. FileTypes /\ WriterTypes BY DEF SessionInv, Types
<1>2. /\ files' = [n \in DOMAIN files |-> Synced(files[n])]
      /\ owed' = [n \in DOMAIN files |-> files[n].data]
      /\ writer' = NoWriter /\ part' = 0 /\ summary' = <<>>
      /\ meta' = 0 /\ block' = <<>> /\ stopping' = FALSE /\ taken' = taken
      /\ main' = "setup" /\ pc' = "none" /\ outcome' = "none" /\ exit' = -1 /\ from' = taken
      /\ dropped' = 0
  BY DEF Restart, FilesFound
<1>3. ASSUME NEW n \in DOMAIN files
      PROVE  /\ Synced(files[n]) \in Segments /\ files[n].data \in Seq(Nat)
             /\ Synced(files[n]).safe.len <= Len(Synced(files[n]).data)
  <2>1. files[n] \in Segments BY <1>1 DEF FileTypes
  <2>2. files[n].data \in Seq(Nat) BY <2>1 DEF Segments
  <2>3. /\ Synced(files[n]) \in Segments /\ Synced(files[n]).data = files[n].data
        /\ Synced(files[n]).safe.len = Len(files[n].data)
    BY <2>1, SyncedFacts
  <2>4. Len(files[n].data) <= Len(files[n].data) BY <2>2
  <2> QED BY <2>2, <2>3, <2>4
<1>4. FileTypes' BY <1>1, <1>2, <1>3 DEF FileTypes
<1>5. NoWriter \in Writers /\ ~Open' /\ NoWriter.offset = 0 /\ NoWriter.bytes = 0
  BY <1>2 DEF Open, NoWriter, Writers, RateOrNone
<1>6. <<>> \in Seq(Entries) /\ <<>> \in Seq(Nat) /\ Len(<<>>) = 0 /\ 1 .. 0 = {} BY SMT
<1>7. taken \in Nat /\ taken <= MaxUnits /\ taken <= taken BY <1>1 DEF WriterTypes
<1>0. Start' = taken BY <1>2, <1>7, SMT DEF Start
<1>8. WriterTypes'
  <2>1. 0 \in Nat /\ 0 \in RateOrNone BY DEF RateOrNone
  <2> QED BY <1>0, <1>2, <1>5, <1>6, <1>7, <2>1, Zenon DEF WriterTypes
<1>9. StepInv' BY <1>0, <1>2, <1>5 DEF StepInv, Opened, Ended
<1>10. PartInv'
  <2>1. ~Opening' BY <1>2 DEF Opening
  <2> QED BY <1>2, <1>7, <2>1, Sizes, SMT DEF PartInv
<1>11. OpenInv' /\ SinceInv' BY <1>5 DEF OpenInv, SinceInv
<1>12. BlockInv' BY <1>2, <1>6 DEF BlockInv
<1>13. SummaryInv' /\ SafeInv' BY <1>2, <1>6 DEF SummaryInv, SafeInv
<1>14. HeldInv'
  <2>1. Covers(<<>>, owed', taken, taken) BY <1>7, CoversEmpty
  <2>2. Covers(summary, owed, Start, taken)' BY <1>0, <1>2, <2>1
  <2>3. 0 + (0 - 0) = 0 /\ taken + 0 = taken /\ taken \in taken .. taken BY <1>7, SMT
  <2>4. InHand' = 0 BY <1>2, <1>5, <1>6, <2>3 DEF InHand
  <2> QED BY <1>0, <1>2, <2>2, <2>3, <2>4 DEF HeldInv
<1>15. EndInv' BY <1>2 DEF EndInv
<1> QED BY <1>4, <1>8, <1>9, <1>10, <1>11, <1>12, <1>13, <1>14, <1>15 DEF SessionInv, Types

-----------------------------------------------------------------------------
(* Every step keeps the invariant.                                         *)
LEMMA StepKeeps ==
  ASSUME SessionInv, [Next]_vars
  PROVE  SessionInv'
<1>1. Types /\ StepInv BY DEF SessionInv
<1>2. ProcessTypes' BY <1>1, ProcessTypesStep
<1>3. CASE Busy
  <2>1. CASE Receive
    BY <1>2, <1>3, <2>1, MetadataKeeps, OpenBlockKeeps, DroppedBlockKeeps DEF Receive
  <2>2. CASE Segment
    BY <1>2, <1>3, <2>2, CreateKeeps, RestKeeps, SomeKeeps, RewriteKeeps, CheckpointKeeps, FinalKeeps,
       FailKeeps DEF Segment
  <2>3. CASE StopSeen BY <1>2, <1>3, <2>3, StopKeeps DEF StopSeen
  <2>4. CASE OpenNext BY <1>2, <1>3, <2>4, OpenKeeps DEF OpenNext
  <2>5. CASE PublishSpace BY <1>2, <1>3, <2>5, ReadyKeeps DEF PublishSpace
  <2> QED BY <1>3, <2>1, <2>2, <2>3, <2>4, <2>5 DEF Busy
<1>4. CASE WorkerIdle \/ MainStep \/ Kill \/ UNCHANGED vars
  <2>1. Idle BY <1>1, <1>4, IdleStep
  <2> QED BY <1>2, <2>1, IdleKeeps
<1>5. CASE PowerLoss BY <1>2, <1>5, LossKeeps
<1>6. CASE Restart BY <1>2, <1>6, RestartKeeps
<1> QED BY <1>3, <1>4, <1>5, <1>6, Cases

THEOREM SessionInvariant == Spec => []SessionInv
<1>1. Init => SessionInv BY InitSession
<1>2. SessionInv /\ [Next]_vars => SessionInv' BY StepKeeps
<1> QED BY <1>1, <1>2, PTL DEF Spec

-----------------------------------------------------------------------------
(* What the invariant says.                                                *)
LEMMA SubSeqSame ==
  ASSUME NEW s \in Seq(Nat), NEW t \in Seq(Nat), NEW n \in Nat, n <= Len(s), n <= Len(t),
         \A k \in 1 .. n : s[k] = t[k]
  PROVE  SubSeq(s, 1, n) = SubSeq(t, 1, n)
<1> DEFINE a == SubSeq(s, 1, n)
           b == SubSeq(t, 1, n)
<1>1. a \in Seq(Nat) /\ Len(a) = n /\ \A k \in 1 .. n : a[k] = s[k] BY SMTT(30)
<1>2. b \in Seq(Nat) /\ Len(b) = n /\ \A k \in 1 .. n : b[k] = t[k] BY SMTT(30)
<1> HIDE DEF a, b
<1>3. \A k \in 1 .. Len(a) : a[k] = b[k] BY <1>1, <1>2
<1> QED BY <1>1, <1>2, <1>3, SeqEqual

(* The variables keep their types.                                         *)
LEMMA TypesHold ==
  ASSUME SessionInv
  PROVE  TypeOK
<1>1. FileTypes /\ WriterTypes /\ ProcessTypes /\ PartInv BY DEF SessionInv, Types
<1>2. ASSUME NEW n \in DOMAIN files
      PROVE  /\ files[n].header \in 0 .. NoHeader /\ files[n].safe.header \in 0 .. NoHeader
             /\ files[n].safe.len \in 0 .. Len(files[n].data)
  <2>1. files[n] \in Segments /\ files[n].safe.len <= Len(files[n].data) BY <1>1 DEF FileTypes
  <2>2. /\ files[n].header \in Headers /\ files[n].safe.header \in Headers
        /\ files[n].safe.len \in Nat /\ files[n].data \in Seq(Nat)
    BY <2>1 DEF Segments
  <2>3. Len(files[n].data) \in Nat BY <2>2
  <2>4. files[n].safe.len \in 0 .. Len(files[n].data) BY <2>1, <2>2, <2>3, SMT
  <2> QED BY <2>2, <2>4 DEF Headers
<1>3. part \in 0 .. MaxParts + MaxUnits /\ taken \in 0 .. MaxUnits
  <2>1. part \in Nat /\ taken \in Nat /\ taken <= MaxUnits BY <1>1 DEF WriterTypes
  <2>2. part <= MaxParts + taken
    <3> HIDE DEF Opening
    <3> QED BY <1>1, <2>1, Sizes, SMT DEF PartInv
  <2> QED BY <2>1, <2>2, Sizes, SMT
<1>4. status.kind \in {"starting", "active", "failed", "stopped"} BY <1>1 DEF ProcessTypes, Statuses
<1>5. dropped \in 0 .. taken
  <2>1. from \in Nat /\ dropped \in Nat /\ taken \in Nat /\ Start <= taken BY <1>1 DEF WriterTypes
  <2> QED BY <2>1, SMT DEF Start
<1> QED BY <1>1, <1>2, <1>3, <1>4, <1>5 DEF TypeOK, FileTypes, ProcessTypes

(* Where no segment was lost with the power, all of them are there.        *)
LEMMA SegmentsThere ==
  ASSUME SessionInv, main # "lost" \/ ~Open
  PROVE  /\ summary \in Seq(Entries) /\ DOMAIN summary = 1 .. Len(summary)
         /\ \A i \in 1 .. Len(summary) : LET n == summary[i].name IN
               /\ n \in DOMAIN files /\ files[n].data \in Seq(Nat) /\ owed[n] \in Seq(Nat)
               /\ DOMAIN owed[n] = 1 .. Len(owed[n]) /\ DOMAIN files[n].data = 1 .. Len(files[n].data)
               /\ summary[i].units = Len(owed[n]) /\ files[n].header <= Len(owed[n])
<1>1. FileTypes /\ WriterTypes /\ SummaryInv BY DEF SessionInv, Types
<1>2. summary \in Seq(Entries) /\ DOMAIN summary = 1 .. Len(summary) BY <1>1 DEF WriterTypes
<1>3. ASSUME NEW i \in 1 .. Len(summary)
      PROVE  LET n == summary[i].name IN
               /\ n \in DOMAIN files /\ files[n].data \in Seq(Nat) /\ owed[n] \in Seq(Nat)
               /\ DOMAIN owed[n] = 1 .. Len(owed[n]) /\ DOMAIN files[n].data = 1 .. Len(files[n].data)
               /\ summary[i].units = Len(owed[n]) /\ files[n].header <= Len(owed[n])
  <2> DEFINE n == summary[i].name
  <2>1. ~Lost(n) BY DEF Lost
  <2>2. n \in DOMAIN files /\ summary[i].units = Len(owed[n]) /\ files[n].header <= Len(owed[n])
    BY <1>1, <2>1 DEF SummaryInv
  <2> HIDE DEF n
  <2>3. files[n] \in Segments /\ owed[n] \in Seq(Nat) BY <1>1, <2>2 DEF FileTypes
  <2>4. files[n].data \in Seq(Nat) BY <2>3 DEF Segments
  <2>5. DOMAIN owed[n] = 1 .. Len(owed[n]) /\ DOMAIN files[n].data = 1 .. Len(files[n].data)
    BY <2>3, <2>4
  <2> QED BY <2>2, <2>3, <2>4, <2>5 DEF n
<1> QED BY <1>2, <1>3

LEMMA CoversIsHeld ==
  ASSUME SessionInv, main # "lost" \/ ~Open, NEW last, Covers(summary, owed, Start, last)
  PROVE  HeldUpTo(last)
<1>1. /\ DOMAIN summary = 1 .. Len(summary)
      /\ \A i \in 1 .. Len(summary) : DOMAIN owed[summary[i].name] = 1 .. Len(owed[summary[i].name])
  BY SegmentsThere
<1>2. PICK cut \in [1 .. Len(summary) + 1 -> Start .. last] :
        /\ cut[1] = Start /\ cut[Len(summary) + 1] = last
        /\ \A i \in 1 .. Len(summary) :
               /\ Len(owed[summary[i].name]) = cut[i + 1] - cut[i]
               /\ \A k \in 1 .. Len(owed[summary[i].name]) : owed[summary[i].name][k] = cut[i] + k
  BY Zenon DEF Covers
<1>3. \A i \in DOMAIN summary :
         /\ Len(owed[summary[i].name]) = cut[i + 1] - cut[i]
         /\ \A k \in DOMAIN owed[summary[i].name] : owed[summary[i].name][k] = cut[i] + k
  BY <1>1, <1>2
<1>4. Start .. last \subseteq from .. last
  <2>1. from \in Nat /\ dropped \in Nat BY DEF SessionInv, Types, WriterTypes
  <2> QED BY <2>1, SMT DEF Start
<1>5. cut \in [1 .. Len(summary) + 1 -> from .. last] BY <1>2, <1>4
<1> QED BY <1>2, <1>3, <1>5, Zenon DEF HeldUpTo, Start

(* The take is in the segments.                                            *)
LEMMA TakeHeld ==
  ASSUME SessionInv
  PROVE  SegmentsHoldTheTake
<1> SUFFICES ASSUME main # "lost"
             PROVE  /\ \E last \in from .. taken : HeldUpTo(last) /\ (pc = "ready" => last = taken)
                    /\ Open => FitsHeader(writer.bytes)
                    /\ \A i \in DOMAIN summary : LET n == summary[i].name IN
                        /\ IsPrefix(owed[n], files[n].data)
                        /\ summary[i].units = Len(owed[n])
                        /\ files[n].header <= Len(owed[n])
  BY DEF SegmentsHoldTheTake
<1>1. WriterTypes /\ OpenInv /\ BlockInv /\ SummaryInv /\ HeldInv BY DEF SessionInv, Types
<1>2. PICK last \in Start .. taken : /\ Covers(summary, owed, Start, last)
                                     /\ pc \notin Broken => last + InHand = taken
  BY <1>1 DEF HeldInv
<1>3. HeldUpTo(last) BY <1>2, CoversIsHeld
<1>4. pc = "ready" => last = taken
  <2> SUFFICES ASSUME pc = "ready" PROVE last = taken OBVIOUS
  <2>1. last + InHand = taken BY <1>2 DEF Broken
  <2>2. Len(block) = 0
    <3>1. block = <<>> BY <1>1 DEF BlockInv, Carrying
    <3>2. Len(<<>>) = 0 BY SMT
    <3> QED BY <3>1, <3>2
  <2>3. writer.offset = writer.bytes
    <3>1. CASE Open BY <1>1, <3>1 DEF OpenInv, Broken
    <3>2. CASE ~Open BY <3>2 DEF Open, NoWriter
    <3> QED BY <3>1, <3>2
  <2>4. writer.bytes \in Nat /\ last \in Int
    <3>1. Start \in Nat /\ taken \in Nat /\ writer.bytes \in Nat BY <1>1 DEF WriterTypes, Writers
    <3> QED BY <1>2, <3>1, SMT
  <2>5. InHand = 0
    <3>1. 0 + (writer.bytes - writer.bytes) = 0 BY <2>4, SMT
    <3> QED BY <2>2, <2>3, <3>1 DEF InHand
  <2> QED BY <2>1, <2>4, <2>5, SMT
<1>5. Open => FitsHeader(writer.bytes) BY <1>1 DEF OpenInv
<1>6. ASSUME NEW i \in DOMAIN summary
      PROVE  LET n == summary[i].name IN
             /\ IsPrefix(owed[n], files[n].data)
             /\ summary[i].units = Len(owed[n])
             /\ files[n].header <= Len(owed[n])
  <2> DEFINE n == summary[i].name
             o == owed[n]
             d == files[n].data
  <2>1. i \in 1 .. Len(summary) BY SegmentsThere
  <2>2. /\ d \in Seq(Nat) /\ o \in Seq(Nat)
        /\ summary[i].units = Len(o) /\ files[n].header <= Len(o)
    BY <2>1, SegmentsThere
  <2>3. Len(o) <= Len(d) /\ \A k \in 1 .. Len(o) : o[k] = d[k]
    <3>1. CASE Open /\ n = Current
      <4>1. /\ writer.bytes = Len(owed[Current]) /\ writer.bytes <= writer.offset
            /\ writer.offset = Len(files[Current].data)
            /\ \A k \in 1 .. writer.bytes : files[Current].data[k] = owed[Current][k]
        BY <1>1, <3>1 DEF OpenInv
      <4> QED BY <3>1, <4>1
    <3>2. CASE ~(Open /\ n = Current)
      <4>1. d = o BY <1>1, <2>1, <3>2 DEF SummaryInv
      <4>2. Len(o) \in Nat BY <2>2
      <4>3. Len(o) <= Len(o) BY <4>2, SMT
      <4> QED BY <4>1, <4>3
    <3> QED BY <3>1, <3>2
  <2> HIDE DEF n, o, d
  <2>4. IsPrefix(o, d) BY <2>2, <2>3, SMT DEF IsPrefix
  <2> QED BY <2>2, <2>4 DEF n, o, d
<1>7. last \in from .. taken
  <2>1. from \in Nat /\ dropped \in Nat /\ taken \in Nat BY <1>1 DEF WriterTypes
  <2> QED BY <1>2, <2>1, SMT DEF Start
<1> QED BY <1>3, <1>4, <1>5, <1>6, <1>7

(* A checkpoint bounds what is lost.                                       *)
LEMMA LossBounded ==
  ASSUME SessionInv
  PROVE  CheckpointBoundsLoss
<1>1. FileTypes /\ WriterTypes /\ SafeInv /\ SinceInv BY DEF SessionInv, Types
<1>2. DOMAIN summary = 1 .. Len(summary) BY <1>1 DEF WriterTypes
<1>3. ASSUME NEW n \in Range(Names) \cap DOMAIN files
      PROVE  LET f == files[n] IN
             /\ SubSeq(f.data, 1, f.safe.len) = SubSeq(owed[n], 1, f.safe.len)
             /\ f.safe.header # NoHeader => f.safe.header <= f.safe.len
  <2>1. PICK i \in 1 .. Len(summary) : n = summary[i].name BY <1>2, <1>3 DEF Range, Names
  <2> DEFINE f == files[n]
             o == owed[n]
  <2>2. /\ f.safe.len <= Len(o) /\ \A k \in 1 .. f.safe.len : f.data[k] = o[k]
        /\ f.safe.header # NoHeader => f.safe.header <= f.safe.len
    BY <1>1, <1>3, <2>1 DEF SafeInv
  <2>3. f \in Segments /\ f.safe.len <= Len(f.data) /\ o \in Seq(Nat) BY <1>1, <1>3 DEF FileTypes
  <2>4. f.data \in Seq(Nat) /\ f.safe.len \in Nat BY <2>3 DEF Segments
  <2>5. SubSeq(f.data, 1, f.safe.len) = SubSeq(o, 1, f.safe.len)
    <3> HIDE DEF f, o
    <3> QED BY <2>2, <2>3, <2>4, SubSeqSame
  <2> QED BY <2>2, <2>5
<1>4. ASSUME Open, Current \in DOMAIN files
      PROVE  LET f == files[Current] IN
             /\ Len(owed[Current]) - f.safe.len < Window + MaxBlock
             /\ pc = "ready" => Len(owed[Current]) - f.safe.len < Window
  <2> DEFINE a == files[Current].safe.len
             b == writer.since
             c == Len(owed[Current])
  <2>1. a + b = c BY <1>1, <1>4 DEF SinceInv
  <2>2. a \in Nat /\ b \in Nat
    <3>1. files[Current] \in Segments BY <1>1, <1>4 DEF FileTypes
    <3> QED BY <1>1, <3>1 DEF Segments, WriterTypes, Writers
  <2>3. c - a = b
    <3> HIDE DEF a, b, c
    <3> QED BY <2>1, <2>2, SMT
  <2>4. b < Window + MaxBlock /\ (pc = "ready" => b < Window)
    BY <1>1, <1>4 DEF SinceInv
  <2> QED BY <2>3, <2>4
<1> QED BY <1>3, <1>4 DEF CheckpointBoundsLoss

(* Exit code zero.                                                         *)
LEMMA ExitIsTrue ==
  ASSUME SessionInv
  PROVE  ZeroMeansKept
<1> SUFFICES ASSUME exit = 0
             PROVE  /\ HeldUpTo(taken)
                    /\ \A i \in DOMAIN summary : LET f == files[summary[i].name] IN
                        f.named /\ f.header = Len(f.data) /\ f.data = owed[summary[i].name]
  BY DEF ZeroMeansKept
<1>1. SummaryInv /\ EndInv BY DEF SessionInv
<1>2. ~Open /\ Covers(summary, owed, Start, taken) BY <1>1 DEF EndInv
<1>3. HeldUpTo(taken) BY <1>2, CoversIsHeld
<1>4. DOMAIN summary = 1 .. Len(summary) BY <1>2, SegmentsThere
<1> QED BY <1>1, <1>2, <1>3, <1>4 DEF SummaryInv

-----------------------------------------------------------------------------
(* What is safe stays.                                                     *)
Kept(n) ==
    /\ n \in DOMAIN files' /\ files'[n].data \in Seq(Nat)
    /\ files[n].safe.len <= Len(files'[n].data)
    /\ \A k \in 1 .. files[n].safe.len : files'[n].data[k] = files[n].data[k]

LEMMA KeptSame ==
  ASSUME FileTypes, NEW n \in DOMAIN files, n \in DOMAIN files', files'[n].data = files[n].data
  PROVE  Kept(n)
<1>1. files[n] \in Segments /\ files[n].safe.len <= Len(files[n].data) BY DEF FileTypes
<1>2. files[n].data \in Seq(Nat) BY <1>1 DEF Segments
<1> QED BY <1>1, <1>2 DEF Kept

(* A write at the end of the open segment, of any units.                   *)
LEMMA KeptWrite ==
  ASSUME FileTypes, Current \in DOMAIN files, writer.offset = Len(files[Current].data),
         NEW units \in Seq(Nat), NEW n \in DOMAIN files,
         files' = [files EXCEPT ![Current].data = WriteAt(@, writer.offset, units)]
  PROVE  Kept(n)
<1> DEFINE f == files[Current]
           w == WriteAt(f.data, Len(f.data), units)
<1>1. f \in Segments /\ f.safe.len <= Len(f.data) BY DEF FileTypes
<1>2. f.data \in Seq(Nat) /\ f.safe.len \in Nat BY <1>1 DEF Segments
<1>3. w \in Seq(Nat) /\ Len(w) = Len(f.data) + Len(units) /\ \A k \in 1 .. Len(f.data) : w[k] = f.data[k]
  BY <1>2, WriteAtEnd
<1>4. /\ DOMAIN files' = DOMAIN files /\ (n # Current => files'[n] = files[n])
      /\ files'[Current] = [f EXCEPT !.data = w]
  BY DEF FileTypes
<1>5. files'[Current].data = w
  <2> HIDE DEF w
  <2> QED BY <1>1, <1>4 DEF Segments
<1>6. CASE n # Current BY <1>4, <1>6, KeptSame
<1>7. CASE n = Current
  <2>1. Len(f.data) \in Nat /\ Len(units) \in Nat BY <1>2
  <2>2. f.safe.len <= Len(f.data) + Len(units) /\ \A k \in 1 .. f.safe.len : k \in 1 .. Len(f.data)
    <3> DEFINE a == f.safe.len
               b == Len(f.data)
               c == Len(units)
    <3>1. a \in Nat /\ b \in Nat /\ c \in Nat /\ a <= b BY <1>1, <1>2, <2>1
    <3> HIDE DEF a, b, c
    <3>2. a <= b + c /\ \A k \in 1 .. a : k \in 1 .. b BY <3>1, SMT
    <3> QED BY <3>2 DEF a, b, c
  <2> HIDE DEF w
  <2> QED BY <1>3, <1>4, <1>5, <1>7, <2>2 DEF Kept
<1> QED BY <1>6, <1>7

LEMMA StepKeepsFiles ==
  ASSUME SessionInv, [Next]_vars, NEW n \in DOMAIN files, files[n].named
  PROVE  Kept(n)
<1>1. FileTypes /\ WriterTypes /\ StepInv BY DEF SessionInv, Types
<1>2. CASE UNCHANGED files BY <1>1, <1>2, KeptSame
<1>3. CASE Restart
  <2>1. files'[n] = Synced(files[n]) /\ n \in DOMAIN files' BY <1>3 DEF Restart, FilesFound
  <2>2. files[n] \in Segments BY <1>1 DEF FileTypes
  <2>3. files'[n].data = files[n].data BY <2>1, <2>2, SyncedFacts
  <2> QED BY <1>1, <2>1, <2>3, KeptSame
<1>4. CASE PowerLoss /\ ~UNCHANGED files
  <2>1. Open /\ Current \in DOMAIN files
    <3>1. Open BY <1>4 DEF PowerLoss, FilesLost, fileVars
    <3>2. OpenInv /\ main # "lost" BY <1>4 DEF SessionInv, PowerLoss
    <3> QED BY <3>1, <3>2 DEF OpenInv
  <2>2. CASE \E f \in Remains(files[Current]) : files' = [files EXCEPT ![Current] = f]
    <3>1. PICK g \in Remains(files[Current]) : files' = [files EXCEPT ![Current] = g] BY <2>2
    <3>2. files[Current] \in Segments /\ files[Current].safe.len <= Len(files[Current].data)
      BY <1>1, <2>1 DEF FileTypes
    <3>3. /\ g \in Segments /\ g.safe = files[Current].safe /\ files[Current].safe.len <= Len(g.data)
          /\ \A k \in 1 .. files[Current].safe.len : g.data[k] = files[Current].data[k]
      BY <3>2, RemainsFacts
    <3>4. g.data \in Seq(Nat) BY <3>3 DEF Segments
    <3>5. /\ DOMAIN files' = DOMAIN files /\ files'[Current] = g
          /\ (n # Current => files'[n] = files[n])
      BY <1>1, <2>1, <3>1 DEF FileTypes
    <3>6. CASE n # Current BY <1>1, <3>5, <3>6, KeptSame
    <3>7. CASE n = Current BY <3>3, <3>4, <3>5, <3>7 DEF Kept
    <3> QED BY <3>6, <3>7
  <2>3. CASE ~files[Current].named /\ files' = Restrict(files, DOMAIN files \ {Current})
    <3>1. n # Current BY <2>3
    <3>2. n \in DOMAIN files' /\ files'[n] = files[n] BY <2>3, <3>1 DEF Restrict
    <3> QED BY <1>1, <3>2, KeptSame
  <2> QED BY <1>4, <2>1, <2>2, <2>3 DEF PowerLoss, FilesLost, fileVars
<1>5. CASE Segment /\ ~UNCHANGED files
  <2>1. Busy BY <1>5 DEF Busy
  <2>2. CASE \E t \in Times : Create(t)
    <3>1. PICK t \in Times : Create(t) BY <2>2
    <3>2. part' \in Nat BY <1>1, <3>1, SMT DEF Create, WriterTypes
    <3>3. FreeName(t, part') \notin DOMAIN files BY <1>1, <3>2, NameIsFree
    <3>4. files' = Extended(files, FreeName(t, part'), EmptyFile) BY <3>1 DEF Create
    <3>5. n \in DOMAIN files' /\ files'[n] = files[n] BY <3>3, <3>4 DEF Extended
    <3> QED BY <1>1, <3>5, KeptSame
  <2>3. CASE WriteRest
    <3>1. pc \in Opened BY <2>3 DEF WriteRest, Opened
    <3>2. Current \in DOMAIN files /\ writer.offset = Len(files[Current].data) /\ block \in Seq(Nat)
      BY <2>1, <3>1, WritingFacts
    <3>3. files' = [files EXCEPT ![Current].data = WriteAt(@, writer.offset, block)] BY <2>3 DEF WriteRest
    <3> QED BY <1>1, <3>2, <3>3, KeptWrite
  <2>4. CASE \E m \in 1 .. MaxBlock : WriteSome(m)
    <3>1. PICK m \in 1 .. MaxBlock : WriteSome(m) BY <2>4
    <3>2. pc \in Opened BY <3>1 DEF WriteSome, Opened
    <3>3. Current \in DOMAIN files /\ writer.offset = Len(files[Current].data) /\ block \in Seq(Nat)
      BY <2>1, <3>2, WritingFacts
    <3>4. files' = [files EXCEPT ![Current].data = WriteAt(@, writer.offset, SubSeq(block, 1, m))]
      BY <3>1 DEF WriteSome
    <3>5. SubSeq(block, 1, m) \in Seq(Nat)
      <4>1. m \in Nat BY MaxBlockIs, SMT
      <4>2. m < Len(block) BY <3>1 DEF WriteSome
      <4> QED BY <3>3, <4>1, <4>2, SMT
    <3> QED BY <1>1, <3>3, <3>4, <3>5, KeptWrite
  <2>5. CASE RewriteHeader
    <3>1. pc \in Opened BY <2>5 DEF RewriteHeader, Opened
    <3>2. /\ Current \in DOMAIN files /\ files[Current] \in Segments
          /\ writer.bytes \in Nat /\ FitsHeader(writer.bytes)
      BY <2>1, <3>1, WritingFacts
    <3>3. files' = [files EXCEPT ![Current] = WithHeader(files[Current], writer.bytes)]
      BY <2>5 DEF RewriteHeader
    <3>4. WithHeader(files[Current], writer.bytes).data = files[Current].data
      BY <3>2, FitsIsHeader, WithHeaderFacts
    <3>5. n \in DOMAIN files' /\ files'[n].data = files[n].data BY <1>1, <3>2, <3>3, <3>4 DEF FileTypes
    <3> QED BY <1>1, <3>5, KeptSame
  <2>6. CASE SyncCheckpoint \/ SyncFinal
    <3>1. pc \in Opened BY <2>6 DEF SyncCheckpoint, SyncFinal, Opened
    <3>2. Current \in DOMAIN files /\ files[Current] \in Segments BY <2>1, <3>1, WritingFacts
    <3>3. files' = [files EXCEPT ![Current] = Synced(files[Current])] BY <2>6 DEF SyncCheckpoint, SyncFinal
    <3>4. Synced(files[Current]).data = files[Current].data BY <3>2, SyncedFacts
    <3>5. n \in DOMAIN files' /\ files'[n].data = files[n].data BY <1>1, <3>2, <3>3, <3>4 DEF FileTypes
    <3> QED BY <1>1, <3>5, KeptSame
  <2>7. CASE FailIO BY <1>5, <2>7 DEF FailIO
  <2> QED BY <1>5, <2>2, <2>3, <2>4, <2>5, <2>6, <2>7 DEF Segment
<1>6. CASE OpenNext
  <2>1. Busy /\ pc \in Opened BY <1>6 DEF Busy, OpenNext, OpenSegment, Opened
  <2>2. Current \in DOMAIN files /\ files[Current] \in Segments BY <2>1, WritingFacts
  <2>3. files' = [files EXCEPT ![Current] = WithHeader(files[Current], 0)]
    BY <1>6 DEF OpenNext, OpenSegment
  <2>4. WithHeader(files[Current], 0).data = files[Current].data BY <2>2, Sizes, WithHeaderFacts
  <2>5. n \in DOMAIN files' /\ files'[n].data = files[n].data BY <1>1, <2>2, <2>3, <2>4 DEF FileTypes
  <2> QED BY <1>1, <2>5, KeptSame
<1>7. CASE Receive \/ StopSeen \/ PublishSpace
  <2>1. UNCHANGED files
    BY <1>7 DEF Receive, TakeMetadata, TakeBlock, StopSeen, TakeStop, PublishSpace, SegmentReady
  <2> QED BY <1>2, <2>1
<1>8. CASE WorkerIdle \/ MainStep \/ Kill \/ UNCHANGED vars
  <2>1. Idle BY <1>1, <1>8, IdleStep DEF SessionInv
  <2> QED BY <1>2, <2>1 DEF Idle, segmentVars, fileVars
<1> QED BY <1>2, <1>3, <1>4, <1>5, <1>6, <1>7, <1>8, Cases DEF Busy

LEMMA SafeStays ==
  ASSUME SessionInv, [Next]_vars
  PROVE  \A n \in DOMAIN files : files[n].named =>
            /\ n \in DOMAIN files' /\ files[n].safe.len <= Len(files'[n].data)
            /\ SubSeq(files'[n].data, 1, files[n].safe.len)
                = SubSeq(files[n].data, 1, files[n].safe.len)
<1> SUFFICES ASSUME NEW n \in DOMAIN files, files[n].named
             PROVE  /\ n \in DOMAIN files' /\ files[n].safe.len <= Len(files'[n].data)
                    /\ SubSeq(files'[n].data, 1, files[n].safe.len)
                        = SubSeq(files[n].data, 1, files[n].safe.len)
  OBVIOUS
<1>1. Kept(n) BY StepKeepsFiles
<1>2. files[n] \in Segments /\ files[n].safe.len <= Len(files[n].data) BY DEF SessionInv, Types, FileTypes
<1>3. files[n].safe.len \in Nat /\ files[n].data \in Seq(Nat) BY <1>2 DEF Segments
<1>4. SubSeq(files'[n].data, 1, files[n].safe.len) = SubSeq(files[n].data, 1, files[n].safe.len)
  BY <1>1, <1>2, <1>3, SubSeqSame DEF Kept
<1> QED BY <1>1, <1>4 DEF Kept

-----------------------------------------------------------------------------
(* The results.                                                            *)

(* The variables of the session keep their types.                          *)
THEOREM TypeCorrect == Spec => []TypeOK
<1>1. SessionInv => TypeOK BY TypesHold
<1> QED BY <1>1, SessionInvariant, PTL

(* One segment after the other holds the take: every unit the transport    *)
(* handed over, but for those dropped before the first segment, is in one  *)
(* of the session's files, in order and at its place, across short writes, *)
(* rollovers and changes of rate.                                          *)
THEOREM TakeIsHeld == Spec => []SegmentsHoldTheTake
<1>1. SessionInv => SegmentsHoldTheTake BY TakeHeld
<1> QED BY <1>1, SessionInvariant, PTL

(* A crash takes a window and the block in hand at most, and no header on  *)
(* the disk promises samples that are not.                                 *)
THEOREM CrashLosesLittle == Spec => []CheckpointBoundsLoss
<1>1. SessionInv => CheckpointBoundsLoss BY LossBounded
<1> QED BY <1>1, SessionInvariant, PTL

(* An exit code of zero is only given when every unit from the first       *)
(* segment on is in a finished file that has its name, and the header of   *)
(* each says all that is in it.  Blocks that arrive before the first       *)
(* segment can open are dropped without a word and are not part of this.   *)
THEOREM ZeroIsKept == Spec => []ZeroMeansKept
<1>1. SessionInv => ZeroMeansKept BY ExitIsTrue
<1> QED BY <1>1, SessionInvariant, PTL

(* No step of this or a later session, and no power loss, takes back what  *)
(* a sync has put on the disk.                                             *)
THEOREM SyncedStays == Spec => TakesAreKept
<1>1. SessionInv /\ [Next]_vars =>
        [\A n \in DOMAIN files : files[n].named =>
            /\ n \in DOMAIN files' /\ files[n].safe.len <= Len(files'[n].data)
            /\ SubSeq(files'[n].data, 1, files[n].safe.len)
                = SubSeq(files[n].data, 1, files[n].safe.len)]_vars
  BY SafeStays
<1> QED BY <1>1, SessionInvariant, PTL DEF Spec, TakesAreKept
=============================================================================
