---------------------------- MODULE PartitionLog ----------------------------
(***************************************************************************)
(* The durable write path of one partition: appendEncodedLocked (append,   *)
(* roll, write, fsync), createSegment, Close, and what openPartition and   *)
(* recoverSegment make of the files a crash leaves behind.                 *)
(*                                                                         *)
(* p.mu serialises the writers, so the only interleaving inside an append  *)
(* is with a fault.  The file system is split in what the page cache shows *)
(* (file, tail, dir) and what an fsync has made durable (durable,          *)
(* dirSynced): a process crash keeps the former, a power loss only the     *)
(* latter.                                                                 *)
(*                                                                         *)
(* All .log files of the partition are one function from offsets to append *)
(* attempts.  A batch is the set of offsets that carry its attempt number, *)
(* and an offset lives in the segment with the greatest base not above it. *)
(* The size of a batch is its number of records.                           *)
(***************************************************************************)
EXTENDS Integers, FiniteSets, FiniteSetsExt

CONSTANTS
    InitialOffset,  \* PartitionOptions.InitialOffset: base of the first segment
    SegmentBytes,   \* PartitionOptions.SegmentBytes, in records
    BatchRecords,   \* PartitionOptions.BatchRecords
    MaxOffset,      \* the v1 offset limit (validOffsetRange); bounds the model
    MaxAppends,     \* number of append attempts explored; bounds the model
    Faults          \* which faults the environment may inject

FaultKinds == {"createError", "dirSyncError", "writeError", "syncError",
               "readError", "processCrash", "powerLoss"}

ASSUME ConstantsAssumption ==
    /\ InitialOffset \in Nat
    /\ SegmentBytes \in Nat \ {0}
    /\ BatchRecords \in Nat \ {0}
    /\ MaxOffset \in Nat
    /\ InitialOffset <= MaxOffset
    /\ MaxAppends \in Nat
    /\ Faults \subseteq FaultKinds

VARIABLES
    file,        \* offset -> append attempt, complete batches in the page cache
    durable,     \* offsets whose bytes a file sync has covered
    tail,        \* bytes after the last complete batch of the final segment
    dir,         \* bases of the .log entries in the directory
    dirSynced,   \* the entries a directory sync has covered
    mode,        \* "open", "closed" or "refused" (open failed: corrupt)
    segments,    \* bases of p.segments
    logEnd,      \* p.logEnd; keeps its last value while the partition is down
    unavailable, \* p.unavailable
    writer,      \* the append holding p.mu
    acked,       \* batches whose append returned success
    appends,     \* number of append attempts so far
    found,       \* offsets the last open found, synced or not
    foundDir     \* entries the last open found or made

disk    == <<file, durable, tail, dir, dirSynced>>
process == <<mode, segments, logEnd, unavailable, writer>>
history == <<acked, appends, found, foundDir>>
vars    == <<disk, process, history>>

Tails == {"clean", "partialHeader", "partialBody", "badBatch"}
Steps == {"idle", "roll", "dirSync", "write", "sync", "failed"}

Batches == [id : 1..MaxAppends, base : InitialOffset..MaxOffset, n : 1..BatchRecords]

Idle == [step |-> "idle", id |-> 0, n |-> 0]

Span(base, n) == base .. (base + n - 1)

Active == Max(segments)

\* The segment of dir that holds offset o.
SegmentOf(o) == Max({b \in dir : b <= o})

FinalOffsets == {o \in DOMAIN file : Max(dir) <= o}

Extend(f, S, v) == [o \in (DOMAIN f) \cup S |-> IF o \in S THEN v ELSE f[o]]

Init ==
    /\ file = [o \in {} |-> 0] /\ durable = {} /\ tail = "clean"
    /\ dir = {} /\ dirSynced = {}
    /\ mode = "closed" /\ segments = {} /\ logEnd = InitialOffset
    /\ unavailable = FALSE /\ writer = Idle
    /\ acked = {} /\ appends = 0 /\ found = {} /\ foundDir = {}

-----------------------------------------------------------------------------
(* Append: appendEncodedLocked under p.mu.                                 *)

\* Mutant of BeginAppend: the offset range is not checked.
BeginAppendNoRange(n) ==
    /\ mode = "open" /\ writer.step = "idle" /\ ~unavailable
    /\ appends < MaxAppends
    /\ LET fits == (logEnd - Active) + n <= SegmentBytes
       IN  /\ fits \/ logEnd # Active
           /\ writer' = [step |-> IF fits THEN "write" ELSE "roll",
                         id |-> appends + 1, n |-> n]
    /\ appends' = appends + 1
    /\ UNCHANGED <<disk, mode, segments, logEnd, unavailable, acked, found, foundDir>>

\* Mutant of BeginAppend: the fence is not checked.
BeginAppendFenced(n) ==
    /\ mode = "open" /\ writer.step \in {"idle", "failed"}
    /\ appends < MaxAppends
    /\ logEnd + n <= MaxOffset
    /\ LET fits == (logEnd - Active) + n <= SegmentBytes
       IN  /\ fits \/ logEnd # Active
           /\ writer' = [step |-> IF fits THEN "write" ELSE "roll",
                         id |-> appends + 1, n |-> n]
    /\ appends' = appends + 1
    /\ UNCHANGED <<disk, mode, segments, logEnd, unavailable, acked, found, foundDir>>

\* Mutant of BeginAppend: the bytes already in the active segment are forgotten.
BeginAppendNoSize(n) ==
    /\ mode = "open" /\ writer.step = "idle" /\ ~unavailable
    /\ appends < MaxAppends
    /\ logEnd + n <= MaxOffset
    /\ n <= SegmentBytes
    /\ writer' = [step |-> "write", id |-> appends + 1, n |-> n]
    /\ appends' = appends + 1
    /\ UNCHANGED <<disk, mode, segments, logEnd, unavailable, acked, found, foundDir>>

\* The checks before the first side effect.  A batch that does not fit the
\* active segment rolls it, unless the active segment is empty: then the call
\* returns ErrRecordTooLarge and changes nothing.
BeginAppend(n) ==
    /\ mode = "open" /\ writer.step = "idle" /\ ~unavailable
    /\ appends < MaxAppends
    /\ logEnd + n <= MaxOffset
    /\ LET fits == (logEnd - Active) + n <= SegmentBytes
       IN  /\ fits \/ logEnd # Active
           /\ writer' = [step |-> IF fits THEN "write" ELSE "roll",
                         id |-> appends + 1, n |-> n]
    /\ appends' = appends + 1
    /\ UNCHANGED <<disk, mode, segments, logEnd, unavailable, acked, found, foundDir>>

\* Mutant of FailAppend: a failed append is not fenced; the next one goes on.
FailAppendUnfenced ==
    /\ writer' = Idle
    /\ UNCHANGED <<mode, segments, logEnd, unavailable, history>>

FailAppend ==
    /\ writer' = [writer EXCEPT !.step = "failed"]
    /\ unavailable' = TRUE
    /\ UNCHANGED <<mode, segments, logEnd, history>>

\* createSegment up to the rename: temporary file written, synced, closed, and
\* renamed over a name that must not exist.
RollRename ==
    /\ writer.step = "roll"
    /\ logEnd \notin dir
    /\ dir' = dir \cup {logEnd}
    /\ writer' = [writer EXCEPT !.step = "dirSync"]
    /\ UNCHANGED <<file, durable, tail, dirSynced, mode, segments, logEnd,
                   unavailable, history>>

\* Mutant of RollSync: the directory is not synced.
RollSyncSkipped ==
    /\ writer.step = "dirSync"
    /\ segments' = segments \cup {logEnd}
    /\ writer' = [writer EXCEPT !.step = "write"]
    /\ UNCHANGED <<file, durable, tail, dir, dirSynced, mode, logEnd,
                   unavailable, history>>

\* createSegment's directory sync, and the switch of the active segment.  The
\* sealed segment's handle is closed without another file sync.
RollSync ==
    /\ writer.step = "dirSync"
    /\ dirSynced' = dir
    /\ segments' = segments \cup {logEnd}
    /\ writer' = [writer EXCEPT !.step = "write"]
    /\ UNCHANGED <<file, durable, tail, dir, mode, logEnd, unavailable, history>>

\* Any error of createSegment fences the partition; nothing was written.
RollFails ==
    /\ \/ /\ writer.step = "roll"
          /\ "createError" \in Faults \/ logEnd \in dir
       \/ /\ writer.step = "dirSync"
          /\ "dirSyncError" \in Faults
    /\ FailAppend
    /\ UNCHANGED disk

\* fileWriteAt of the encoded batch at the end of the active segment.
WriteBatch ==
    /\ writer.step = "write"
    /\ file' = Extend(file, Span(logEnd, writer.n), writer.id)
    /\ writer' = [writer EXCEPT !.step = "sync"]
    /\ UNCHANGED <<durable, tail, dir, dirSynced, mode, segments, logEnd,
                   unavailable, history>>

\* A failed or short write leaves a proper prefix of the batch and no way back.
WriteFails ==
    /\ writer.step = "write" /\ "writeError" \in Faults
    /\ tail' \in {"clean", "partialHeader", "partialBody"}
    /\ FailAppend
    /\ UNCHANGED <<file, durable, dir, dirSynced>>

\* Mutant of SyncBatch: acknowledged without the file sync.
SyncBatchSkipped ==
    /\ writer.step = "sync"
    /\ logEnd' = logEnd + writer.n
    /\ acked' = acked \cup {[id |-> writer.id, base |-> logEnd, n |-> writer.n]}
    /\ writer' = Idle
    /\ UNCHANGED <<disk, mode, segments, unavailable, appends, found, foundDir>>

\* fileSync of the active segment, then the in-memory state and the result.
SyncBatch ==
    /\ writer.step = "sync"
    /\ durable' = durable \cup {o \in DOMAIN file : Active <= o}
    /\ logEnd' = logEnd + writer.n
    /\ acked' = acked \cup {[id |-> writer.id, base |-> logEnd, n |-> writer.n]}
    /\ writer' = Idle
    /\ UNCHANGED <<file, tail, dir, dirSynced, mode, segments, unavailable, appends,
                   found, foundDir>>

SyncFails ==
    /\ writer.step = "sync" /\ "syncError" \in Faults
    /\ FailAppend
    /\ UNCHANGED disk

\* Fetch meets an I/O or decode error and fences the partition.
FetchFences ==
    /\ mode = "open" /\ writer.step = "idle" /\ "readError" \in Faults
    /\ unavailable' = TRUE
    /\ UNCHANGED <<disk, mode, segments, logEnd, writer, history>>

-----------------------------------------------------------------------------
(* Going down.                                                             *)

\* A partition that is not running holds no state.
Down ==
    /\ mode' = "closed" /\ segments' = {} /\ unavailable' = FALSE
    /\ writer' = IF writer.step \in {"idle", "failed"} THEN writer
                 ELSE [writer EXCEPT !.step = "failed"]
    /\ UNCHANGED <<logEnd, history>>

\* Partition.Close: admitted appends are drained, the files are closed.
Close ==
    /\ mode = "open" /\ writer.step \in {"idle", "failed"}
    /\ Down
    /\ UNCHANGED disk

\* The process dies and the operating system survives.  A write under way may
\* have stopped anywhere.
ProcessCrash ==
    /\ mode = "open" /\ "processCrash" \in Faults
    /\ tail' \in IF writer.step = "write"
                 THEN {"clean", "partialHeader", "partialBody"} ELSE {tail}
    /\ Down
    /\ UNCHANGED <<file, durable, dir, dirSynced>>

\* What a power loss may leave of the batches: of each surviving segment a
\* prefix of whole batches that includes everything synced.
Survives(K, D) ==
    /\ \A o \in K : SegmentOf(o) \in D
    /\ \A o \in durable : SegmentOf(o) \in D => o \in K
    /\ \A o \in K : \A q \in DOMAIN file :
         (SegmentOf(q) = SegmentOf(o) /\ (q < o \/ file[q] = file[o])) => q \in K

\* Bytes of the segment that is final after the loss may be gone or damaged:
\* then what follows its last whole batch is arbitrary.
Disturbed(K, D) ==
    \/ tail # "clean" /\ Max(D) = Max(dir)
    \/ \E o \in (DOMAIN file) \ K : SegmentOf(o) = Max(D)

PowerLoss ==
    /\ "powerLoss" \in Faults
    /\ \E D \in SUBSET dir, K \in SUBSET DOMAIN file :
         /\ dirSynced \subseteq D
         /\ Survives(K, D)
         /\ file' = Restrict(file, K) /\ durable' = K
         /\ dir' = D /\ dirSynced' = D
         /\ tail' \in IF D # {} /\ Disturbed(K, D) THEN Tails ELSE {"clean"}
    /\ Down

-----------------------------------------------------------------------------
(* Coming up: openPartition.                                               *)

\* The chain openPartition and recoverSegment accept: the first segment starts
\* at InitialOffset, every segment starts where its predecessor ends.
Contiguous ==
    /\ InitialOffset \in dir
    /\ \E h \in InitialOffset..MaxOffset :
         /\ DOMAIN file = InitialOffset..(h - 1)
         /\ \A b \in dir : b <= h

\* H as recovery computes it.
RecoveredEnd == IF DOMAIN file = {} THEN InitialOffset ELSE Max(DOMAIN file) + 1

\* Mutant of canTruncateTail: no tail is ever truncated.
canTruncateNothing == FALSE

\* canTruncateTail: only a batch cut after a complete valid header may go.
canTruncateTail == tail = "partialBody"

Up(end, bases) ==
    /\ mode' = "open" /\ segments' = bases /\ logEnd' = end
    /\ unavailable' = FALSE /\ writer' = Idle
    /\ found' = DOMAIN file /\ foundDir' = bases
    /\ UNCHANGED <<acked, appends>>

\* Store.OpenPartition and the managed consumers sync the partition directory
\* before openPartition; OpenTopic, retention and bootstrap do not.
\* No .log file: createSegment at InitialOffset.
OpenFresh ==
    /\ mode = "closed" /\ dir = {}
    /\ dir' = {InitialOffset} /\ dirSynced' = {InitialOffset}
    /\ Up(InitialOffset, {InitialOffset})
    /\ UNCHANGED <<file, durable, tail>>

\* The same, with the rename done and the directory sync failed.
OpenFreshFails ==
    /\ mode = "closed" /\ dir = {} /\ "dirSyncError" \in Faults
    /\ dir' = {InitialOffset}
    /\ UNCHANGED <<file, durable, tail, dirSynced, process, history>>

\* The files form a valid chain.  A torn final batch is cut off and the file
\* synced; complete batches are taken over as they are, without a sync.
OpenRecovers(syncsDir) ==
    /\ mode = "closed" /\ Contiguous
    /\ tail = "clean" \/ canTruncateTail
    /\ tail' = "clean"
    /\ durable' = IF tail = "clean" THEN durable ELSE durable \cup FinalOffsets
    /\ dirSynced' = IF syncsDir THEN dir ELSE dirSynced
    /\ Up(RecoveredEnd, dir)
    /\ UNCHANGED <<file, dir>>

\* Anything else is corrupt: open fails and the evidence stays.
OpenRefuses ==
    /\ mode = "closed" /\ dir # {}
    /\ ~Contiguous \/ (tail # "clean" /\ ~canTruncateTail)
    /\ mode' = "refused"
    /\ UNCHANGED <<disk, segments, logEnd, unavailable, writer, history>>

\* Everything but a power loss.
Proceed ==
    \/ \E n \in 1..BatchRecords : BeginAppend(n)
    \/ RollRename \/ RollSync \/ RollFails
    \/ WriteBatch \/ WriteFails \/ SyncBatch \/ SyncFails
    \/ FetchFences
    \/ Close \/ ProcessCrash
    \/ OpenFresh \/ OpenFreshFails
    \/ \E syncsDir \in BOOLEAN : OpenRecovers(syncsDir)
    \/ OpenRefuses

Next == Proceed \/ PowerLoss

Spec == Init /\ [][Next]_vars

\* What the last open took over is synced, by a later append if not before.
FoundDurable == found \subseteq durable /\ foundDir \subseteq dirSynced

\* Power is lost only when FoundDurable.  Without that restriction recovery may
\* build on bytes and entries that disappear: PartitionLogMixed.cfg.
SafeNext == Proceed \/ (FoundDurable /\ PowerLoss)

SafeSpec == Init /\ [][SafeNext]_vars

-----------------------------------------------------------------------------
(* Properties.                                                             *)

\* The types of the variables: offsets stay within the v1 range and the
\* in-memory segment list names existing files.
TypeOK ==
    /\ DOMAIN file \subseteq InitialOffset..(MaxOffset - 1)
    /\ \A o \in DOMAIN file : file[o] \in 1..MaxAppends
    /\ durable \subseteq DOMAIN file
    /\ tail \in Tails
    /\ dir \subseteq InitialOffset..MaxOffset
    /\ dirSynced \subseteq dir
    /\ mode \in {"open", "closed", "refused"}
    /\ segments \subseteq dir
    /\ logEnd \in InitialOffset..MaxOffset
    /\ unavailable \in BOOLEAN
    /\ writer \in [step : Steps, id : 0..MaxAppends, n : 0..BatchRecords]
    /\ acked \subseteq Batches
    /\ appends \in 0..MaxAppends
    /\ found \subseteq InitialOffset..(MaxOffset - 1) /\ foundDir \subseteq InitialOffset..MaxOffset

\* Every acknowledged batch is in the files, whole, at the offsets its append
\* returned, through rolls, failed appends, crashes, truncation and reopening.
AckedIntact ==
    \A b \in acked : \A o \in Span(b.base, b.n) :
        o \in DOMAIN file /\ file[o] = b.id

\* openPartition refuses a partition only for bytes a torn write left behind
\* the last whole batch, never because segments or batches are missing.
RefusesOnlyTornBytes ==
    mode = "refused" => Contiguous /\ tail \in {"partialHeader", "badBatch"}

\* H never goes back, so no offset a reader has seen is given to another
\* record: across restarts recovery finds at least what was readable before.
EndNeverRegresses == [][logEnd' >= logEnd]_vars

\* A fenced partition changes nothing on disk and allocates no offset until it
\* is closed and opened again.
FencedWritesNothing ==
    [][unavailable /\ mode = "open" /\ mode' = "open" =>
         unavailable' /\ UNCHANGED <<disk, logEnd, acked, segments>>]_vars

\* The abstract log: the records below H, and the batch whose fate is open.
Readable ==
    [o \in InitialOffset..(logEnd - 1) |-> IF o \in DOMAIN file THEN file[o] ELSE 0]

Pending == [id |-> writer.id, n |-> writer.n]

AckedIds == {b.id : b \in acked}

Log == INSTANCE AppendLog WITH log <- Readable, pending <- Pending, acked <- AckedIds

\* Every step of the write path and of recovery is a step of the abstract
\* append-only log or leaves it alone: batches appear whole, in order, once.
ImplementsAppendLog == Log!ASpec

\* No segment outgrows the configured segment size.
SegmentBound ==
    mode = "open" =>
      \A b \in segments :
        Cardinality({o \in DOMAIN file : SegmentOf(o) = b}) <= SegmentBytes

=============================================================================
