------------------------------ MODULE FetchPath ------------------------------
(***************************************************************************)
(* One open partition as its readers see it: appends behind the disk       *)
(* ledger that publish to the tail once p.mu is released, fetches served   *)
(* from the tail or from segments through the descriptor cache and the     *)
(* sparse index, polls that park until data arrives, retention that        *)
(* retires and removes segments, and Close.                                *)
(*                                                                         *)
(* p.mu: a retention pass holds it while mu = "retention"; a reader holds  *)
(* it shared in "scan", "reading" and "done"; every other critical section *)
(* is one step.  A batch of n records takes n + 1 bytes, a segment header  *)
(* one.  What a write leaves in the file is PartitionLog's subject: here a *)
(* record is its offset.                                                   *)
(***************************************************************************)
EXTENDS DiskPressure, SegmentFiles, PartitionTail, SparseIndex

CONSTANTS
    Direct, Queued,    \* callers of AppendBatch, and of Append
    Readers,
    SegmentBytes, BatchRecords,
    MaxFetchWaiters,
    Capacity,          \* free space at the start, per resource
    Workloads          \* what is in the log, who makes calls, what may fail

FaultKinds == {"writeError", "readError", "probeError", "unknown"}

ASSUME FetchPathAssumption ==
    /\ {BatchRecords, SegmentBytes} \subseteq Nat \ {0}
    /\ \A w \in Workloads :
         /\ w.recovered # <<>> /\ w.limits \subseteq Nat
         /\ w.callers \subseteq Direct \cup Queued /\ w.readers \subseteq Readers
         /\ {w.maxOffset, w.maxProbes, w.maxPasses, w.maxFaults} \subseteq Nat
         /\ w.faults \subseteq FaultKinds

Callers == Direct \cup Queued

VARIABLES
    segments,     \* p.segments: [base, batches, index]; the last one is active
    logEnd,
    status,       \* open, closing, closed
    unavailable,
    mu,           \* free, or held by the retention pass
    tail, budget, \* the tail, and tailBudget.bytes
    cache,        \* the descriptor cache, keyed by segment base
    files,        \* bases of the segment files on disk
    ledger, free, \* the disk ledger, and what is really free
    caller,       \* an Append or AppendBatch in progress
    reader,       \* a cursor, and its fetch or poll in progress
    pass,         \* the retention pass
    passes, faults,
    load          \* the workload, which bounds the model: load.recovered has the records
                  \* of each batch of each segment, load.limits how many records fit
                  \* the limits of a fetch (0: not even the first)

partition == <<segments, logEnd, status, unavailable>>
tailVars  == <<tail, budget>>
fileVars  == <<cache, files>>
diskVars  == <<ledger, free>>
vars == <<partition, mu, tailVars, fileVars, diskVars, caller, reader, pass, passes, faults, load>>

Active == Last(segments)
LogStart == segments[1].base
Bytes(records) == records + 1
HeaderBytes == 1

SizeOf(segment) ==
    IF segment.batches = <<>> THEN 0
    ELSE Last(segment.batches).position + Last(segment.batches).bytes

EndOf(segment) ==
    IF segment.batches = <<>> THEN segment.base
    ELSE Last(segment.batches).base + Last(segment.batches).records

\* estimateDiskBatchGrowth: the batch, and a roll it may need.
EstimateGrowth(records) ==
    [bytes |-> Bytes(records) + HeaderBytes, inodes |-> 1]

RollGrowth == [bytes |-> HeaderBytes, inodes |-> 1]

WriteGrowth(records) == [bytes |-> Bytes(records), inodes |-> 0]

Fault(kind) ==
    /\ kind \in load.faults /\ faults < load.maxFaults
    /\ faults' = faults + 1

Holding == {r \in Readers : reader[r].pc \in {"scan", "reading", "done"}}
Exclusive == mu = "free" /\ Holding = {}

\* signalFetchWaitersLocked: closes the channel every parked reader selects on.
SignalFetchWaiters(rd) ==
    [r \in Readers |-> IF rd[r].pc = "parked" THEN [rd[r] EXCEPT !.pc = "woken"] ELSE rd[r]]

AddBatch(segment, records) ==
    LET batches == Append(segment.batches,
                     [base |-> EndOf(segment), position |-> SizeOf(segment),
                      bytes |-> Bytes(records), records |-> records])
    IN  [base |-> segment.base, batches |-> batches, index |-> SampleBatchIndexes(batches)]

NewSegment(base) == [base |-> base, batches |-> <<>>, index |-> <<>>]

IdleCaller == [pc |-> "idle", records |-> 0, base |-> 0, probe |-> 0, seen |-> Nothing]
IdlePass == [pc |-> "idle", probe |-> 0, seen |-> Nothing, retired |-> <<>>]
NewReader(start) == [pc |-> "idle", next |-> start, again |-> FALSE, limit |-> 0,
                     at |-> 0, got |-> <<>>]

\* What recovery finds, given the records of each batch of each segment.
Recovered(log) ==
    LET Open(found, records) ==
            Append(found, FoldLeft(AddBatch,
                            NewSegment(IF found = <<>> THEN 0 ELSE EndOf(Last(found))), records))
    IN  FoldLeft(Open, <<>>, log)

\* openPartition and loadOrBuildIndexes: any sidecar that validates is taken
\* as it is, however old (here the first segment's); others are rebuilt.
Init ==
    /\ load \in Workloads
    /\ LET recovered == Recovered(load.recovered) IN
       \E index \in {s \in SubSeqs(recovered[1].batches) \cup {<<>>} :
                       ValidOffsetIndex(s, recovered[1].batches)} :
         segments = [recovered EXCEPT ![1].index = index]
    /\ logEnd = EndOf(Active)
    /\ status = "open" /\ unavailable = FALSE /\ mu = "free"
    /\ tail = EmptyTail /\ budget = 0
    /\ cache = <<>> /\ files = {s.base : s \in ToSet(segments)}
    /\ ledger = NewLedger(Capacity) /\ free = Capacity
    /\ caller = [c \in Callers |-> IdleCaller]
    /\ reader = [r \in Readers |-> NewReader(0)]
    /\ pass = IdlePass /\ passes = 0 /\ faults = 0

-----------------------------------------------------------------------------
(* Append and AppendBatch.  AppendBatch names its base offset; an Append   *)
(* gets one from the ingress processor, which writes one batch at a time.  *)

\* The reservation's probe is numbered before it runs.
Call(c, records) ==
    /\ caller[c].pc = "idle" /\ status = "open"
    /\ ledger.nextProbe < load.maxProbes /\ logEnd + records <= load.maxOffset
    /\ ledger' = BeginProbe(ledger)
    /\ caller' = [caller EXCEPT ![c] =
                    [IdleCaller EXCEPT !.pc = "probing", !.records = records,
                                       !.base = IF c \in Direct THEN logEnd ELSE 0,
                                       !.probe = ledger'.nextProbe]]
    /\ UNCHANGED <<partition, mu, tailVars, fileVars, free, reader, pass, passes, faults, load>>

Probe(c) ==
    /\ caller[c].pc = "probing"
    /\ caller' = [caller EXCEPT ![c].pc = "probed", ![c].seen = free]
    /\ UNCHANGED <<partition, mu, tailVars, fileVars, diskVars, reader, pass, passes, faults, load>>

ProbeFails(c) ==
    /\ caller[c].pc = "probing" /\ Fault("probeError")
    /\ ledger' = FailProbe(ledger, caller[c].probe)
    /\ caller' = [caller EXCEPT ![c] = IdleCaller]
    /\ UNCHANGED <<partition, mu, tailVars, fileVars, free, reader, pass, passes, load>>

Reserve(c) ==
    LET observed == ApplyProbe(ledger, caller[c].probe, caller[c].seen)
        growth == EstimateGrowth(caller[c].records)
    IN  /\ caller[c].pc = "probed"
        /\ ledger' = Decide(observed, "user", growth)
        /\ caller' = [caller EXCEPT ![c] = IF Granted(observed, "user", growth)
                                           THEN [@ EXCEPT !.pc = "granted", !.probe = 0, !.seen = Nothing]
                                           ELSE IdleCaller]
        /\ UNCHANGED <<partition, mu, tailVars, fileVars, free, reader, pass, passes, faults, load>>

\* The deferred release of AppendBatch, and complete's.
Finish(c) ==
    /\ caller' = [caller EXCEPT ![c] = IdleCaller]
    /\ ledger' = Release(ledger, EstimateGrowth(caller[c].records))

\* The processor is between appendEncodedLocked and complete.
Processing == \E c \in Queued : caller[c].pc \in {"publish", "fence"}

MayWrite(c) ==
    /\ caller[c].pc = "granted" /\ Exclusive
    /\ c \in Queued => ~Processing

Full(records) == HeaderBytes + SizeOf(Active) + Bytes(records) > SegmentBytes

\* The checks before anything is written; AppendBatch has some of its own.
Accepts(c) ==
    /\ status # "closed" /\ ~unavailable
    /\ c \in Direct => status = "open" /\ caller[c].base = logEnd
    /\ Full(caller[c].records) => Active.batches # <<>>

Written(records) ==
    IF Full(records) THEN Plus(RollGrowth, WriteGrowth(records)) ELSE WriteGrowth(records)

\* appendEncodedLocked, in writeRequests or AppendBatch.
Write(c) ==
    LET n == caller[c].records IN
    /\ MayWrite(c) /\ Accepts(c)
    /\ segments' = IF Full(n) THEN Append(segments, AddBatch(NewSegment(logEnd), n))
                   ELSE Front(segments) \o <<AddBatch(Active, n)>>
    /\ files' = IF Full(n) THEN files \cup {logEnd} ELSE files
    /\ free' = Remaining(free, Written(n))
    /\ logEnd' = logEnd + n
    /\ reader' = SignalFetchWaiters(reader)
    /\ caller' = [caller EXCEPT ![c].pc = "publish", ![c].base = logEnd]
    /\ UNCHANGED <<status, unavailable, mu, tailVars, cache, ledger, pass, passes, faults, load>>

\* A failed write or sync.  Only the processor goes on to wake the readers.
WriteFails(c) ==
    /\ MayWrite(c) /\ Accepts(c) /\ Fault("writeError")
    /\ unavailable' = TRUE
    /\ free' \in {free, Remaining(free, Written(caller[c].records))}
    /\ IF c \in Direct
       THEN Finish(c)
       ELSE /\ caller' = [caller EXCEPT ![c].pc = "fence"]
            /\ UNCHANGED ledger
    /\ UNCHANGED <<segments, logEnd, status, mu, tailVars, fileVars, reader, pass, passes, load>>

\* An error before anything is written: too large, closed, closing, fenced, or
\* another append took the offset.  A queued request may also give up while it
\* waits for room; one that the processor meets in a fenced partition fences
\* it again.
Refuse(c) ==
    /\ MayWrite(c)
    /\ c \in Queued \/ ~Accepts(c)
    /\ \/ Finish(c)
       \/ /\ c \in Queued /\ unavailable
          /\ caller' = [caller EXCEPT ![c].pc = "fence"]
          /\ UNCHANGED ledger
    /\ UNCHANGED <<partition, mu, tailVars, fileVars, free, reader, pass, passes, faults, load>>

\* publishTail, after p.mu is released: retention or Close may come first.
PublishTail(c) ==
    LET batch == [base |-> caller[c].base, end |-> caller[c].base + caller[c].records,
                  durableEnd |-> caller[c].base + caller[c].records]
        offer == Offer(tail, budget, batch)
    IN  /\ caller[c].pc = "publish"
        /\ \/ tail' = offer.tail /\ budget' = offer.used
           \/ UNCHANGED tailVars
        /\ Finish(c)
        /\ UNCHANGED <<partition, mu, fileVars, free, reader, pass, passes, faults, load>>

\* markIngressUnavailable.
Fence == unavailable' = TRUE /\ reader' = SignalFetchWaiters(reader)

FenceIngress(c) ==
    /\ caller[c].pc = "fence" /\ Exclusive
    /\ Fence /\ Finish(c)
    /\ UNCHANGED <<segments, logEnd, status, mu, tailVars, fileVars, free, pass, passes, faults, load>>

-----------------------------------------------------------------------------
(* Fetch, Read, Poll's wait and Seek.  A poll is a fetch and, when that    *)
(* finds nothing, waitForData and a second fetch (again).                  *)

\* The checks under p.mu of Fetch, Read, waitForData and validateReadOffset.
ReadError(offset) ==
    \/ status # "open" \/ unavailable
    \/ offset < LogStart \/ offset > logEnd

\* The call returns an error; the cursor stays.
Fails(rd) == NewReader(rd.next)

Take(records, limit) == SubSeq(records, 1, Min({limit, Len(records)}))

\* What the next scan step reads: the first segment that ends above offset.
NextSegment(offset) ==
    {s \in ToSet(segments) : /\ offset < EndOf(s)
                             /\ \A t \in ToSet(segments) : offset < EndOf(t) => s.base <= t.base}

\* Fetch up to the tail: an error, a hit, or a miss (the tail's lock may be
\* taken) that leaves the reader scanning with p.mu shared.  Partition.Read
\* never looks at the tail.
StartFetch(r, limit) ==
    LET rd == reader[r]
        Begun(pc, got) == [rd EXCEPT !.pc = pc, !.limit = limit, !.at = rd.next, !.got = got]
    IN  /\ rd.pc \in {"idle", "again"} /\ mu = "free"
        /\ \/ ReadError(rd.next) /\ reader' = [reader EXCEPT ![r] = Fails(rd)]
           \/ /\ ~ReadError(rd.next)
              /\ \E b \in Hits(tail, rd.next, logEnd) :
                   reader' = [reader EXCEPT ![r] =
                     IF limit = 0 THEN Fails(rd)
                     ELSE Begun("done", Take([i \in 1 .. b.end - rd.next |-> rd.next + i - 1], limit))]
           \/ ~ReadError(rd.next) /\ reader' = [reader EXCEPT ![r] = Begun("scan", <<>>)]
        /\ UNCHANGED <<partition, mu, tailVars, fileVars, diskVars, caller, pass, passes, faults, load>>

\* No segment ends above the offset the scan has reached.
EndOfLog(r) ==
    /\ reader[r].pc = "scan" /\ NextSegment(reader[r].at) = {}
    /\ reader' = [reader EXCEPT ![r].pc = "done"]
    /\ UNCHANGED <<partition, mu, tailVars, fileVars, diskVars, caller, pass, passes, faults, load>>

\* The fetch returns, the cursor moves past its records, and the first fetch
\* of a poll goes on to wait if there are none.
Return(r) ==
    LET rd == reader[r] IN
    /\ rd.pc = "done"
    /\ \E pc \in IF rd.got = <<>> /\ ~rd.again THEN {"idle", "wait"} ELSE {"idle"} :
         reader' = [reader EXCEPT ![r] =
           [NewReader(IF rd.got = <<>> THEN rd.next ELSE Last(rd.got) + 1) EXCEPT !.pc = pc]]
    /\ UNCHANGED <<partition, mu, tailVars, fileVars, diskVars, caller, pass, passes, faults, load>>

\* acquireSegmentFile: the active segment has its writer's handle; a sealed
\* one is pinned in the cache, opened if it is not there.  If its file is gone
\* the fetch fails and fences the partition.
AcquireSegmentFile(r) ==
    \E s \in NextSegment(reader[r].at) :
        LET readable == s = Active \/ s.base \in Cached(cache) \cup files
        IN  /\ reader[r].pc = "scan"
            /\ cache' = IF s # Active /\ readable THEN Acquire(cache, s.base) ELSE cache
            /\ reader' = [reader EXCEPT ![r] = IF readable THEN [@ EXCEPT !.pc = "reading"]
                                               ELSE [Fails(@) EXCEPT !.pc = "fence"]]
            /\ UNCHANGED <<partition, mu, tailVars, files, diskVars, caller, pass, passes, faults, load>>

Released(s) == IF s = Active THEN cache ELSE ReleaseFile(cache, s.base)

\* scanSegmentForFetch from the index hint on, and its deferred release.
ReadSegment(r) ==
    \E s \in NextSegment(reader[r].at) :
        LET rd == reader[r]
            found == rd.got \o Scan(s.batches, s.index, rd.next)
        IN  /\ rd.pc = "reading"
            /\ cache' = Released(s)
            /\ reader' = [reader EXCEPT ![r] =
                 IF rd.limit = 0 THEN Fails(rd)
                 ELSE IF Len(found) > rd.limit
                      THEN [rd EXCEPT !.pc = "done", !.got = Take(found, rd.limit)]
                      ELSE [rd EXCEPT !.pc = "scan", !.at = EndOf(s), !.got = found]]
            /\ UNCHANGED <<partition, mu, tailVars, files, diskVars, caller, pass, passes, faults, load>>

\* A read error or an invalid batch: Fetch fences the partition, Read does not.
ReadFails(r) ==
    \E s \in NextSegment(reader[r].at), pc \in {"fence", "idle"} :
        /\ reader[r].pc = "reading" /\ Fault("readError")
        /\ cache' = Released(s)
        /\ reader' = [reader EXCEPT ![r] = [Fails(@) EXCEPT !.pc = pc]]
        /\ UNCHANGED <<partition, mu, tailVars, files, diskVars, caller, pass, passes, load>>

\* ctx is cancelled in the middle of a scan.
CancelFetch(r) ==
    \E s \in NextSegment(reader[r].at) :
        /\ reader[r].pc = "reading"
        /\ cache' = Released(s)
        /\ reader' = [reader EXCEPT ![r] = Fails(@)]
        /\ UNCHANGED <<partition, mu, tailVars, files, diskVars, caller, pass, passes, faults, load>>

\* Fetch has dropped its read lock and calls markIngressUnavailable.
FencePartition(r) ==
    /\ reader[r].pc = "fence" /\ Exclusive
    /\ unavailable' = TRUE
    /\ reader' = [SignalFetchWaiters(reader) EXCEPT ![r].pc = "idle"]
    /\ UNCHANGED <<segments, logEnd, status, mu, tailVars, fileVars, diskVars, caller, pass, passes, faults, load>>

Waiting == {r \in Readers : reader[r].pc \in {"parked", "woken"}}

WaitForDataUnchecked(r) ==
    /\ reader[r].pc = "wait" /\ Exclusive
    /\ reader' = [reader EXCEPT ![r] =
                    IF ReadError(@.next) \/ Cardinality(Waiting) >= MaxFetchWaiters THEN Fails(@)
                    ELSE [@ EXCEPT !.pc = "parked"]]
    /\ UNCHANGED <<partition, mu, tailVars, fileVars, diskVars, caller, pass, passes, faults, load>>

\* waitForData up to its select.
WaitForData(r) ==
    /\ reader[r].pc = "wait" /\ Exclusive
    /\ reader' = [reader EXCEPT ![r] =
                    IF ReadError(@.next) THEN Fails(@)
                    ELSE IF @.next < logEnd THEN [@ EXCEPT !.pc = "again", !.again = TRUE]
                    ELSE IF Cardinality(Waiting) >= MaxFetchWaiters THEN Fails(@)
                    ELSE [@ EXCEPT !.pc = "parked"]]
    /\ UNCHANGED <<partition, mu, tailVars, fileVars, diskVars, caller, pass, passes, faults, load>>

\* The timer fires.
Timeout(r) ==
    /\ reader[r].pc = "parked"
    /\ reader' = [reader EXCEPT ![r].pc = "woken"]
    /\ UNCHANGED <<partition, mu, tailVars, fileVars, diskVars, caller, pass, passes, faults, load>>

\* The waiter gives its place back under p.mu; the second fetch follows.
LeaveWait(r) ==
    /\ reader[r].pc = "woken" /\ Exclusive
    /\ reader' = [reader EXCEPT ![r].pc = "again", ![r].again = TRUE]
    /\ UNCHANGED <<partition, mu, tailVars, fileVars, diskVars, caller, pass, passes, faults, load>>

\* ctx is cancelled while the reader waits.
CancelWait(r) ==
    /\ reader[r].pc \in {"parked", "woken"} /\ Exclusive
    /\ reader' = [reader EXCEPT ![r] = Fails(@)]
    /\ UNCHANGED <<partition, mu, tailVars, fileVars, diskVars, caller, pass, passes, faults, load>>

\* Reader.Seek within the retained range.
Seek(r, offset) ==
    /\ reader[r].pc = "idle" /\ mu = "free"
    /\ ~ReadError(offset)
    /\ reader' = [reader EXCEPT ![r] = NewReader(offset)]
    /\ UNCHANGED <<partition, mu, tailVars, fileVars, diskVars, caller, pass, passes, faults, load>>

-----------------------------------------------------------------------------
(* Retention and Close.                                                    *)

\* retainPartitionAt up to the reservation of its catalog event, with p.mu
\* held from here on.  RetentionPlan decides what retires; here it is any
\* number of sealed segments, after a roll of the active one or without.
StartPass ==
    \E rolls \in BOOLEAN :
      LET current == IF rolls THEN Append(segments, NewSegment(logEnd)) ELSE segments
      IN  /\ pass.pc = "idle" /\ Exclusive /\ status = "open" /\ ~unavailable
          /\ passes < load.maxPasses /\ ledger.nextProbe < load.maxProbes
          /\ rolls => Active.batches # <<>>
          /\ segments' = current
          /\ files' = IF rolls THEN files \cup {logEnd} ELSE files
          /\ free' = IF rolls THEN Remaining(free, RollGrowth) ELSE free
          /\ mu' = "retention" /\ passes' = passes + 1
          /\ ledger' = BeginProbe(ledger)
          /\ \E n \in 1 .. Len(current) - 1 :
               pass' = [IdlePass EXCEPT !.pc = "probing", !.probe = ledger'.nextProbe,
                                        !.retired = SubSeq(current, 1, n)]
          /\ UNCHANGED <<logEnd, status, unavailable, tailVars, cache, caller, reader, faults, load>>

\* A pass whose plan rolls the active segment and retires nothing.
RollOnly ==
    /\ pass.pc = "idle" /\ Exclusive /\ status = "open" /\ ~unavailable
    /\ passes < load.maxPasses /\ Active.batches # <<>>
    /\ segments' = Append(segments, NewSegment(logEnd))
    /\ files' = files \cup {logEnd}
    /\ free' = Remaining(free, RollGrowth)
    /\ passes' = passes + 1
    /\ UNCHANGED <<logEnd, status, unavailable, mu, tailVars, cache, ledger, caller, reader, pass, faults, load>>

\* createSegment fails.
RollFails ==
    /\ pass.pc = "idle" /\ Exclusive /\ status = "open" /\ ~unavailable
    /\ passes < load.maxPasses /\ Active.batches # <<>> /\ Fault("writeError")
    /\ Fence
    /\ passes' = passes + 1
    /\ UNCHANGED <<segments, logEnd, status, mu, tailVars, fileVars, diskVars, caller, pass, load>>

ProbePass ==
    /\ pass.pc = "probing"
    /\ pass' = [pass EXCEPT !.pc = "probed", !.seen = free]
    /\ UNCHANGED <<partition, mu, tailVars, fileVars, diskVars, caller, reader, passes, faults, load>>

ProbePassFails ==
    /\ pass.pc = "probing" /\ Fault("probeError")
    /\ ledger' = FailProbe(ledger, pass.probe)
    /\ pass' = IdlePass /\ mu' = "free"
    /\ UNCHANGED <<partition, tailVars, fileVars, free, caller, reader, passes, load>>

\* The catalog event is control growth: one record in the catalog log.
ReservePass ==
    LET observed == ApplyProbe(ledger, pass.probe, pass.seen)
        granted == Granted(observed, "control", EstimateGrowth(1))
    IN  /\ pass.pc = "probed"
        /\ ledger' = Decide(observed, "control", EstimateGrowth(1))
        /\ pass' = IF granted THEN [pass EXCEPT !.pc = "granted", !.probe = 0, !.seen = Nothing]
                   ELSE IdlePass
        /\ mu' = IF granted THEN mu ELSE "free"
        /\ UNCHANGED <<partition, tailVars, fileVars, free, caller, reader, passes, faults, load>>

\* The event is durable: the boundary moves, and p.mu is released.
Retire ==
    /\ pass.pc = "granted"
    /\ free' = Remaining(free, WriteGrowth(1))
    /\ ledger' = Release(ledger, EstimateGrowth(1))
    /\ segments' = SubSeq(segments, Len(pass.retired) + 1, Len(segments))
    /\ tail' = ClearTail(tail) /\ budget' = Returned(budget, tail.bytes)
    /\ reader' = SignalFetchWaiters(reader)
    /\ pass' = [pass EXCEPT !.pc = "cleanup"] /\ mu' = "free"
    /\ UNCHANGED <<logEnd, status, unavailable, fileVars, caller, passes, faults, load>>

\* The event was not appended, or its outcome is unknown.
RetireFails ==
    /\ pass.pc = "granted" /\ Fault("unknown")
    /\ ledger' = Release(ledger, EstimateGrowth(1))
    /\ Fence \/ UNCHANGED <<unavailable, reader>>
    /\ pass' = IdlePass /\ mu' = "free"
    /\ UNCHANGED <<segments, logEnd, status, tailVars, fileVars, free, caller, passes, load>>

\* cleanupRetiredSegments, one segment at a time and without p.mu.
Cleanup ==
    LET s == Head(pass.retired) IN
    /\ pass.pc = "cleanup"
    /\ cache' = Forget(cache, s.base)
    /\ files' = files \ {s.base}
    /\ free' = Plus(free, Plus(RollGrowth, [bytes |-> SizeOf(s), inodes |-> 0]))
    /\ pass' = IF Len(pass.retired) = 1 THEN IdlePass
               ELSE [pass EXCEPT !.retired = Tail(@)]
    /\ UNCHANGED <<partition, mu, tailVars, ledger, caller, reader, passes, faults, load>>

\* closeWriter refuses new work and wakes the readers; then it closes the
\* tail; and when the ingress is drained, the partition.
CloseBegin ==
    /\ status = "open" /\ Exclusive
    /\ status' = "closing"
    /\ reader' = SignalFetchWaiters(reader)
    /\ UNCHANGED <<segments, logEnd, unavailable, mu, tailVars, fileVars, diskVars, caller, pass, passes, faults, load>>

TailClose ==
    /\ status = "closing" /\ ~tail.closed
    /\ tail' = CloseTail(tail) /\ budget' = Returned(budget, tail.bytes)
    /\ UNCHANGED <<partition, mu, fileVars, diskVars, caller, reader, pass, passes, faults, load>>

CloseFinish ==
    /\ status = "closing" /\ tail.closed /\ Exclusive
    /\ \A c \in Queued : caller[c].pc \notin {"granted", "publish", "fence"}
    /\ status' = "closed"
    /\ reader' = SignalFetchWaiters(reader)
    /\ cache' = SelectSeq(cache, LAMBDA e : \A s \in ToSet(segments) : e.path # s.base)
    /\ UNCHANGED <<segments, logEnd, unavailable, mu, tailVars, files, diskVars, caller, pass, passes, faults, load>>

CallerStep(c) ==
    \/ Probe(c) \/ ProbeFails(c) \/ Reserve(c) \/ Write(c) \/ WriteFails(c)
    \/ Refuse(c) \/ PublishTail(c) \/ FenceIngress(c)

ReaderStep(r) ==
    \/ EndOfLog(r) \/ Return(r) \/ AcquireSegmentFile(r) \/ ReadSegment(r) \/ ReadFails(r)
    \/ FencePartition(r) \/ WaitForData(r) \/ LeaveWait(r)

PassStep == ProbePass \/ ProbePassFails \/ ReservePass \/ Retire \/ RetireFails \/ Cleanup

CloseStep == TailClose \/ CloseFinish

Next ==
    \/ \E c \in load.callers : CallerStep(c) \/ \E n \in 1 .. BatchRecords : Call(c, n)
    \/ \E r \in load.readers :
         \/ ReaderStep(r) \/ Timeout(r) \/ CancelWait(r) \/ CancelFetch(r)
         \/ \E limit \in load.limits : StartFetch(r, limit)
         \/ \E offset \in 0 .. load.maxOffset : Seek(r, offset)
    \/ StartPass \/ RollOnly \/ RollFails \/ PassStep
    \/ CloseBegin \/ CloseStep

Spec == Init /\ [][Next]_vars

-----------------------------------------------------------------------------
(* Properties.                                                             *)

\* Fetch, whether it is served by the tail (tail.go:276) or by the segments
\* (fetch.go:120), returns the records that follow the offset asked for,
\* without gap, all of them retained and durable, at most as many as the
\* limits allow, and none only at the end of the log.  A publication that
\* comes after retention has cleared the tail must not make expired records
\* visible, and an old but valid index sidecar must not skip any.
FetchReturnsLog ==
    \A r \in Readers : reader[r].pc = "done" =>
        LET from == reader[r].next
            got == reader[r].got
        IN  /\ got = [i \in 1 .. Len(got) |-> from + i - 1]
            /\ LogStart <= from /\ from + Len(got) <= logEnd
            /\ Len(got) <= reader[r].limit
            /\ got = <<>> => from = logEnd

\* No wakeup is lost between waitForData's check and its select
\* (fetch.go:225): a reader is parked only while there is nothing past its
\* offset and no Close, and a fence that is under way will wake it.  Only a
\* failed AppendBatch (append_encoded.go:98) fences without waking anyone.
NoLostWakeup ==
    \A r \in Readers : reader[r].pc = "parked" =>
        /\ reader[r].next = logEnd /\ status = "open"
        /\ unavailable => \/ \E c \in Queued : caller[c].pc = "fence"
                          \/ load.callers \cap Direct # {}

Pinning(path) ==
    {r \in Readers : /\ reader[r].pc = "reading"
                     /\ \E s \in NextSegment(reader[r].at) : s # Active /\ s.base = path}

\* The descriptor a fetch reads from is never closed under it, by eviction
\* (segment_files.go:92), retention's forget or Close: it is in the cache with
\* one reference per reader.  There are never more descriptors than the limit
\* or the pinned ones, none outlives its file or the partition, and no fetch
\* finds a retained segment's file gone.
DescriptorsSound ==
    /\ \A r \in Readers : reader[r].pc = "reading" =>
         \A s \in NextSegment(reader[r].at) : s # Active => s.base \in Cached(cache)
    /\ \A i \in DOMAIN cache : cache[i].refs = Cardinality(Pinning(cache[i].path))
    /\ Len(cache) <= Max({FileLimit, Cardinality({p \in Cached(cache) : Pinning(p) # {}})})
    /\ Cached(cache) \subseteq files
    /\ status = "closed" /\ pass.pc = "idle" => cache = <<>>
    /\ unavailable => faults > 0

\* The tail and its budget agree on what the tail holds, within both limits,
\* and a closed partition holds nothing, also when a publication comes after
\* Close (tail.go:132, tail.go:199).
TailAccounted ==
    /\ tail.bytes = BytesOf(tail.slots) /\ budget = tail.bytes
    /\ tail.bytes <= TailBytes /\ Len(tail.slots) <= TailSlots
    /\ status = "closed" => budget = 0

Live == {c \in Callers : caller[c].pc \in {"granted", "publish", "fence"}}

PassGrowth == IF pass.pc = "granted" THEN EstimateGrowth(1) ELSE Nothing

CallerGrowth(cs) ==
    FoldSet(LAMBDA c, sum : Plus(EstimateGrowth(caller[c].records), sum), Nothing, cs)

\* Every reservation is returned exactly once, on success, refusal, error and
\* Close alike: the ledger (disk_pressure.go:83) holds what the calls in
\* progress have reserved, and nothing when there are none.
LedgerBalanced == ledger.reserved = Plus(PassGrowth, CallerGrowth(Live))

\* What the ledger believes is left, less what really is left when the
\* admitted writes are done.
Overstated(x) ==
    LET unwritten == {c \in Callers : caller[c].pc = "granted"}
    IN  (ledger.available[x] - ledger.reserved[x])
        - (free[x] - Plus(PassGrowth, CallerGrowth(unwritten))[x])

\* reserve decides on a probe that ran outside its lock (disk_pressure.go:126).
\* The view it admits growth on is at most one batch better than the disk for
\* each other call in progress, and one roll and one event for retention: an
\* answer that a later probe has overtaken never replaces it
\* (disk_pressure.go:140).  While the latest answer is an error there is no
\* such bound.
AdmitsOnFreshView ==
    [][(\E x \in Resources : ledger'.reserved[x] > ledger.reserved[x]) /\ ~ledger'.probeFailed
       => \A x \in Measured :
            Overstated(x)' <= (Cardinality(load.callers) - 1) * EstimateGrowth(BatchRecords)[x]
                              + (IF load.maxPasses = 0 THEN Nothing
                                 ELSE Plus(RollGrowth, EstimateGrowth(1)))[x]]_vars

=============================================================================
