# immulog: a TLA+ verification project

This directory models the storage engine of immulog (`src/storage`), checks the
models with TLC on small instances and proves the central results with TLAPS.
`PROJECT.json` lists components, runs, the map from definitions to source
lines, findings, hazards and theorems.

## The system and what is hard about it

A *store* is a directory of topic partitions and two system logs, the catalog
(metadata) and the consumer offsets, owned by one process. Its parts:

| part | state | operations | modules |
|---|---|---|---|
| partition write path (`append_encoded.go`, `partition.go`) | segments, `logEnd`, `unavailable`, files | append, roll, fsync, Close, open and recover | AppendLog, PartitionLog |
| append ingress (`writer.go`, `ingress.go`) | admission counters, ring, waiters, closing flags | `Append`, `admit`, `enqueue`, the processor, `closeWriter` | Ingress |
| fetch and readers (`fetch.go`) | waiters, cursor | `Fetch`, `waitForData`, `Read` | FetchPath |
| tail, descriptor cache, sparse index (`tail.go`, `segment_files.go`, `index.go`) | cached batches, pinned handles, index entries | offer, fetch, clear; acquire, release, evict, forget; lookup | PartitionTail, SegmentFiles, SparseIndex, composed by FetchPath |
| disk ledger (`disk_pressure.go`) | newest probe, outstanding bytes, pressure flag | probe, reserve, release | DiskPressure, composed by FetchPath |
| consumers (`consumer.go`, `group_consumer.go`, `offsets_projection.go`) | live handles, leases, generations, committed offsets | open, Poll, Commit, Close, expiry | OffsetsProjection, Consumers |
| retention (`retention.go`) | log start, retired files, temporary partitions | plan, log-start event, removal, worker | RetentionPlan, TopicStorage, FetchPath, StoreLifecycle |
| catalog and bootstrap (`catalog.go`, `preflight.go`, `bootstrap.go`) | topics, preparation markers | create, open, preflight | CatalogProjection, FileTree, TopicStorage |
| system-log compaction and snapshots (`system_compaction.go`, `snapshot.go`) | generations, active manifest, snapshots | prepare, publish, clean up, save | FileTree, SystemCompaction |
| store lifecycle (`store.go`) | five mutexes, open partitions, closing | open, OpenPartition, Close | StoreLifecycle |

Hard behaviours: crashes between write, fsync, rename and directory sync;
failed syncs whose outcome is unknown; cancellation racing completion; a ring
whose slots are freed later than the admission window; shutdown racing
publishers; two locks taken in both orders; leases expiring under running
operations; a tail that is fed outside the partition lock; probes that finish
out of order; files that are removed after the event that retires them;
generations replaced by rename. `PROJECT.json` lists each at its line.

## Modules

**AppendLog** is what a partition promises: batches are appended one at a time
at the end, an acknowledged batch stays, and one whose append failed either
joins the log at its offsets or never does.

**PartitionLog** is the write path and recovery. Every file exists twice: as
the page cache shows it and as the disk holds it. `BeginAppend`, `RollRename`,
`RollSync`, `WriteBatch` and `SyncBatch` are the steps of `appendEncodedLocked`
between which the process can die, each with its failing counterpart;
`FailAppend` is the fence (`unavailable`). `ProcessCrash` keeps the page cache,
`PowerLoss` keeps what was synced and any part of the rest. `OpenFresh`,
`OpenRecovers` and `OpenRefuses` are `openPartition` with `recoverSegment`. The
direct path of the system logs, `AppendBatch`, is `BeginAppend` too. A segment
holds `SegmentBytes` records; bytes below a record, indexes and checksums are
abstracted to whole, torn and damaged batches.

**Ingress** is `Append` up to its answer: admission (`admit`), the publication
to the ring (`enqueue`, `ClaimSlot`, `PublishSequence`), the processor
(`TakeRange` to `AdvanceSequence`), the caller's wait and cancellation
(`waitResult`), and `closeWriter`. The ring is the external library
lib-disruptor. Its source is not here; assumed are claims in sequence, a handler
that sees contiguous published ranges, a claim that blocks while the ring is
full, and a processor that looks for a close between ranges only. The code's
path for a failing processor is out of reach under these assumptions, since
`HandlerFindsRequest` holds.

**FetchPath** is one open partition as its readers see it. It composes
**PartitionTail** (`offer`, `fetch`, `clear` and the byte budget),
**SegmentFiles** (descriptors of sealed segments: pinned, evicted, forgotten),
**SparseIndex** (which entries exist, and the hint a scan starts from) and
**DiskPressure** (a probe outside the lock, then the decision under it). An
append writes under `p.mu` and offers its batch to the tail afterwards; a fetch
looks into the tail, then scans segments under the shared lock; a poll checks,
parks and is woken; a retention pass retires the oldest segments and removes
them; Close stops all of it. A record is its offset, a batch of n records takes
n + 1 bytes.

**OffsetsProjection** is `offsetsProjection.apply` for one group: the checks on
the three events and what they do.

**Consumers** is one consumer group: `OpenConsumer` and `OpenConsumerGroup`,
`Poll` in its three critical sections, `Commit`, `Close`, leases and restarts.
`group` is the projection in memory, `stored` what the log replays to; an append
of unknown outcome lets them part. A deadline is reduced to whether it has
passed (`lapsed`) and which calls began before it (`before`), which is all
`startedBefore` asks.

**FileTree** is the file-system seam: directory entries as a process sees them
and as a power loss would leave them. `Journaled` says that a directory sync
also keeps the entries that lead to the directory, as journaling file systems do.

**TopicStorage** is the data directory before the first compaction: bootstrap,
`CreateTopic` with its preparation marker, retention and its cleanup, preflight
and replay. A call is a program of file operations that runs one step at a time,
so that an error or a crash can come between any two. **CatalogProjection** is
what the catalog events make of the catalog, **RetentionPlan** the plan
of one partition.

**SystemCompaction** is `CompactSystemLogs`, `SaveSnapshots`, event appends and
the open that chooses the authority, as such programs too, for the catalog and
the offsets log together. Generation 0 stands for the logs no manifest names.

**StoreLifecycle** is the nesting of `closeMu`, `snapshotMu`, `retentionMu`,
`store.mu` and `p.mu`. A pass of the retention worker or of `RunRetention`,
`CreateTopic`, consumer calls, `SaveSnapshots`, `CompactSystemLogs` and
`Store.Close` are sequences of steps; a lock is a variable when its holder waits
for another. Each opening of the partition is an instance of its own.

The modules meet at narrow interfaces. Ingress takes from PartitionLog that a
batch is written, refused or of unknown outcome. Consumers takes the same from
the offsets log, and from the user partitions that their end grows. TopicStorage
and SystemCompaction take AppendLog's promise for the system logs. FetchPath
takes from PartitionLog that what a write leaves in the file is found again.
StoreLifecycle treats the work done under a lock as one step.

`MC*.tla` instantiate the modules, `*Proofs.tla` hold the proofs.

## Runs

| run | checks | instance |
|---|---|---|
| partition | types, acknowledged batches stay whole, recovery refuses only torn bytes, segment bound, `H` never regresses, a fenced partition writes nothing, refinement of AppendLog | every fault, any number of crashes, except a power loss while something recovery took over is still unsynced (`SafeSpec`) |
| partition_mixed | **violated**: acknowledged batches stay | the same without that exception |
| partition_oversize | **violated**: segment bound | batches larger than a segment |
| ingress_safety | counters, ring never full, handler finds its request, reported outcomes are true, offsets follow claims, nothing left after Close | 3 appends, 2 closes, every failure |
| ingress_liveness | every Append and every Close returns | 3 appends, window of 1, 1 close |
| fetch_path | a fetch returns the log and nothing else, no lost wakeup, descriptors closed once and never under a reader, tail budget, reservations given back once, admission on the newest view of the disk | five workloads of `MCFetchPath` |
| consumers | types, at-least-once, acknowledged commits stay, log and projection agree, only the durable owner delivers and commits, admitted calls keep the lease | 2 sessions; one key with two calls at a time, or two keys with both policies; failing offsets appends, restarts |
| consumers_stale | **violated**: a stale handle does not unregister its replacement | 1 key, no faults |
| topic_storage | acknowledged topics and retained records are there after every open, an open refuses only a torn preparation, partitions open unless a removal is owed, log starts never regress, retired files go eventually | 2 topics, 2 faults |
| compaction | every start finds a whole generation, cleanup leaves one authority, both system logs are append-only, snapshots never regress | 2 compactions, 2 snapshot callers, 1 fault |
| lifecycle_close | claimed partitions stay open, one open instance, nothing runs after Close, Close returns unless one lock cycle exists | 2 closes, worker and RunRetention, 1 consumer |
| lifecycle_lock_order | **violated**: Close returns | the same, 1 close |

Deadlock is not checked, as every one of these systems may rightly come to rest:
calls are bounded, and a closed partition or store does nothing more.

**Bounds.** Partition: segments of two records and batches of one or two give
batches that fill a segment, force a roll and do not fit; seven offsets and five
appends give four segments, so recovery meets sealed, active and half-created
ones, and the last offsets of the range. Ingress: three appends, one
twice as large, against a window of two records and one waiter make requests
wait, be refused for space, and share batches; the liveness run narrows the
window to one so that every append waits for another, and has one Close (a
later caller only waits for the first, which ingress_safety covers). FetchPath: each workload
names who takes part and which faults may come, since all together are out of
reach: two appends around the ledger with and without a pass, two readers that
share one descriptor slot with a pass, two readers that wait for one of two
appends, and one reader among appends and a pass with any fault. Consumers: two
sessions are a handle and its replacement; with failed opens each generation
change is reached. Two records let a commit be below, at and above the delivered
position. TopicStorage: two topics and a future timestamp make retention stop at
a segment that blocks the ones behind it; two faults allow a crash during the
repair of an error. SystemCompaction: two compactions with one fault meet the
leftovers of an abandoned generation. Lifecycle: two passes let a temporary
partition be opened, torn down and opened again, and let the worker meet
RunRetention.

**Fairness.** Only weak fairness, and only of steps a goroutine takes by itself
once a call has begun; nobody has to call anything, cancel, or fail. The Go
scheduler runs a goroutine that can run, and a mutex that stays free is granted.
As calls are bounded, contention ends, so strong fairness of locks is not
needed. In StoreLifecycle the worker's timer may fire after the stop channel was
closed (`select` chooses among ready cases), within the bound on passes. In
TopicStorage the background loop is fair: its timer fires again and again while
the store is open, and every pass reconciles retired files before it plans.

## Proofs

Three modules hold theorems, each for every value of its constants.

**PartitionLogProofs**: every initial offset, segment size, batch limit, offset
range and bound on appends, and any number of crashes.

- `TypeCorrect`, `FenceHolds` and `SegmentsStayBounded` under every fault, the
  last one when the batch limit does not exceed the segment size;
- `AcknowledgedAppendsSurvive`, `RecoveryFindsChain`, `EndIsMonotonic` and
  `PartitionIsAppendLog` (the refinement) of `SafeSpec`, where power is lost only
  while everything the last open took over has been synced (`FoundDurable`). It
  is not a convenience: without it they are false, as partition_mixed shows.

That acknowledged batches are whole is not inductive: recovery decides by file
contents, so one has to know what the files can look like at each step of an
append. `WriterShape` says what the writer's step implies about its batch,
`FileShape` that the complete batches end at `H` or behind the one batch in
doubt, `DirShape` that the directory has the first segment and none beyond `H`,
`AckedBelowEnd` that acknowledged batches lie below `H`, `SyncShape` that a power
loss can cost only the batch being synced and the entry being published, and
`RefusedShape` when a reopen may have been refused. `PowerLossStep` is the hard
case and a lemma of its own. The refinement uses that the readable records are
exactly the contiguous whole batches below `H` (`ReadableWhole`, `JoinedReadable`).

**ConsumersProofs**: any keys, sessions, membership, number of concurrent calls
and failing appends.

- `LogAlwaysReplays`, `NothingSkipped` (at-least-once) and `CommitsSurvive`;
- `OnlyTheOwnerProgresses` and `AdmittedCallsProtect`, the two action properties.

At-least-once is not inductive: a commit is checked against the cursor of its
handle, so one needs `Owned`, that the cursor of the handle the projection names
as owner has passed delivered records only. `Owned` survives because a cursor
moves only behind the fence (`ActiveOwns`), and because an assignment starts a
new owner at the durable position, whose records were delivered. `Logs` says
that the projection in memory and the one the log replays to are equal unless
the subsystem is fenced, so that the event a critical section builds from memory
is one that replay accepts (`InstallApplies`, `RevokeApplies`, `CommitApplies`).

**StoreLifecycleProofs**: any number of RunRetention callers, consumers, closers
and passes.

- `ClaimedPartitionsStayOpen`, `OneInstanceIsOpen`, `CloseLeavesQuiet`.

`Holders` ties every critical section that spans steps to its lock. `Registered`
relates the registered, the temporary and the open instance: what a pass tears
down is the temporary instance, marked as retiring before the locks are dropped,
and nobody claims a retiring one. `Stopping` and `Quiet` follow `Store.Close`:
behind the barrier no topic is being created, so the worker it waits for is the
last one; behind its exit and `retentionMu` no pass has an instance in hand.

Only model-checked: Ingress, FetchPath, TopicStorage and SystemCompaction, whose
state is sequences, sums and trees that call for induction over data, and all
liveness, as fairness is out of the prover's reach. `TypeOK` of Consumers names
the bounds of its instance; the proofs have a type invariant of their own.

## Findings

1. Recovery takes over bytes and directory entries from the page cache without
   syncing them; a power loss after further acknowledged appends loses
   acknowledged records (partition_mixed).
2. A batch that fits no segment is written after a roll instead of being
   rejected (partition_oversize).
3. A poll or commit of a replaced single-partition handle, after its deadline,
   removes the registration of the live replacement (consumers_stale).
4. `retainPartitionAt` takes `p.mu` then `store.mu`, `Commit` and `OpenConsumer`
   take `store.mu` then `p.mu`; when they meet, both and every Close hang
   (lifecycle_lock_order). `CloseReturnsUnlessCycle` shows that this is the only
   obstacle among the calls modelled.

## Observations

Behaviour met while modelling that the models contain, or leave out knowingly,
and that no run reports as a violation.

- *Torn preparation.* A crash between the creation of a topic's preparation
  marker and its write leaves a directory that preflight cannot recognise; every
  later open refuses the store (`catalog.go:447`). `RefusesOnlyTornPreparation`
  shows that nothing else makes an open refuse.
- *Disk pressure after a failed probe.* A failed probe advances `appliedProbe`
  and keeps the observation of some earlier one. An older probe that succeeds
  afterwards is not applied, but its caller is judged by that earlier observation
  and can clear `pressured` (`disk_pressure.go:131`), although "a
  filesystem-capacity probe failure fails closed" (`src/docs/spec/spec.md:856`).
- *The floor is not exact.* A probe is taken outside the lock, so bytes written
  by a caller that has released its reservation since are not in it: free space
  can pass the floor by a batch for each concurrent caller. A roll that retention
  asks for is not reserved at all.
- *Waiters of a fenced partition.* A failed `AppendBatch` sets `unavailable`
  without waking parked fetches (`append_encoded.go:76`, `98`, `105`); they see it
  at their deadline. `NoLostWakeup` is about data, retention and Close.
- *Timer of the retention loop.* A wake-up restarts the full interval
  (`retention.go:511`).
- *Catalog append refused.* A log-start event that is refused without an unknown
  outcome ends the partition's turn and fences nothing; the next pass plans again.
- *Snapshot leftovers.* The cleanup of a replaced generation recognises the
  temporaries of manifests but not those of projection snapshots
  (`system_compaction.go:843`); one left by a crash keeps the old directory from
  being removed, and nothing else. The model has it: `OneAuthorityLeft` speaks of
  logs, checkpoints, manifests and snapshots.
- *Unsynced namespaces.* Several directories are created without a sync of every
  directory above them (`catalog.go:358`, `bootstrap.go:45`). The runs set
  `Journaled`: a sync below them keeps them. Without it, as POSIX allows, a power
  loss can take a directory together with the synced files in it.

## Not modelled

Byte formats, codecs, checksums and statistics have no state of interest; a
batch, an event, a marker or a sidecar is whole, torn or damaged. Directory locks
and disk probes are system calls. The static limits of `capacity.go` refuse an
event before anything has changed. Consumers leaves out the explicit start
policy, members with no key or several, the reason byte and operating limits;
its log start never moves. TopicStorage and SystemCompaction are not composed:
retention and topic creation are checked on the first generation of the system
logs, and compaction on events without content. Of the reader API `Reader.Close`
is left out, which only stops its handle. StoreLifecycle leaves out a user
closing a partition handle, topics without a retention policy, and failures of
the catalog append. Benchmarks, report tools and examples use the library and
are not part of it.
