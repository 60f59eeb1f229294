--------------------------- MODULE StoreLifecycle ---------------------------
(***************************************************************************)
(* Which lock of a store is held while which other is waited for, and what *)
(* Store.Close waits for: the retention worker and RunRetention, the       *)
(* partition instances retention opens for itself, OpenPartition,          *)
(* CreateTopic, consumer calls, SaveSnapshots and CompactSystemLogs.       *)
(*                                                                         *)
(* There is one topic, with a retention policy and one partition.  Every   *)
(* time the partition is opened it is a new instance with its own p.mu.    *)
(* A critical section that waits for nothing else is one step, possible    *)
(* when its lock is free.  A user closing a partition, and catalog appends *)
(* that fail, are left out.                                                *)
(***************************************************************************)
EXTENDS Integers, FiniteSets

CONSTANTS
    Runners,    \* callers of RunRetention
    Callers,    \* consumers: each opens, then commits
    Closers,    \* callers of Store.Close
    MaxPasses   \* retention passes; bounds the model

ASSUME LifecycleAssumption ==
    /\ IsFiniteSet(Runners) /\ IsFiniteSet(Callers) /\ IsFiniteSet(Closers)
    /\ MaxPasses \in Nat
    /\ Runners \cap Callers = {} /\ Runners \cap Closers = {} /\ Callers \cap Closers = {}
    /\ (Runners \cup Callers \cup Closers)
          \cap {"free", "worker", "creator", "snapshot", "compaction"} = {}

Worker == "worker"

Passers == Runners \cup {Worker}

\* A pass opens at most one instance, and at most one becomes public.
Instances == 1..(MaxPasses + 1)

None == 0

Free == "free"

Locks == {"store", "retention", "snapshot", "close"}

VARIABLES
    held,          \* lock -> its holder while that waits for something, or Free
    partMu,        \* instance -> the pass that holds its p.mu, or Free
    closing, closed,
    topic,         \* the catalog has the topic
    current,       \* s.partitions: the registered instance, or None
    temporary,     \* s.retentionPartitions: instance and retiring flag
    opened, shut,  \* number of instances opened, and those closed again
    public,        \* instances handed to callers
    generation, systemOpen,  \* s.catalog and s.offsets; generations open
    stopped,       \* retentionStopped
    pass,          \* passer -> [step, instance, temporary]
    passes,        \* number of passes begun
    creator, snapshot, compaction,  \* steps of these calls
    caller,        \* consumer -> step of its calls
    closer         \* closer -> step of Store.Close

flags     == <<closing, closed, topic, stopped>>
instances == <<current, temporary, opened, shut, public>>
system    == <<generation, systemOpen>>
calls     == <<creator, snapshot, compaction, caller, closer>>
vars == <<held, partMu, flags, instances, system, pass, passes, calls>>

NoTemporary == [instance |-> None, retiring |-> FALSE]

At(step) == [step |-> step, instance |-> None, temporary |-> FALSE]

\* OpenWithOptions, with or without the topic in the recovered catalog.
Init ==
    /\ held = [l \in Locks |-> Free]
    /\ partMu = [i \in Instances |-> Free]
    /\ closing = FALSE /\ closed = FALSE /\ stopped = FALSE
    /\ topic \in BOOLEAN
    /\ current = None /\ temporary = NoTemporary /\ opened = 0 /\ shut = {} /\ public = {}
    /\ generation = 1 /\ systemOpen = {1}
    /\ pass = [p \in Passers |->
                 At(IF p # Worker THEN "idle" ELSE IF topic THEN "note" ELSE "off")]
    /\ passes = 0
    /\ creator = "idle" /\ snapshot = "idle" /\ compaction = "idle"
    /\ caller = [c \in Callers |-> "idle"]
    /\ closer = [c \in Closers |-> "idle"]

IsFree(l) == held[l] = Free

Take(l, who) == IsFree(l) /\ held' = [held EXCEPT ![l] = who]

Drop(ls) == held' = [l \in Locks |-> IF l \in ls THEN Free ELSE held[l]]

Refusing == closed \/ closing

-----------------------------------------------------------------------------
(* Partitions and topics.                                                  *)

\* openPartition, and its registration.
OpenInstance ==
    /\ opened' = opened + 1
    /\ current' = opened + 1
    /\ UNCHANGED shut

\* Mutant of claimPartitionLocked: an instance being torn down is handed out.
claimRetiring ==
    /\ current # None
    /\ temporary' = IF temporary.instance = current THEN NoTemporary ELSE temporary
    /\ public' = public \cup {current}
    /\ UNCHANGED <<current, opened, shut>>

\* claimPartitionLocked finds an instance, and takes it from retention unless
\* its teardown has begun.
claimPartitionLocked ==
    /\ current # None
    /\ ~(temporary.instance = current /\ temporary.retiring)
    /\ temporary' = IF temporary.instance = current THEN NoTemporary ELSE temporary
    /\ public' = public \cup {current}
    /\ UNCHANGED <<current, opened, shut>>

\* openConsumerPartitionLocked: the registered instance, or a new one.
openConsumerPartitionLocked ==
    \/ claimPartitionLocked
    \/ /\ current = None
       /\ OpenInstance
       /\ public' = public \cup {opened + 1}
       /\ UNCHANGED temporary

OpenPartition ==
    /\ IsFree("store") /\ ~Refusing /\ topic
    /\ openConsumerPartitionLocked
    /\ UNCHANGED <<held, partMu, flags, system, pass, passes, calls>>

\* CreateTopic finds the store open, under store.mu.
CreateTopicBegins ==
    /\ creator = "idle" /\ ~Refusing /\ ~topic
    /\ Take("store", "creator")
    /\ creator' = "create"
    /\ UNCHANGED <<partMu, flags, instances, system, pass, passes, snapshot, compaction,
                   caller, closer>>

\* It registers the partition and starts the worker, still under store.mu;
\* Close may have set the closing flag in between.
createTopic ==
    /\ creator = "create"
    /\ topic' = TRUE
    /\ OpenInstance
    /\ public' = public \cup {opened + 1}
    /\ pass' = [pass EXCEPT ![Worker] = At("note")]
    /\ creator' = "done"
    /\ Drop({"store"})
    /\ UNCHANGED <<partMu, closing, closed, stopped, temporary, system, passes, snapshot,
                   compaction, caller, closer>>

-----------------------------------------------------------------------------
(* A retention pass.                                                       *)

Goto(p, step) == pass' = [pass EXCEPT ![p].step = step]

PassKeeps == <<flags, system, calls>>

\* The worker's timer fires, or a caller calls RunRetention.
PassStarts(p) ==
    /\ pass[p].step = "idle" /\ passes < MaxPasses
    /\ passes' = passes + 1
    /\ Goto(p, IF p = Worker THEN "running" ELSE "lockRetention")
    /\ UNCHANGED <<held, partMu, instances, PassKeeps>>

\* The worker notes that it is running: a section under store.mu.
runBackgroundRetention ==
    /\ pass[Worker].step = "running" /\ IsFree("store")
    /\ Goto(Worker, "lockRetention")
    /\ UNCHANGED <<held, partMu, instances, passes, PassKeeps>>

LockRetention(p) ==
    /\ pass[p].step = "lockRetention"
    /\ Take("retention", p)
    /\ Goto(p, "begin")
    /\ UNCHANGED <<partMu, instances, passes, PassKeeps>>

\* runRetentionAt checks the store and reads the catalog under store.mu; the
\* same for reconcileRetiredCleanup.
runRetentionAt(p) ==
    /\ pass[p].step = "begin" /\ IsFree("store")
    /\ Goto(p, IF Refusing \/ ~topic THEN "finish" ELSE "open")
    /\ UNCHANGED <<held, partMu, instances, passes, PassKeeps>>

\* openRetentionPartition: the registered instance, or one of its own, or an
\* error: the store is closing, teardown has begun, or the open fails.
openRetentionPartition(p) ==
    /\ pass[p].step = "open" /\ IsFree("store")
    /\ \/ /\ Refusing \/ current = None
          /\ Goto(p, "finish")
          /\ UNCHANGED instances
       \/ /\ ~Refusing /\ current # None /\ ~temporary.retiring
          /\ pass' = [pass EXCEPT ![p].step = "lockPartition", ![p].instance = current]
          /\ UNCHANGED instances
       \/ /\ ~Refusing /\ current = None
          /\ OpenInstance
          /\ temporary' = [instance |-> opened + 1, retiring |-> FALSE]
          /\ pass' = [pass EXCEPT ![p] = [step |-> "lockPartition", instance |-> opened + 1,
                                          temporary |-> TRUE]]
          /\ UNCHANGED public
    /\ UNCHANGED <<held, partMu, passes, PassKeeps>>

AfterRetain(p) == IF pass[p].temporary THEN "release" ELSE "finish"

\* retainPartitionAt takes p.mu, and looks at the flags.
LockPartition(p) ==
    LET i == pass[p].instance
    IN  /\ pass[p].step = "lockPartition" /\ partMu[i] = Free
        /\ IF i \in shut \/ closing
           THEN Goto(p, AfterRetain(p)) /\ UNCHANGED partMu
           ELSE Goto(p, "lockStore") /\ partMu' = [partMu EXCEPT ![i] = p]
        /\ UNCHANGED <<held, instances, passes, PassKeeps>>

\* It takes store.mu while it holds p.mu, moves the log start unless the store
\* is closing, and lets go of both.
retainPartitionAt(p) ==
    /\ pass[p].step = "lockStore" /\ IsFree("store")
    /\ partMu' = [partMu EXCEPT ![pass[p].instance] = Free]
    /\ Goto(p, AfterRetain(p))
    /\ UNCHANGED <<held, instances, passes, PassKeeps>>

\* The instance is still retention's own.
StillTemporary(i) == temporary.instance = i /\ current = i

\* Mutant of releaseRetentionPartition: unregistered before it is closed.
releaseEarly(p) ==
    LET mine == StillTemporary(pass[p].instance)
    IN  /\ pass[p].step = "release" /\ IsFree("store")
        /\ temporary' = IF mine THEN NoTemporary ELSE temporary
        /\ current' = IF mine THEN None ELSE current
        /\ Goto(p, IF mine THEN "closePartition" ELSE "finish")
        /\ UNCHANGED <<held, partMu, opened, shut, public, passes, PassKeeps>>

\* releaseRetentionPartition marks an instance nobody claimed as retiring,
releaseRetentionPartition(p) ==
    LET mine == StillTemporary(pass[p].instance)
    IN  /\ pass[p].step = "release" /\ IsFree("store")
        /\ temporary' = IF mine THEN [temporary EXCEPT !.retiring = TRUE] ELSE temporary
        /\ Goto(p, IF mine THEN "closePartition" ELSE "finish")
        /\ UNCHANGED <<held, partMu, current, opened, shut, public, passes, PassKeeps>>

\* closes it without store.mu,
ClosePartition(p) ==
    /\ pass[p].step = "closePartition" /\ partMu[pass[p].instance] = Free
    /\ shut' = shut \cup {pass[p].instance}
    /\ Goto(p, "unregister")
    /\ UNCHANGED <<held, partMu, current, temporary, opened, public, passes, PassKeeps>>

\* and then takes it out of both maps.
UnregisterPartition(p) ==
    LET mine == StillTemporary(pass[p].instance)
    IN  /\ pass[p].step = "unregister" /\ IsFree("store")
        /\ temporary' = IF mine THEN NoTemporary ELSE temporary
        /\ current' = IF mine THEN None ELSE current
        /\ Goto(p, "finish")
        /\ UNCHANGED <<held, partMu, opened, shut, public, passes, PassKeeps>>

AfterPass(p) == [pass EXCEPT ![p] = At(IF p = Worker THEN "note" ELSE "idle")]

\* runRetentionAt returns.
FinishPass(p) ==
    /\ pass[p].step = "finish"
    /\ Drop({"retention"})
    /\ pass' = AfterPass(p)
    /\ UNCHANGED <<partMu, instances, passes, PassKeeps>>

\* The worker notes the outcome and reads the next interval under store.mu.
WorkerNotes ==
    /\ pass[Worker].step = "note" /\ IsFree("store")
    /\ Goto(Worker, "idle")
    /\ UNCHANGED <<held, partMu, instances, passes, PassKeeps>>

\* runRetentionLoop sees retentionStop closed.
WorkerExits ==
    /\ pass[Worker].step = "idle" /\ stopped
    /\ Goto(Worker, "exited")
    /\ UNCHANGED <<held, partMu, instances, passes, PassKeeps>>

PassStep(p) ==
    \/ LockRetention(p) \/ runRetentionAt(p) \/ openRetentionPartition(p)
    \/ LockPartition(p) \/ retainPartitionAt(p) \/ releaseRetentionPartition(p)
    \/ ClosePartition(p) \/ UnregisterPartition(p) \/ FinishPass(p)

WorkerStep == runBackgroundRetention \/ WorkerNotes \/ WorkerExits

-----------------------------------------------------------------------------
(* Consumer calls.                                                         *)

CallerKeeps == <<partMu, flags, system, pass, passes, creator, snapshot, compaction, closer>>

\* OpenConsumer takes store.mu and its partition.
OpenConsumer(c) ==
    /\ caller[c] = "idle" /\ ~Refusing /\ topic
    /\ Take("store", c)
    /\ openConsumerPartitionLocked
    /\ caller' = [caller EXCEPT ![c] = "opening"]
    /\ UNCHANGED CallerKeeps

\* Commit takes store.mu; activePartitionLocked finds the partition registered.
Commit(c) ==
    /\ caller[c] = "open" /\ ~Refusing /\ current # None
    /\ Take("store", c)
    /\ caller' = [caller EXCEPT ![c] = "committing"]
    /\ UNCHANGED <<instances, CallerKeeps>>

\* resolveConsumerStart, validateReadOffset and EndOffset take p.mu for reading
\* while store.mu is held.  After the offsets append store.mu is released.
EndOffset(c) ==
    /\ caller[c] \in {"opening", "committing"} /\ partMu[current] = Free
    /\ caller' = [caller EXCEPT ![c] = IF caller[c] = "opening" THEN "open" ELSE "done"]
    /\ Drop({"store"})
    /\ UNCHANGED <<instances, CallerKeeps>>

-----------------------------------------------------------------------------
(* Snapshots and compaction of the system logs.                            *)

SaveSnapshots ==
    /\ snapshot = "idle"
    /\ Take("snapshot", "snapshot")
    /\ snapshot' = "build"
    /\ UNCHANGED <<partMu, flags, instances, system, pass, passes, creator, compaction,
                   caller, closer>>

\* Mutant of buildSnapshots: a refused build keeps snapshotMu.
buildSnapshotsLocked ==
    /\ snapshot = "build" /\ IsFree("store")
    /\ snapshot' = IF Refusing THEN "done" ELSE "publish"
    /\ UNCHANGED held
    /\ UNCHANGED <<partMu, flags, instances, system, pass, passes, creator, compaction,
                   caller, closer>>

buildSnapshots ==
    /\ snapshot = "build" /\ IsFree("store")
    /\ snapshot' = IF Refusing THEN "done" ELSE "publish"
    /\ Drop(IF Refusing THEN {"snapshot"} ELSE {})
    /\ UNCHANGED <<partMu, flags, instances, system, pass, passes, creator, compaction,
                   caller, closer>>

\* publishSnapshot without store.mu, then recordSnapshotDiagnostic with it.
publishSnapshot ==
    /\ snapshot = "publish" /\ IsFree("store")
    /\ snapshot' = "done"
    /\ Drop({"snapshot"})
    /\ UNCHANGED <<partMu, flags, instances, system, pass, passes, creator, compaction,
                   caller, closer>>

CompactionKeeps ==
    <<partMu, flags, instances, pass, passes, creator, snapshot, caller, closer>>

\* CompactSystemLogs notes that it runs, and takes snapshotMu,
CompactSystemLogs ==
    /\ compaction = "idle" /\ IsFree("store")
    /\ compaction' = "lockSnapshot"
    /\ UNCHANGED <<held, system, CompactionKeeps>>

CompactionLocksSnapshot ==
    /\ compaction = "lockSnapshot"
    /\ Take("snapshot", "compaction")
    /\ compaction' = "lockRetention"
    /\ UNCHANGED <<system, CompactionKeeps>>

\* then retentionMu,
CompactionLocksRetention ==
    /\ compaction = "lockRetention"
    /\ Take("retention", "compaction")
    /\ compaction' = "switch"
    /\ UNCHANGED <<system, CompactionKeeps>>

\* then under store.mu opens and installs a new generation, or is refused or
\* fails.
SwitchGeneration ==
    /\ compaction = "switch" /\ IsFree("store")
    /\ \/ /\ ~Refusing
          /\ generation' = generation + 1
          /\ systemOpen' = systemOpen \cup {generation + 1}
          /\ compaction' = "closeOld"
          /\ UNCHANGED held
       \/ /\ compaction' = "report"
          /\ Drop({"snapshot", "retention"})
          /\ UNCHANGED system
    /\ UNCHANGED CompactionKeeps

\* The old logs are closed and removed without store.mu.
CloseOldGeneration ==
    /\ compaction = "closeOld" /\ IsFree("store")
    /\ systemOpen' = systemOpen \ {generation - 1}
    /\ compaction' = "report"
    /\ Drop({"snapshot", "retention"})
    /\ UNCHANGED <<generation, CompactionKeeps>>

CompactionReports ==
    /\ compaction = "report" /\ IsFree("store")
    /\ compaction' = "done"
    /\ UNCHANGED <<held, system, CompactionKeeps>>

CompactionStep ==
    \/ CompactionLocksSnapshot \/ CompactionLocksRetention \/ SwitchGeneration
    \/ CloseOldGeneration \/ CompactionReports

-----------------------------------------------------------------------------
(* Store.Close.                                                            *)

CloserKeeps ==
    <<partMu, topic, pass, passes, current, temporary, opened, public, generation,
      creator, snapshot, compaction, caller>>

CloserAt(c, step) == closer' = [closer EXCEPT ![c] = step]

\* closeMu, and the closing flag.
Close(c) ==
    /\ closer[c] = "idle"
    /\ Take("close", c)
    /\ closing' = TRUE
    /\ CloserAt(c, "lockSnapshot")
    /\ UNCHANGED <<closed, stopped, shut, systemOpen, CloserKeeps>>

CloseLocksSnapshot(c) ==
    /\ closer[c] = "lockSnapshot"
    /\ Take("snapshot", c)
    /\ CloserAt(c, "barrier")
    /\ UNCHANGED <<closing, closed, stopped, shut, systemOpen, CloserKeeps>>

\* Mutant of CloseBarrier: closeStartedAt is set without store.mu.
CloseNoBarrier(c) ==
    /\ closer[c] = "barrier"
    /\ CloserAt(c, "stopRetention")
    /\ UNCHANGED <<held, closing, closed, stopped, shut, systemOpen, CloserKeeps>>

\* The section that sets closeStartedAt.  Who found the store open under
\* store.mu has left it when this one is entered.
CloseBarrier(c) ==
    /\ closer[c] = "barrier" /\ IsFree("store")
    /\ CloserAt(c, "stopRetention")
    /\ UNCHANGED <<held, closing, closed, stopped, shut, systemOpen, CloserKeeps>>

stopRetention(c) ==
    /\ closer[c] = "stopRetention"
    /\ IF pass[Worker].step # "off" /\ ~stopped
       THEN stopped' = TRUE /\ CloserAt(c, "awaitWorker")
       ELSE UNCHANGED stopped /\ CloserAt(c, "lockRetention")
    /\ UNCHANGED <<held, closing, closed, shut, systemOpen, CloserKeeps>>

\* Receives from retentionDone.
AwaitWorker(c) ==
    /\ closer[c] = "awaitWorker" /\ pass[Worker].step = "exited"
    /\ CloserAt(c, "lockRetention")
    /\ UNCHANGED <<held, closing, closed, stopped, shut, systemOpen, CloserKeeps>>

CloseLocksRetention(c) ==
    /\ closer[c] = "lockRetention"
    /\ Take("retention", c)
    /\ CloserAt(c, "mark")
    /\ UNCHANGED <<closing, closed, stopped, shut, systemOpen, CloserKeeps>>

\* The closed flag; a second Close returns here.
MarkClosed(c) ==
    /\ closer[c] = "mark" /\ IsFree("store")
    /\ closed' = TRUE
    /\ CloserAt(c, IF closed THEN "returned" ELSE "tearDown")
    /\ Drop(IF closed THEN {"close", "snapshot", "retention"} ELSE {})
    /\ UNCHANGED <<closing, stopped, shut, systemOpen, CloserKeeps>>

\* Closes the registered partitions and the system logs; then the directory is
\* released under store.mu.
TearDown(c) ==
    /\ closer[c] = "tearDown" /\ IsFree("store")
    /\ current # None => partMu[current] = Free
    /\ shut' = shut \cup ({current} \ {None})
    /\ systemOpen' = systemOpen \ {generation}
    /\ CloserAt(c, "returned")
    /\ Drop({"close", "snapshot", "retention"})
    /\ UNCHANGED <<closing, closed, stopped, CloserKeeps>>

CloserStep(c) ==
    \/ CloseLocksSnapshot(c) \/ CloseBarrier(c) \/ stopRetention(c) \/ AwaitWorker(c)
    \/ CloseLocksRetention(c) \/ MarkClosed(c) \/ TearDown(c)

-----------------------------------------------------------------------------
Next ==
    \/ OpenPartition \/ CreateTopicBegins \/ createTopic
    \/ \E p \in Passers : PassStarts(p) \/ PassStep(p)
    \/ WorkerStep
    \/ \E c \in Callers : OpenConsumer(c) \/ Commit(c) \/ EndOffset(c)
    \/ SaveSnapshots \/ buildSnapshots \/ publishSnapshot
    \/ CompactSystemLogs \/ CompactionStep
    \/ \E c \in Closers : Close(c) \/ CloserStep(c)

Spec == Init /\ [][Next]_vars

\* A goroutine that is not blocked runs, and a lock that stays free is granted.
\* Nobody has to make a call, or to make it again.
Fairness ==
    /\ WF_vars(createTopic)
    /\ WF_vars(WorkerStep)
    /\ \A p \in Passers : WF_vars(PassStep(p))
    /\ \A c \in Callers : WF_vars(EndOffset(c))
    /\ WF_vars(buildSnapshots \/ publishSnapshot)
    /\ WF_vars(CompactionStep)
    /\ \A c \in Closers : WF_vars(CloserStep(c))

FairSpec == Spec /\ Fairness

-----------------------------------------------------------------------------
(* Properties.                                                             *)

\* A partition handed to a caller by OpenPartition, CreateTopic or OpenConsumer
\* is closed by Store.Close only: a retention pass that opened the instance for
\* itself (releaseRetentionPartition) never closes it under its new owner.
ClaimedStaysOpen == ~closed => public \cap shut = {}

\* Two instances of one partition are never open at the same time: each would
\* append to the same segment files with its own end offset.
OneOpenInstance == Cardinality((1..opened) \ shut) <= 1

\* Once Store.Close has set the closed flag, the worker is gone, no pass works on
\* a partition, no snapshot is being published and no compaction is under way;
\* once a Close has returned, every partition instance and every generation of
\* the system logs that was ever opened is closed.
ClosedIsQuiet ==
    /\ closed =>
          /\ pass[Worker].step \in {"off", "exited"}
          /\ \A p \in Passers : pass[p].instance = None
          /\ snapshot # "publish" /\ compaction # "closeOld"
    /\ (\E c \in Closers : closer[c] = "returned") =>
          closed /\ shut = 1..opened /\ systemOpen = {}

\* A consumer call holds store.mu and waits for the p.mu that a retention pass
\* holds while it waits for store.mu.
LockCycle ==
    \E c \in Callers, p \in Passers :
        /\ caller[c] \in {"opening", "committing"}
        /\ current # None /\ partMu[current] = p
        /\ pass[p].step = "lockStore"

\* Every Store.Close that has begun returns, unless a consumer call and a
\* retention pass wait for each other: nothing else that takes the store's locks
\* (worker, snapshots, compaction, CreateTopic, a second Close) blocks it for
\* ever.
CloseReturnsUnlessCycle ==
    \A c \in Closers : (closer[c] # "idle") ~> (closer[c] = "returned" \/ LockCycle)

\* Every Store.Close that has begun returns.
CloseReturns ==
    \A c \in Closers : (closer[c] # "idle") ~> (closer[c] = "returned")

=============================================================================
