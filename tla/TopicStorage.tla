---------------------------- MODULE TopicStorage ----------------------------
(***************************************************************************)
(* Everything the store keeps under its data directory before the first    *)
(* compaction: bootstrapMetadata, CreateTopic with its preparation marker, *)
(* retention with its cleanup, and the preflight that decides on open      *)
(* whether catalog and files agree.                                        *)
(*                                                                         *)
(* A call is a program of file operations, run one at a time: a fault can  *)
(* come between any two.  work["store"] is what holds store.mu (the open,  *)
(* or a CreateTopic), work["retention"] what holds retentionMu.  Appending *)
(* a catalog event is one step, as AppendLog promises: the event is        *)
(* durable, or it was not appended, or its outcome shows at the next open. *)
(***************************************************************************)
EXTENDS FileTree, CatalogProjection, RetentionPlan

CONSTANTS
    Timestamps,      \* key -> the timestamp of the record at each offset; bounds the model
    SegmentRecords,  \* records after which an append rolls the segment
    Nows,            \* clock readings of a retention pass
    Faults,          \* subset of FaultKinds
    MaxFaults        \* bounds the model

FaultKinds == {"ioError", "unknown", "processCrash", "powerLoss"}

VARIABLES
    marker,    \* content of each preparation marker
    extent,    \* key -> base -> end of the records in that segment file
    catalog,   \* the events of the catalog log
    doubt,     \* the events, at most one, whose append had an unknown outcome
    mode,      \* the store: down, refused, open, or a stage of the open
    work,      \* thread -> file operations it still has to do
    pass,      \* stage of the retention pass
    planned,   \* the partitions the pass has dealt with, the current one last
    projection,\* store.catalogState; keeps its last value while down
    live,      \* key -> bases of the open partition's segments, <<>> if closed
    fenced,    \* store.metadataUnavailable
    dead,      \* partitions with p.unavailable
    used,      \* TopicIDs drawn
    acked,     \* topics whose CreateTopic returned success
    ends,      \* key -> acknowledged records
    faults,    \* number of errors and process crashes so far
    losses     \* number of power losses so far

disk    == <<entries, durable, marker, extent, catalog, doubt>>
process == <<mode, work, pass, planned, projection, live, fenced, dead>>
history == <<used, acked, ends, faults, losses>>
vars    == <<disk, process, history>>

Threads == {"store", "retention"}

CatalogDir == <<"system", "cluster-metadata", "0">>
OffsetsDir == <<"system", "consumer-offsets", "0">>
CatalogLog == Append(CatalogDir, "log")
OffsetsLog == Append(OffsetsDir, "log")
TopicsDir == <<"topics">>
TopicDir(t) == <<"topics", t>>
Marker(t) == <<"topics", t, "marker">>
PartitionDir(k) == <<"topics", k[1], k[2]>>
SegmentFile(k, base) == <<"topics", k[1], k[2], base>>


\* discoverSegments: the bases a partition directory lists, in order.
Files(k) == {e[4] : e \in Children(PartitionDir(k), entries)}

Sorted(S) == SetToSortSeq(S, <)

Init ==
    /\ entries = {} /\ durable = {}
    /\ marker = [t \in Topics |-> "none"]
    /\ extent = [k \in Keys |-> [b \in 0..Len(Timestamps[k]) |-> 0]]
    /\ catalog = <<>> /\ doubt = {}
    /\ mode = "down" /\ work = [th \in Threads |-> <<>>]
    /\ pass = "idle" /\ planned = <<>>
    /\ projection = EmptyProjection
    /\ live = [k \in Keys |-> <<>>]
    /\ fenced = FALSE /\ dead = {}
    /\ used = {} /\ acked = {} /\ ends = [k \in Keys |-> 0]
    /\ faults = 0 /\ losses = 0

-----------------------------------------------------------------------------
(* File operations.                                                        *)

AppendEvent(e) == <<[op |-> "append", event |-> e]>>

\* removeRetiredArtifact for each base, then one directory sync.
RemoveAll(k, bases) ==
    [i \in 1..Len(bases) |-> [op |-> "remove", path |-> SegmentFile(k, bases[i])]]
        \o Op("syncdir", PartitionDir(k))

Current(th) == work[th][1]

\* A marker is created empty, then written, then synced; a segment file appears
\* under its name with its header written and synced.
Contents(o) ==
    /\ marker' = IF o.op \in {"create", "write", "syncfile"}
                   THEN [marker EXCEPT ![o.path[2]] =
                           CASE o.op = "create" -> "short" [] o.op = "write" -> "full"
                             [] OTHER -> "synced"]
                   ELSE marker
    /\ extent' = IF o.op = "publish" /\ o.path[1] = "topics" /\ o.path \notin entries
                   THEN [extent EXCEPT ![<<o.path[2], o.path[3]>>][o.path[4]] = o.path[4]]
                   ELSE extent

\* One file operation of a thread succeeds.
Step(th) ==
    /\ work[th] # <<>>
    /\ \/ FileEffect(Current(th))
       \/ Current(th).op = "write" /\ UNCHANGED <<entries, durable>>
       \/ /\ Current(th).op = "syncfile"
          /\ durable' = IF Journaled THEN durable \cup Ancestors(Current(th).path) ELSE durable
          /\ UNCHANGED entries
    /\ Contents(Current(th))
    /\ work' = [work EXCEPT ![th] = Tail(@)]
    /\ UNCHANGED <<catalog, doubt, mode, pass, planned, projection, live, fenced,
                   dead, history>>

-----------------------------------------------------------------------------
(* Opening the store: bootstrapMetadata.                                   *)

\* OpenWithOptions up to the look at the catalog log; what became of an event
\* in doubt shows when the log is read.
OpenStore ==
    /\ mode = "down"
    /\ mode' = "discover"
    /\ work' = [work EXCEPT !["store"] =
                  Op("syncdir", Root) \o MkdirAll(<<CatalogDir>>) \o Op("syncdir", Parent(CatalogDir))]
    /\ catalog' \in {catalog} \cup {Append(catalog, e) : e \in doubt}
    /\ doubt' = {}
    /\ UNCHANGED <<entries, durable, marker, extent, pass, planned, projection, live,
                   fenced, dead, history>>

\* What an open does that finds no catalog log, or one without an event: both
\* logs exist before StoreInitialized names their first segments.
BootstrapSteps(fresh) ==
    (IF fresh THEN OpenLog(CatalogLog) ELSE <<>>)
        \o MkdirAll(<<OffsetsDir>>)
        \o (IF fresh THEN Op("syncdir", Parent(OffsetsDir)) ELSE <<>>)
        \o OpenLog(OffsetsLog)
        \o AppendEvent(StoreInitialized)

Refuse ==
    /\ mode' = "refused"
    /\ UNCHANGED <<disk, work, pass, planned, projection, live, fenced, dead, history>>

\* The branches of bootstrapMetadata; rejectUninitializedData is the check for
\* topics without a catalog.
DiscoverCatalog ==
    /\ mode = "discover" /\ work["store"] = <<>>
    /\ LET fresh == CatalogLog \notin entries
           corrupt == \/ fresh /\ (OffsetsLog \in entries \/ TopicsDir \in entries)
                      \/ catalog # <<>> /\ OffsetsLog \notin entries
       IN  IF corrupt
             THEN Refuse
             ELSE /\ mode' = "replay"
                  /\ work' = [work EXCEPT !["store"] =
                                IF catalog = <<>> THEN BootstrapSteps(fresh) ELSE <<>>]
                  /\ UNCHANGED <<disk, pass, planned, projection, live, fenced, dead, history>>

\* preflightSegmentChain: from the log start on the segments follow each
\* other, only the last may be empty, and what is left below the log start is
\* exactly what the catalog retired.
PreflightChain(k, p) ==
    LET retained == {b \in Files(k) : b >= p.logStart[k]}
    IN  /\ p.logStart[k] \in retained
        /\ \A b \in retained \ {Max(retained)} :
              b < extent[k][b] /\ extent[k][b] = Min({c \in retained : c > b})
        /\ \A b \in Files(k) \ retained : [base |-> b, end |-> extent[k][b]] \in p.retired[k]

\* isRecognizedTopicPreparation: a marker must be whole; a directory without
\* one is tolerated while the catalog owns no topic.
PreflightUnowned(t, p) ==
    IF Marker(t) \in entries THEN marker[t] # "short" ELSE p.topics = {}

\* preflightTopicStorage.
Preflight(p) ==
    /\ \A t \in p.topics : \A k \in Keys : k[1] = t =>
          /\ TopicDir(t) \in entries /\ PartitionDir(k) \in entries
          /\ Marker(t) \in entries => marker[t] # "short"
          /\ PreflightChain(k, p)
    /\ \A t \in Topics \ p.topics : TopicDir(t) \in entries => PreflightUnowned(t, p)

\* Mutant of ReconcileSteps: nothing is reconciled.
ReconcileStepsNone(p) == <<>>

\* retiredArtifactPlans and reconcileRetiredPlans.
ReconcileSteps(p) ==
    LET owed == SetToSeq({k \in Keys : p.retired[k] # {}})
    IN  FlattenSeq([i \in 1..Len(owed) |->
            RemoveAll(owed[i], Sorted({r.base : r \in p.retired[owed[i]]}))])

\* replay, preflightTopicStorage and the start of reconcileRetiredArtifacts.
ReplayCatalog ==
    /\ mode = "replay" /\ work["store"] = <<>>
    /\ IF Replayable(catalog) /\ Preflight(Replay(catalog))
         THEN /\ mode' = "reconcile"
              /\ projection' = Replay(catalog)
              /\ work' = [work EXCEPT !["store"] = ReconcileSteps(Replay(catalog))]
              /\ UNCHANGED <<disk, pass, planned, live, fenced, dead, history>>
         ELSE Refuse

\* An artifact that could not be removed makes the open fail, to be retried.
OpenReturns ==
    /\ mode \in {"reconcile", "giveup"} /\ work["store"] = <<>>
    /\ mode' = IF mode = "giveup" THEN "down" ELSE "open"
    /\ UNCHANGED <<disk, work, pass, planned, projection, live, fenced, dead, history>>

\* Errors and process crashes leave entries that show but are not durable; a
\* power loss after one is left out (see partition_mixed in the README).
Fault(kind) ==
    /\ kind \in Faults /\ losses = 0 /\ faults < MaxFaults
    /\ faults' = faults + 1

-----------------------------------------------------------------------------
(* CreateTopic, under store.mu throughout.                                 *)

\* prepareTopicStorage.
PrepareSteps(t) ==
    MkdirAll(<<TopicDir(t)>>) \o Op("syncdir", Root) \o Op("syncdir", TopicsDir)
        \o Op("syncdir", TopicDir(t))
        \o Op("create", Marker(t)) \o Op("write", Marker(t)) \o Op("syncfile", Marker(t))
        \o Op("syncdir", TopicDir(t))

\* Mutant of CreateSteps: the topic is published before its partitions exist.
CreateStepsEarly(t) ==
    PrepareSteps(t)
        \o AppendEvent(TopicCreated(projection.revision, t))
        \o FlattenSeq([i \in 1..Len(Partitions) |->
               Op("mkdir", PartitionDir(<<t, Partitions[i]>>))
                   \o OpenLog(SegmentFile(<<t, Partitions[i]>>, 0))])

\* createTopic: the topic directory is not synced again after its partition
\* directories are made.
CreateSteps(t) ==
    PrepareSteps(t)
        \o FlattenSeq([i \in 1..Len(Partitions) |->
               Op("mkdir", PartitionDir(<<t, Partitions[i]>>))
                   \o OpenLog(SegmentFile(<<t, Partitions[i]>>, 0))])
        \o AppendEvent(TopicCreated(projection.revision, t))

\* store.mu is held by a CreateTopic or by the locked part of a retention.
StoreMuFree == work["store"] = <<>> /\ pass # "locked"

CreateTopic(t) ==
    /\ mode = "open" /\ StoreMuFree /\ ~fenced
    /\ t \notin used
    /\ used' = used \cup {t}
    /\ work' = [work EXCEPT !["store"] = CreateSteps(t)]
    /\ UNCHANGED <<disk, mode, pass, planned, projection, live, fenced, dead, acked, ends, faults, losses>>

-----------------------------------------------------------------------------
(* The catalog append, and what its caller does under the same locks.      *)

\* Mutant of CleanupSteps: the new anchor is removed with the retired files.
CleanupStepsAnchor(e) ==
    RemoveAll(e.key, Append([i \in 1..Len(e.retired) |-> e.retired[i].base], e.new))

\* Files the retention removes once its event is durable.
CleanupSteps(e) == RemoveAll(e.key, [i \in 1..Len(e.retired) |-> e.retired[i].base])

Published(e) ==
    CASE e.kind = "StoreInitialized" -> UNCHANGED <<projection, live, acked, pass>>
      [] e.kind = "TopicCreated" ->
            /\ projection' = Apply(projection, e)
            /\ live' = [k \in Keys |-> IF k[1] = e.topic THEN <<0>> ELSE live[k]]
            /\ acked' = acked \cup {e.topic}
            /\ UNCHANGED pass
      [] e.kind = "LogStartAdvanced" ->
            /\ projection' = Apply(projection, e)
            /\ live' = [live EXCEPT ![e.key] = SelectSeq(@, LAMBDA b : b >= e.new)]
            /\ pass' = "cleanup"
            /\ UNCHANGED acked

CommitEvent(th) ==
    /\ work[th] # <<>> /\ Current(th).op = "append"
    /\ LET e == Current(th).event
       IN  /\ catalog' = Append(catalog, e)
           /\ Published(e)
           /\ work' = [work EXCEPT ![th] =
                         Tail(@) \o (IF e.kind = "LogStartAdvanced" THEN CleanupSteps(e) ELSE <<>>)]
    /\ durable' = IF Journaled THEN durable \cup Ancestors(CatalogLog) ELSE durable
    /\ UNCHANGED <<entries, marker, extent, doubt, mode, planned, fenced, dead, used, ends, faults, losses>>

\* Mutant of EventInDoubt: the projection moves on as if the event were durable.
EventInDoubtApplied(th) ==
    /\ work[th] # <<>> /\ Current(th).op = "append"
    /\ Fault("unknown")
    /\ doubt' = {Current(th).event}
    /\ Published(Current(th).event)
    /\ work' = [work EXCEPT ![th] = <<>>]
    /\ mode' = IF mode = "open" THEN mode ELSE "down"
    /\ fenced' = TRUE
    /\ UNCHANGED <<entries, durable, marker, extent, catalog, planned, dead, used, ends, losses>>

\* ErrAppendOutcomeUnknown: catalog mutations are fenced, and so is the
\* partition whose start was being advanced.
EventInDoubt(th) ==
    /\ work[th] # <<>> /\ Current(th).op = "append"
    /\ Fault("unknown")
    /\ doubt' = {Current(th).event}
    /\ work' = [work EXCEPT ![th] = <<>>]
    /\ mode' = IF mode = "open" THEN mode ELSE "down"
    /\ fenced' = (mode = "open")
    /\ dead' = IF th = "retention" THEN dead \cup {Last(planned)} ELSE dead
    /\ UNCHANGED <<entries, durable, marker, extent, catalog, pass, planned, projection,
                   live, used, acked, ends, losses>>

\* A file operation fails.  An open or a CreateTopic gives up where it stands;
\* a failed roll fences the partition; a catalog event that is not admitted
\* ends the partition's turn; a failed removal is left for later.
FailStep(th) ==
    /\ work[th] # <<>> /\ Fault("ioError")
    /\ LET skip == IF th = "store" THEN mode \in {"reconcile", "giveup"} ELSE pass # "locked"
       IN  /\ work' = [work EXCEPT ![th] = IF skip THEN Tail(@) ELSE <<>>]
           /\ mode' = IF th # "store" \/ mode = "open" THEN mode
                      ELSE IF skip THEN "giveup" ELSE "down"
           /\ pass' = IF th = "retention" /\ pass = "reconcile" THEN "giveup" ELSE pass
           /\ dead' = IF th = "retention" /\ ~skip /\ Current(th).op # "append"
                        THEN dead \cup {Last(planned)} ELSE dead
    /\ UNCHANGED <<disk, planned, projection, live, fenced, used, acked, ends, losses>>

-----------------------------------------------------------------------------
(* Partitions: OpenTopic, release, append.                                 *)

\* What openPartition accepts of the files, given the catalog's log start.
Openable(k) ==
    /\ PreflightChain(k, projection)
    /\ \A b \in Files(k) : b >= projection.logStart[k]

OpenPartition(k) ==
    /\ mode = "open" /\ StoreMuFree /\ ~fenced
    /\ k[1] \in projection.topics /\ live[k] = <<>>
    /\ Openable(k)
    /\ live' = [live EXCEPT ![k] = Sorted(Files(k))]
    /\ UNCHANGED <<disk, mode, work, pass, planned, projection, fenced, dead, history>>

\* releaseRetentionPartition; also what lets a fenced partition recover.
ReleasePartition(k) ==
    /\ mode = "open" /\ live[k] # <<>>
    /\ pass \in {"locked", "cleanup"} => k # Last(planned)
    /\ live' = [live EXCEPT ![k] = <<>>]
    /\ dead' = dead \ {k}
    /\ UNCHANGED <<disk, mode, work, pass, planned, projection, fenced, history>>

\* One record, with the roll it may need; PartitionLog has the faults inside.
AppendRecord(k) ==
    /\ mode = "open" /\ live[k] # <<>> /\ k \notin dead
    /\ pass = "locked" => k # Last(planned)
    /\ ends[k] < Len(Timestamps[k])
    /\ LET active == Last(live[k])
           roll == extent[k][active] - active >= SegmentRecords
           base == IF roll THEN ends[k] ELSE active
           file == SegmentFile(k, base)
       IN  /\ live' = [live EXCEPT ![k] = IF roll THEN Append(@, base) ELSE @]
           /\ extent' = [extent EXCEPT ![k][base] = ends[k] + 1]
           /\ entries' = entries \cup {file}
           /\ durable' = durable \cup (IF roll THEN {file} ELSE {})
                           \cup (IF Journaled THEN Ancestors(file) ELSE {})
    /\ ends' = [ends EXCEPT ![k] = @ + 1]
    /\ UNCHANGED <<marker, catalog, doubt, mode, work, pass, planned, projection, fenced,
                   dead, used, acked, faults, losses>>

-----------------------------------------------------------------------------
(* Retention: runRetentionAt and retainPartitionAt.                        *)

\* The pass starts by clearing what earlier passes could not remove.
RunRetention ==
    /\ mode = "open" /\ StoreMuFree /\ ~fenced /\ pass = "idle"
    /\ pass' = "reconcile"
    /\ work' = [work EXCEPT !["retention"] = ReconcileSteps(projection)]
    /\ UNCHANGED <<disk, mode, planned, projection, live, fenced, dead, history>>

\* The in-memory segment with this base.
Segment(k, base) ==
    [base |-> base, end |-> extent[k][base], size |-> HeaderBytes + extent[k][base] - base,
     time |-> IF base = extent[k][base] THEN NoTime
              ELSE Max({Timestamps[k][o + 1] : o \in base..(extent[k][base] - 1)})]

\* retiredEvents of the first n segments.
Retired(segs, n) == [i \in 1..n |-> [base |-> segs[i].base, end |-> segs[i].end]]

\* Mutant of PlanRetention: the active segment may be retired with the others.
PlanRetentionAll(k, now) ==
    /\ mode = "open" /\ pass = "partitions" /\ StoreMuFree /\ ~fenced
    /\ live[k] # <<>> /\ k \notin dead \cup Range(planned)
    /\ LET segs == [i \in 1..Len(live[k]) |-> Segment(k, live[k][i])]
       IN  /\ ends[k] > projection.logStart[k]
           /\ Eligible(segs, 1, now)
           /\ work' = [work EXCEPT !["retention"] =
                  AppendEvent(LogStartAdvanced(Len(catalog), k, projection.logStart[k], ends[k],
                                               Retired(segs, Len(segs))))]
    /\ pass' = "locked" /\ planned' = Append(planned, k)
    /\ UNCHANGED <<disk, mode, projection, live, fenced, dead, history>>

\* retainPartitionAt under p.mu and store.mu: roll the active segment if the
\* policy wants it, then advance the log start over what the plan retires.  A
\* roll without a retirement stays.
PlanRetention(k, now) ==
    /\ mode = "open" /\ pass = "partitions" /\ StoreMuFree /\ ~fenced
    /\ live[k] # <<>> /\ k \notin dead \cup Range(planned)
    /\ LET segs == [i \in 1..Len(live[k]) |-> Segment(k, live[k][i])]
           roll == RetentionNeedsRoll(segs, now)
           rolled == [base |-> ends[k], end |-> ends[k], size |-> HeaderBytes, time |-> NoTime]
           all == IF roll THEN Append(segs, rolled) ELSE segs
           n == RetiredCount(all, now)
       IN  /\ roll \/ n > 0
           /\ live' = [live EXCEPT ![k] = IF roll THEN Append(@, ends[k]) ELSE @]
           /\ work' = [work EXCEPT !["retention"] =
                (IF roll THEN OpenLog(SegmentFile(k, ends[k])) ELSE <<>>)
                \o (IF n = 0 THEN <<>>
                    ELSE AppendEvent(LogStartAdvanced(Len(catalog), k, projection.logStart[k],
                                                      ends[k], Retired(all, n))))]
    /\ pass' = "locked" /\ planned' = Append(planned, k)
    /\ UNCHANGED <<disk, mode, projection, fenced, dead, history>>

\* The end of a stage: unlock, the next partition, or the end of the pass.
AdvancePass ==
    /\ mode = "open" /\ pass # "idle" /\ work["retention"] = <<>>
    /\ pass' \in CASE pass \in {"giveup", "partitions"} -> {"idle"}
                   [] OTHER -> {"partitions"}
    /\ planned' = IF pass' = "idle" THEN <<>> ELSE planned
    /\ UNCHANGED <<disk, mode, work, projection, live, fenced, dead, history>>

-----------------------------------------------------------------------------
(* Going down.                                                             *)

Down ==
    /\ mode' = "down"
    /\ work' = [th \in Threads |-> <<>>]
    /\ pass' = "idle" /\ planned' = <<>>
    /\ live' = [k \in Keys |-> <<>>]
    /\ fenced' = FALSE /\ dead' = {}
    /\ UNCHANGED <<projection, used, acked, ends>>

CloseStore ==
    /\ mode = "open" /\ work["store"] = <<>> /\ pass = "idle"
    /\ Down
    /\ UNCHANGED <<disk, faults, losses>>

ProcessCrash ==
    /\ mode \notin {"down", "refused"} /\ Fault("processCrash")
    /\ Down
    /\ UNCHANGED <<disk, losses>>

PowerLoss ==
    /\ "powerLoss" \in Faults /\ faults = 0 /\ losses < MaxFaults /\ mode # "refused"
    /\ losses' = losses + 1
    /\ entries' \in AfterPowerLoss
    /\ durable' = entries'
    /\ marker' \in {m \in [Topics -> {"none", "short", "full", "synced"}] :
                      \A t \in Topics : m[t] \in {marker[t]} \cup (IF marker[t] = "full" THEN {"short"} ELSE {})}
    /\ catalog' = IF CatalogLog \in entries' THEN catalog ELSE <<>>
    /\ doubt' = IF CatalogLog \in entries' THEN doubt ELSE {}
    /\ Down
    /\ UNCHANGED <<extent, faults>>

Running == \E th \in Threads : Step(th) \/ CommitEvent(th)

Opening == OpenStore \/ DiscoverCatalog \/ ReplayCatalog \/ OpenReturns

Next ==
    \/ Running
    \/ Opening
    \/ \E t \in Topics : CreateTopic(t)
    \/ \E th \in Threads : EventInDoubt(th) \/ FailStep(th)
    \/ \E k \in Keys : OpenPartition(k) \/ ReleasePartition(k) \/ AppendRecord(k)
    \/ RunRetention
    \/ \E k \in Keys, now \in Nows : PlanRetention(k, now)
    \/ AdvancePass
    \/ CloseStore \/ ProcessCrash \/ PowerLoss

Spec == Init /\ [][Next]_vars

\* Calls under way go on, and the background loop keeps running passes.
Fairness == WF_vars(Running) /\ WF_vars(RunRetention) /\ WF_vars(AdvancePass)

FairSpec == Spec /\ Fairness

-----------------------------------------------------------------------------
(* Properties.                                                             *)

\* CreateTopic, retention, cleanup and bootstrap: in an open store every
\* topic whose creation was acknowledged is in the catalog, and every
\* acknowledged record from the log start on is in a segment file that the
\* catalog has not retired.
RetainedIntact ==
    mode = "open" =>
        \A k \in Keys : k[1] \in acked =>
            /\ k[1] \in projection.topics
            /\ projection.logStart[k] <= ends[k]
            /\ \A o \in projection.logStart[k]..(ends[k] - 1) :
                  \E b \in Files(k) : projection.logStart[k] <= b /\ b <= o /\ o < extent[k][b]

\* bootstrapMetadata and preflight: an open finds the store corrupt only over
\* a topic directory that no event owns and whose marker is missing or torn.
RefusesOnlyTornPreparation ==
    mode = "refused" =>
        \E t \in Topics : /\ TopicDir(t) \in entries
                          /\ \A i \in DOMAIN catalog : catalog[i].kind = "TopicCreated" => catalog[i].topic # t
                          /\ Marker(t) \in entries => marker[t] = "short"

\* retainPartitionAt: whatever happens after it, a log start that callers have
\* seen advance never moves back.
LogStartNeverRegresses ==
    [][\A k \in Keys : projection'.logStart[k] >= projection.logStart[k]]_vars

\* cleanupRetiredSegments: the files always fit the catalog's log start, so a
\* partition can be opened unless a retired file is still to be removed.
OpensUnlessDebt ==
    mode = "open" =>
        \A k \in Keys : k[1] \in projection.topics =>
            Openable(k) \/ \E b \in Files(k) : b < projection.logStart[k]

\* reconcileRetiredCleanup: a retired file that could not be removed goes in a
\* later pass, as long as the store stays open and is not fenced.
RetiredEventuallyRemoved ==
    \A k \in Keys :
        (mode = "open" /\ \E b \in Files(k) : b < projection.logStart[k])
            ~> (mode # "open" \/ fenced \/ \A b \in Files(k) : b >= projection.logStart[k])

=============================================================================
