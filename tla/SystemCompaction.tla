-------------------------- MODULE SystemCompaction --------------------------
(***************************************************************************)
(* CompactSystemLogs: both system logs (the catalog and the consumer       *)
(* offsets) move to a new generation, a checkpoint of what they held and a *)
(* fresh suffix each, by publishing one active manifest; then everything   *)
(* the old authority left is removed.  Event appends, SaveSnapshots,       *)
(* errors, crashes and reopens interleave with it.                         *)
(*                                                                         *)
(* Generation 0 stands for the legacy logs, which no manifest names.  The  *)
(* threads are programs of file operations as in TopicStorage.             *)
(***************************************************************************)
EXTENDS FileTree

CONSTANTS
    Snapshotters,   \* callers of SaveSnapshots
    MaxGeneration,  \* bounds the model
    MaxEvents,      \* bounds the append attempts
    MaxSnapshots,   \* bounds the SaveSnapshots calls
    Faults,         \* subset of FaultKinds
    MaxFaults       \* bounds the model

FaultKinds == {"ioError", "unknown", "processCrash", "powerLoss"}

Logs == {"catalog", "offsets"}
LogOrder == <<"catalog", "offsets">>
Generations == 0..MaxGeneration
Threads == {"compact"} \cup Snapshotters

VARIABLES
    content,    \* what the replaceable files hold: the active manifest its
                \* generation, a snapshot the end of the log it covers
    contentDurable,
    covers,     \* generation -> log -> the events its checkpoint covers
    suffix,     \* generation -> log -> its first offset and its events
    pending,    \* log -> the event being appended or in doubt, 0 for none
    mode,       \* down, open or refused
    generation, \* store.metadataGeneration
    fence,      \* logs with metadataUnavailable, offsetsUnavailable
    appending,  \* the log whose append holds store.mu, or none
    stage,      \* thread -> idle, or the part of its call it is in
    work,       \* thread -> file operations it still has to do
    target,     \* the generation CompactSystemLogs prepares
    failed,     \* a removal of the running or last cleanup failed
    tidy,       \* the last compaction finished without such a failure
    attempts,   \* log -> appends tried
    acked,      \* log -> events acknowledged
    saved,      \* number of SaveSnapshots calls
    faults,     \* number of errors and process crashes so far
    losses      \* number of power losses so far

disk    == <<entries, durable, content, contentDurable, covers, suffix, pending>>
process == <<mode, generation, fence, appending, stage, work, target, failed, tidy>>
history == <<attempts, acked, saved, faults, losses>>
vars    == <<disk, process, history>>

System == <<"system">>
MetadataRoot == <<"system", "metadata">>
GenerationsDir == <<"system", "metadata", "generations">>
ActiveManifest == Append(MetadataRoot, "active-manifest")

GenerationRoot(g) == IF g = 0 THEN System ELSE Append(GenerationsDir, g)

Manifest(g) == Append(GenerationRoot(g), "manifest")

LogDir(g, l) == GenerationRoot(g) \o <<l, "0">>

LogFile(g, l)    == Append(LogDir(g, l), "log")
Checkpoint(g, l) == Append(LogDir(g, l), "checkpoint")
Snapshot(g, l)   == Append(LogDir(g, l), "snapshot")

AuthorityFiles(g) ==
    {Manifest(g)} \cup UNION {{LogFile(g, l), Checkpoint(g, l), Snapshot(g, l)} : l \in Logs}

Replaceable == {ActiveManifest} \cup {Snapshot(g, l) : g \in Generations, l \in Logs}

Init ==
    /\ entries = UNION {Ancestors(LogFile(0, l)) : l \in Logs} /\ durable = entries
    /\ content = [f \in Replaceable |-> 0] /\ contentDurable = content
    /\ covers = [g \in Generations |-> [l \in Logs |-> <<>>]]
    /\ suffix = [g \in Generations |-> [l \in Logs |-> [base |-> 0, events |-> <<>>]]]
    /\ pending = [l \in Logs |-> 0]
    /\ mode = "down" /\ generation = 0 /\ fence = {} /\ appending = "none"
    /\ stage = [th \in Threads |-> "idle"] /\ work = [th \in Threads |-> <<>>]
    /\ target = 0 /\ failed = FALSE /\ tidy = FALSE
    /\ attempts = [l \in Logs |-> 0] /\ acked = [l \in Logs |-> {}] /\ saved = 0
    /\ faults = 0 /\ losses = 0

-----------------------------------------------------------------------------
(* What a start selects.                                                   *)

Selected == IF ActiveManifest \in entries THEN content[ActiveManifest] ELSE 0

\* The log a generation stands for: its checkpoint, then its suffix.
Recovered(g, l) == covers[g][l] \o suffix[g][l].events

\* bootstrapCompactedMetadata: the selected generation must be whole, and its
\* suffixes start where its checkpoints end; there is no way back to another.
Bootable(g) ==
    /\ \A l \in Logs : LogFile(g, l) \in entries /\ suffix[g][l].base = Len(covers[g][l])
    /\ g # 0 => Manifest(g) \in entries /\ \A l \in Logs : Checkpoint(g, l) \in entries

\* replaySuffix: an event in doubt is in the log or it is not.
OpenStore ==
    /\ mode = "down"
    /\ mode' = IF Bootable(Selected) THEN "open" ELSE "refused"
    /\ generation' = Selected
    /\ \E found \in SUBSET {l \in Logs : pending[l] # 0} :
          suffix' = [suffix EXCEPT ![Selected] =
                       [l \in Logs |-> IF l \in found
                                         THEN [@[l] EXCEPT !.events = Append(@, pending[l])]
                                         ELSE @[l]]]
    /\ pending' = [l \in Logs |-> 0]
    /\ UNCHANGED <<entries, durable, content, contentDurable, covers, fence, appending,
                   stage, work, target, failed, tidy, history>>

-----------------------------------------------------------------------------
(* Events.                                                                 *)

\* Errors and process crashes leave entries that show but are not durable; a
\* power loss after one is left out (see partition_mixed in the README).
Fault(kind) ==
    /\ kind \in Faults /\ losses = 0 /\ faults < MaxFaults
    /\ faults' = faults + 1

StoreMuFree == appending = "none" /\ stage["compact"] # "locked"

SnapshotMuFree == \A th \in Threads : stage[th] = "idle"

BeginAppend(l) ==
    /\ mode = "open" /\ StoreMuFree /\ l \notin fence
    /\ attempts["catalog"] + attempts["offsets"] < MaxEvents
    /\ attempts' = [attempts EXCEPT ![l] = @ + 1]
    /\ pending' = [pending EXCEPT ![l] = attempts'[l]]
    /\ appending' = l
    /\ UNCHANGED <<entries, durable, content, contentDurable, covers, suffix, mode, generation,
                   fence, stage, work, target, failed, tidy, acked, saved, faults, losses>>

AcknowledgeAppend ==
    /\ appending # "none"
    /\ LET l == appending
       IN  /\ suffix' = [suffix EXCEPT ![generation][l].events = Append(@, pending[l])]
           /\ acked' = [acked EXCEPT ![l] = @ \cup {pending[l]}]
           /\ pending' = [pending EXCEPT ![l] = 0]
           /\ durable' = IF Journaled THEN durable \cup Ancestors(LogFile(generation, l)) ELSE durable
    /\ appending' = "none"
    /\ UNCHANGED <<entries, content, contentDurable, covers, mode, generation, fence, stage,
                   work, target, failed, tidy, attempts, saved, faults, losses>>

\* The append was not admitted, or its outcome is unknown, which fences the log.
AppendFails ==
    /\ appending # "none"
    /\ \/ /\ Fault("ioError")
          /\ pending' = [pending EXCEPT ![appending] = 0]
          /\ UNCHANGED fence
       \/ /\ Fault("unknown")
          /\ fence' = fence \cup {appending}
          /\ UNCHANGED pending
    /\ appending' = "none"
    /\ UNCHANGED <<entries, durable, content, contentDurable, covers, suffix, mode, generation,
                   stage, work, target, failed, tidy, attempts, acked, saved, losses>>

-----------------------------------------------------------------------------
(* CompactSystemLogs up to the active manifest, under store.mu.            *)

\* publishAuthoritativeFile and publishSnapshot: temporary, rename, sync.
PublishFile(file, temporary, value) ==
    Op("create", Append(Parent(file), temporary))
        \o <<[op |-> "rename", path |-> file, temporary |-> Append(Parent(file), temporary),
              value |-> value]>>
        \o Op("syncdir", Parent(file))

\* nextMetadataGeneration.
NextGeneration == CHOOSE g \in generation + 1..MaxGeneration :
    /\ GenerationRoot(g) \notin entries
    /\ \A h \in generation + 1..g - 1 : GenerationRoot(h) \in entries

PublishActive(g) == PublishFile(ActiveManifest, ".metadata-tmp", g)

\* Mutant of PrepareSteps: the offsets checkpoint is written last, after the
\* active manifest that names it.
PrepareStepsLate(g) ==
    MkdirAll(<<LogDir(g, "catalog"), LogDir(g, "offsets")>>)
        \o Op("syncdir", System) \o Op("syncdir", MetadataRoot)
        \o Op("syncdir", GenerationsDir) \o Op("syncdir", GenerationRoot(g))
        \o PublishFile(Checkpoint(g, "catalog"), ".metadata-tmp", g)
        \o OpenLog(LogFile(g, "catalog")) \o OpenLog(LogFile(g, "offsets"))
        \o PublishFile(Manifest(g), ".metadata-tmp", g)
        \o PublishActive(g)
        \o PublishFile(Checkpoint(g, "offsets"), ".metadata-tmp", g)

\* prepareSystemGeneration, the generation's manifest, the active manifest.
PrepareSteps(g) ==
    MkdirAll(<<LogDir(g, "catalog"), LogDir(g, "offsets")>>)
        \o Op("syncdir", System) \o Op("syncdir", MetadataRoot)
        \o Op("syncdir", GenerationsDir) \o Op("syncdir", GenerationRoot(g))
        \o PublishFile(Checkpoint(g, "catalog"), ".metadata-tmp", g)
        \o PublishFile(Checkpoint(g, "offsets"), ".metadata-tmp", g)
        \o OpenLog(LogFile(g, "catalog")) \o OpenLog(LogFile(g, "offsets"))
        \o PublishFile(Manifest(g), ".metadata-tmp", g)
        \o PublishActive(g)

CompactSystemLogs ==
    /\ mode = "open" /\ SnapshotMuFree /\ StoreMuFree /\ fence = {}
    /\ \E g \in generation + 1..MaxGeneration : GenerationRoot(g) \notin entries
    /\ target' = NextGeneration
    /\ work' = [work EXCEPT !["compact"] = PrepareSteps(target')]
    /\ stage' = [stage EXCEPT !["compact"] = "locked"]
    /\ tidy' = FALSE
    /\ UNCHANGED <<disk, mode, generation, fence, appending, failed, history>>

-----------------------------------------------------------------------------
(* Cleanup, with store.mu released.                                        *)

\* Names cleanupOldSystemAuthority removes: not the temporary of a snapshot.
Removable == {"log", "checkpoint", "snapshot", ".metadata-tmp"}

\* cleanupOldSystemAuthority.
CleanupAuthority(g) ==
    LET Files(l) == SetToSeq({e \in Children(LogDir(g, l), entries) : Last(e) \in Removable})
        Each(op, paths) == [i \in 1..Len(paths) |-> [op |-> op, path |-> paths[i]]]
        EmptyDir(l) == IF LogDir(g, l) \in entries
                         THEN Each("remove", Files(l)) \o Op("syncdir", LogDir(g, l))
                         ELSE <<>>
        dirs == <<LogDir(g, "catalog"), LogDir(g, "offsets"), Parent(LogDir(g, "catalog")),
                  Parent(LogDir(g, "offsets")), GenerationRoot(g)>>
    IN  EmptyDir("catalog") \o EmptyDir("offsets")
          \o (IF g = 0 THEN <<>>
              ELSE Op("remove", Manifest(g)) \o Each("rmdir", dirs) \o Op("syncdir", GenerationsDir))

\* Mutant of CleanupSteps: only the authority just replaced is cleaned up.
CleanupStepsOld(active, old) == CleanupAuthority(old)

\* The old authority, then cleanupUnselectedSystemAuthorities.
CleanupSteps(active, old) ==
    LET unselected == {g \in Generations \ {0, active, old} : GenerationRoot(g) \in entries}
        others == SetToSortSeq(unselected, <)
    IN  CleanupAuthority(old)
          \o (IF old = 0 THEN <<>> ELSE CleanupAuthority(0))
          \o FlattenSeq([i \in 1..Len(others) |-> CleanupAuthority(others[i])])

\* The active manifest is durable: the store changes over.
SelectGeneration ==
    /\ stage["compact"] = "locked" /\ work["compact"] = <<>>
    /\ generation' = target
    /\ stage' = [stage EXCEPT !["compact"] = "cleanup"]
    /\ work' = [work EXCEPT !["compact"] = CleanupSteps(target, generation)]
    /\ failed' = FALSE
    /\ UNCHANGED <<disk, mode, fence, appending, target, tidy, history>>

-----------------------------------------------------------------------------
(* SaveSnapshots.                                                          *)

\* Mutant of SaveSnapshots: it does not take snapshotMu.
SaveSnapshotsUnlocked(th) ==
    /\ mode = "open" /\ stage[th] = "idle" /\ StoreMuFree /\ "catalog" \notin fence
    /\ saved < MaxSnapshots /\ saved' = saved + 1
    /\ work' = [work EXCEPT ![th] = FlattenSeq([i \in 1..2 |->
          PublishFile(Snapshot(generation, LogOrder[i]), ".projection-snapshot-tmp",
                      Len(Recovered(generation, LogOrder[i])))])]
    /\ stage' = [stage EXCEPT ![th] = "publishing"]
    /\ UNCHANGED <<disk, mode, generation, fence, appending, target, failed, tidy,
                   attempts, acked, faults, losses>>

\* buildSnapshots under store.mu fixes directories and coverage of both files;
\* they are published after it is released, under snapshotMu.
SaveSnapshots(th) ==
    /\ mode = "open" /\ SnapshotMuFree /\ StoreMuFree /\ "catalog" \notin fence
    /\ saved < MaxSnapshots /\ saved' = saved + 1
    /\ work' = [work EXCEPT ![th] = FlattenSeq([i \in 1..2 |->
          PublishFile(Snapshot(generation, LogOrder[i]), ".projection-snapshot-tmp",
                      Len(Recovered(generation, LogOrder[i])))])]
    /\ stage' = [stage EXCEPT ![th] = "publishing"]
    /\ UNCHANGED <<disk, mode, generation, fence, appending, target, failed, tidy,
                   attempts, acked, faults, losses>>

\* A call returns.
Return(th) ==
    /\ stage[th] \in {"cleanup", "publishing"} /\ work[th] = <<>>
    /\ stage' = [stage EXCEPT ![th] = "idle"]
    /\ tidy' = IF th = "compact" THEN ~failed ELSE tidy
    /\ UNCHANGED <<disk, mode, generation, fence, appending, work, target, failed, history>>

-----------------------------------------------------------------------------
(* File operations.                                                        *)

Renames(o) == o.op = "rename"

\* What the operation changes besides directory entries: a checkpoint holds
\* the log so far, and a new suffix starts there.
Contents(o) ==
    /\ content' = IF Renames(o) /\ o.path \in Replaceable
                    THEN [content EXCEPT ![o.path] = o.value] ELSE content
    /\ contentDurable' = IF o.op = "syncdir"
                           THEN [f \in Replaceable |->
                                   IF Parent(f) = o.path THEN content[f] ELSE contentDurable[f]]
                           ELSE contentDurable
    /\ covers' = [g \in Generations |-> [l \in Logs |->
                    IF Renames(o) /\ o.path = Checkpoint(g, l) THEN Recovered(generation, l)
                    ELSE covers[g][l]]]
    /\ suffix' = [g \in Generations |-> [l \in Logs |->
                    IF o.op = "publish" /\ o.path = LogFile(g, l) /\ o.path \notin entries
                      THEN [base |-> Len(Recovered(generation, l)), events |-> <<>>]
                      ELSE suffix[g][l]]]

\* One operation of a thread succeeds; removing a directory takes an empty one.
Step(th) ==
    /\ work[th] # <<>>
    /\ LET o == work[th][1]
           stuck == o.op = "rmdir" /\ Children(o.path, entries) # {}
       IN  /\ \/ FileEffect(o)
              \/ /\ Renames(o)
                 /\ entries' = (entries \ {o.temporary}) \cup {o.path}
                 /\ UNCHANGED durable
              \/ /\ o.op = "rmdir"
                 /\ entries' = IF stuck THEN entries ELSE entries \ {o.path}
                 /\ UNCHANGED durable
           /\ Contents(o)
           /\ failed' = (failed \/ stuck)
    /\ work' = [work EXCEPT ![th] = Tail(@)]
    /\ UNCHANGED <<pending, mode, generation, fence, appending, stage, target, tidy, history>>

\* Mutant of FailStep: a failed active manifest leaves the old authority open.
FailStepUnfenced(th) ==
    /\ work[th] # <<>> /\ Fault("ioError")
    /\ entries' = IF Renames(work[th][1]) THEN entries \ {work[th][1].temporary} ELSE entries
    /\ LET skip == stage[th] = "cleanup"
       IN  /\ work' = [work EXCEPT ![th] = IF skip THEN Tail(@) ELSE <<>>]
           /\ stage' = [stage EXCEPT ![th] = IF skip THEN @ ELSE "idle"]
           /\ failed' = (failed \/ skip)
    /\ UNCHANGED <<durable, content, contentDurable, covers, suffix, pending, mode, generation,
                   fence, appending, target, tidy, attempts, acked, saved, losses>>

\* One operation fails.  Cleanup goes on with the next; the other calls give
\* up, and if the active manifest may have changed both logs are fenced.  A
\* temporary not renamed is removed.
FailStep(th) ==
    /\ work[th] # <<>> /\ Fault("ioError")
    /\ entries' = IF Renames(work[th][1]) THEN entries \ {work[th][1].temporary} ELSE entries
    /\ LET skip == stage[th] = "cleanup"
       IN  /\ work' = [work EXCEPT ![th] = IF skip THEN Tail(@) ELSE <<>>]
           /\ stage' = [stage EXCEPT ![th] = IF skip THEN @ ELSE "idle"]
           /\ failed' = (failed \/ skip)
           /\ fence' = IF stage[th] = "locked" /\ IsSuffix(work[th], PublishActive(target))
                         THEN Logs ELSE fence
    /\ UNCHANGED <<durable, content, contentDurable, covers, suffix, pending, mode, generation,
                   appending, target, tidy, attempts, acked, saved, losses>>

-----------------------------------------------------------------------------
(* Going down.                                                             *)

Down ==
    /\ mode' = "down"
    /\ stage' = [th \in Threads |-> "idle"] /\ work' = [th \in Threads |-> <<>>]
    /\ fence' = {} /\ appending' = "none"
    /\ UNCHANGED <<covers, suffix, pending, generation, target, failed, tidy, attempts, acked, saved>>

\* Close waits for snapshotMu, which a compaction holds to its end.
CloseStore ==
    /\ mode = "open" /\ SnapshotMuFree /\ StoreMuFree
    /\ Down
    /\ UNCHANGED <<entries, durable, content, contentDurable, faults, losses>>

ProcessCrash ==
    /\ mode = "open" /\ Fault("processCrash")
    /\ Down
    /\ UNCHANGED <<entries, durable, content, contentDurable, losses>>

PowerLoss ==
    /\ "powerLoss" \in Faults /\ faults = 0 /\ losses < MaxFaults /\ mode = "open"
    /\ losses' = losses + 1
    /\ entries' \in AfterPowerLoss
    /\ durable' = entries'
    /\ \E undone \in SUBSET {f \in Replaceable \cap durable : content[f] # contentDurable[f]} :
          content' = [f \in Replaceable |-> IF f \in undone THEN contentDurable[f] ELSE content[f]]
    /\ contentDurable' = content'
    /\ Down
    /\ UNCHANGED faults

Next ==
    \/ OpenStore
    \/ \E l \in Logs : BeginAppend(l)
    \/ AcknowledgeAppend \/ AppendFails
    \/ CompactSystemLogs \/ SelectGeneration
    \/ \E th \in Snapshotters : SaveSnapshots(th)
    \/ \E th \in Threads : Step(th) \/ FailStep(th) \/ Return(th)
    \/ CloseStore \/ ProcessCrash \/ PowerLoss

Spec == Init /\ [][Next]_vars

-----------------------------------------------------------------------------
(* Properties.                                                             *)

\* The log callers deal with: that of the generation in use, or the one the
\* next start selects.
Log(l) ==
    LET events == Recovered(IF mode = "open" THEN generation ELSE Selected, l)
    IN  [o \in 0..Len(events) - 1 |-> events[o + 1]]

Doubt(l) == [id |-> pending[l], n |-> IF pending[l] = 0 THEN 0 ELSE 1]

CatalogLog == INSTANCE AppendLog WITH
    InitialOffset <- 0, MaxOffset <- MaxEvents, MaxAppends <- MaxEvents, BatchRecords <- 1,
    log <- Log("catalog"), pending <- Doubt("catalog"), acked <- acked["catalog"]

OffsetsLog == INSTANCE AppendLog WITH
    InitialOffset <- 0, MaxOffset <- MaxEvents, MaxAppends <- MaxEvents, BatchRecords <- 1,
    log <- Log("offsets"), pending <- Doubt("offsets"), acked <- acked["offsets"]

\* CompactSystemLogs and bootstrapCompactedMetadata: across any number of
\* generations, faults and reopens each system log stays one append-only log
\* that loses, repeats and reorders nothing.
SystemLogsAppendOnly == CatalogLog!ASpec /\ OffsetsLog!ASpec

\* publishAuthoritativeFile and the cleanup: what the active manifest names is
\* whole at every instant, so a start never finds the selection corrupt.
AlwaysReopens == mode # "refused"

\* cleanupUnselectedSystemAuthorities: once a compaction returned without an
\* error, no log, checkpoint, manifest or snapshot of another authority is
\* left, not even after a power loss, whatever earlier attempts left behind.
OneAuthorityLeft ==
    tidy => \A g \in Generations \ {Selected} : AuthorityFiles(g) \cap entries = {}

\* snapshotMu "keeps concurrent callers from publishing an older snapshot over
\* a newer one".
SnapshotsNeverRegress ==
    [][mode = "open" /\ mode' = "open" =>
         \A f \in Replaceable : f \in entries /\ f \in entries' => content'[f] >= content[f]]_vars

=============================================================================
