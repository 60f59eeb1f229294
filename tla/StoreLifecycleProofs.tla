------------------------ MODULE StoreLifecycleProofs ------------------------
(***************************************************************************)
(* Proofs about StoreLifecycle, for any number of RunRetention callers,    *)
(* consumers, closers and retention passes.                                *)
(***************************************************************************)
EXTENDS StoreLifecycle, FiniteSetTheorems, TLAPS

-----------------------------------------------------------------------------
(* The inductive invariant.                                                *)

\* Steps of a pass that holds retentionMu, those that come after it found the
\* store open, and those at which it has an instance in hand.
Inside == {"begin", "open", "lockPartition", "lockStore", "release", "closePartition",
           "unregister", "finish"}

Working == Inside \ {"begin", "finish"}

InHand == Working \ {"open"}

TearingDown == {"closePartition", "unregister"}

\* Steps of Store.Close behind its barrier, and behind the worker's exit.
Quiescing == {"stopRetention", "awaitWorker", "lockRetention", "mark", "tearDown"}

WorkerGone == pass[Worker].step \in {"off", "exited"}

PassSteps == {"off", "note", "idle", "running", "lockRetention", "exited"} \cup Inside

PassTyped == pass \in [Passers -> [step : PassSteps, instance : Nat, temporary : BOOLEAN]]

InstanceTypes ==
    /\ temporary \in [instance : Nat, retiring : BOOLEAN]
    /\ opened \in Nat /\ current \in 0..opened
    /\ shut \subseteq 1..opened /\ public \subseteq 1..opened

Types ==
    /\ DOMAIN held = Locks
    /\ DOMAIN caller = Callers
    /\ DOMAIN closer = Closers
    /\ InstanceTypes
    /\ generation \in Nat
    /\ closing \in BOOLEAN /\ closed \in BOOLEAN /\ topic \in BOOLEAN /\ stopped \in BOOLEAN

\* Who is inside a critical section that spans steps holds its lock.
Holders ==
    /\ \A p \in Passers : pass[p].step \in Inside => held["retention"] = p
    /\ compaction \in {"switch", "closeOld"} => held["retention"] = "compaction"
    /\ \A c \in Closers : closer[c] \in {"mark", "tearDown"} => held["retention"] = c
    /\ snapshot \in {"build", "publish"} => held["snapshot"] = "snapshot"
    /\ compaction \in {"lockRetention", "switch", "closeOld"} =>
          held["snapshot"] = "compaction"
    /\ \A c \in Closers :
          /\ closer[c] \in Quiescing \cup {"barrier"} => held["snapshot"] = c
          /\ closer[c] \in Quiescing \cup {"barrier", "lockSnapshot"} => held["close"] = c
    /\ creator = "create" => held["store"] = "creator"
    /\ \A c \in Callers : caller[c] \in {"opening", "committing"} => held["store"] = c
    /\ \A c \in Closers : closer[c] \in {"idle", "lockSnapshot", "barrier", "returned"}
                                            \cup Quiescing

\* What the registered, the temporary and the open instances have to do with
\* each other while the store is open.
Registered ==
    /\ (1..opened) \ shut \subseteq {current}
    /\ ~topic => /\ opened = 0 /\ current = None /\ temporary = NoTemporary
                 /\ \A p \in Passers : pass[p].step \notin Working
    /\ creator = "create" => ~topic
    /\ temporary.instance # None =>
          temporary.instance = current /\ current \notin public
    /\ \A p \in Passers :
          /\ pass[p].step \in InHand => pass[p].instance \in 1..opened
          /\ pass[p].step \in TearingDown =>
                StillTemporary(pass[p].instance) /\ temporary.retiring
          /\ pass[p].step = "unregister" => pass[p].instance \in shut
    /\ ~closed =>
          /\ current \in shut =>
                temporary.instance = current /\ temporary.retiring
          /\ public \cap shut = {}

\* How far a Store.Close has come: behind the barrier nobody creates a topic, and
\* behind the exit of the worker none is started.
Stopping ==
    /\ \A c \in Closers :
          /\ closer[c] # "idle" => closing
          /\ closer[c] \in Quiescing \cup {"returned"} => creator # "create"
          /\ closer[c] \in {"lockRetention", "mark", "tearDown"} => WorkerGone
          /\ closer[c] \in {"tearDown", "returned"} => closed
    /\ stopped => /\ closing /\ creator # "create"
                  /\ WorkerGone \/ \E c \in Closers : closer[c] = "awaitWorker"
    /\ closed => closing /\ creator # "create" /\ WorkerGone

\* What no longer goes on behind the closed flag, and what is closed at the end.
Quiet ==
    /\ \A p \in Passers :
          pass[p].step \notin InHand \cup {"finish"} => pass[p].instance = None
    /\ systemOpen \subseteq
          {generation} \cup (IF compaction = "closeOld" THEN {generation - 1} ELSE {})
    /\ closed =>
          /\ \A p \in Passers : pass[p].step \notin Working /\ pass[p].instance = None
          /\ snapshot # "publish" /\ compaction # "closeOld"
          /\ \/ \E c \in Closers : closer[c] = "tearDown"
             \/ shut = 1..opened /\ systemOpen = {}
    /\ (\E c \in Closers : closer[c] = "returned") => shut = 1..opened /\ systemOpen = {}

IInv == PassTyped /\ Types /\ Holders /\ Registered /\ Stopping /\ Quiet

-----------------------------------------------------------------------------
(* Each part is preserved by every step.                                   *)

\* Goroutines can be told apart.
LEMMA Names ==
    /\ \A p \in Passers : p \notin {Free, "creator", "snapshot", "compaction"}
    /\ \A c \in Closers : c \notin {Free, "creator", "snapshot", "compaction"}
    /\ \A c \in Callers : c \notin {Free, "creator", "snapshot", "compaction"}
    /\ \A p \in Passers, c \in Closers : p # c
    /\ Worker \in Passers
BY LifecycleAssumption DEF Passers, Worker, Free

\* goto keeps a pass well formed.
LEMMA GotoTyped ==
    ASSUME PassTyped, NEW p \in Passers, NEW s \in PassSteps, Goto(p, s)
    PROVE  PassTyped'
BY DEF PassTyped, Goto

\* OpenInstance and claimPartitionLocked.
LEMMA OpenTyped ==
    ASSUME InstanceTypes, openConsumerPartitionLocked
    PROVE  InstanceTypes'
<1>1. NoTemporary \in [instance : Nat, retiring : BOOLEAN]
  BY DEF NoTemporary, None
<1>2. CASE claimPartitionLocked
  BY <1>1, <1>2 DEF claimPartitionLocked, InstanceTypes, None
<1>3. CASE OpenInstance /\ public' = public \cup {opened + 1} /\ UNCHANGED temporary
  BY <1>3 DEF OpenInstance, InstanceTypes
<1> QED
  BY <1>2, <1>3 DEF openConsumerPartitionLocked

\* Who is handed the registered instance, or a new one, becomes its owner.
LEMMA OpenRegistered ==
    ASSUME InstanceTypes, Registered, topic, ~closed, openConsumerPartitionLocked,
           UNCHANGED <<topic, closed, pass, creator>>
    PROVE  Registered'
<1> USE DEF Registered, InstanceTypes, NoTemporary, None, StillTemporary
<1>1. CASE claimPartitionLocked
  BY <1>1 DEF claimPartitionLocked
<1>2. CASE /\ current = None
           /\ OpenInstance
           /\ public' = public \cup {opened + 1}
           /\ UNCHANGED temporary
  BY <1>2 DEF OpenInstance, TearingDown, InHand, Working, Inside
<1> QED
  BY <1>1, <1>2 DEF openConsumerPartitionLocked

\* Passes keep to their steps.
LEMMA PassTypedStep == IInv /\ [Next]_vars => PassTyped'
<1> SUFFICES ASSUME PassTyped, Types, [Next]_vars PROVE PassTyped'
  BY DEF IInv
<1> DEFINE PassRecord == [step : PassSteps, instance : Nat, temporary : BOOLEAN]
<1>1. ASSUME NEW p \in Passers, NEW r \in PassRecord, pass' = [pass EXCEPT ![p] = r]
      PROVE  PassTyped'
  BY <1>1 DEF PassTyped
<1>2. \A s \in PassSteps : At(s) \in PassRecord
  BY DEF At, None
<1>3. Worker \in Passers
  BY DEF Passers
<1> HIDE DEF PassRecord
<1>4. CASE createTopic
  BY <1>1, <1>2, <1>3, <1>4 DEF createTopic, PassSteps, Inside
<1>5. CASE WorkerStep
  BY <1>3, <1>5, GotoTyped
    DEF WorkerStep, runBackgroundRetention, WorkerNotes, WorkerExits, PassSteps
<1>6. ASSUME NEW p \in Passers, PassStarts(p) \/ PassStep(p)
      PROVE  PassTyped'
  <2>1. CASE PassStarts(p)
    BY <2>1, GotoTyped DEF PassStarts, PassSteps, Inside
  <2>2. CASE LockRetention(p)
    BY <2>2, GotoTyped DEF LockRetention, PassSteps, Inside
  <2>3. CASE runRetentionAt(p)
    BY <2>3, GotoTyped DEF runRetentionAt, PassSteps, Inside
  <2>4. CASE openRetentionPartition(p)
    <3>0. "lockPartition" \in PassSteps /\ current \in Nat /\ opened + 1 \in Nat
      BY DEF PassSteps, Inside, Types, InstanceTypes
    <3>1. CASE Goto(p, "finish")
      BY <3>1, GotoTyped DEF PassSteps, Inside
    <3>2. CASE pass' = [pass EXCEPT ![p].step = "lockPartition", ![p].instance = current]
      BY <3>0, <3>2 DEF PassTyped
    <3>3. CASE pass' = [pass EXCEPT ![p] =
                          [step |-> "lockPartition", instance |-> opened + 1,
                           temporary |-> TRUE]]
      BY <1>1, <3>0, <3>3 DEF PassRecord
    <3> QED
      BY <2>4, <3>1, <3>2, <3>3 DEF openRetentionPartition
  <2>5. CASE LockPartition(p)
    BY <2>5, GotoTyped DEF LockPartition, PassSteps, Inside, AfterRetain
  <2>6. CASE retainPartitionAt(p)
    BY <2>6, GotoTyped DEF retainPartitionAt, PassSteps, Inside, AfterRetain
  <2>7. CASE releaseRetentionPartition(p)
    BY <2>7, GotoTyped DEF releaseRetentionPartition, PassSteps, Inside
  <2>8. CASE ClosePartition(p)
    BY <2>8, GotoTyped DEF ClosePartition, PassSteps, Inside
  <2>9. CASE UnregisterPartition(p)
    BY <2>9, GotoTyped DEF UnregisterPartition, PassSteps, Inside
  <2>10. CASE FinishPass(p)
    BY <1>1, <1>2, <2>10 DEF FinishPass, PassSteps, Inside, AfterPass
  <2> QED
    BY <1>6, <2>1, <2>2, <2>3, <2>4, <2>5, <2>6, <2>7, <2>8, <2>9, <2>10 DEF PassStep
<1>7. CASE UNCHANGED pass
  BY <1>7 DEF PassTyped
<1>8. createTopic \/ WorkerStep \/ (\E p \in Passers : PassStarts(p) \/ PassStep(p))
        \/ UNCHANGED pass
  BY DEF Next, vars, OpenPartition, CreateTopicBegins, OpenConsumer, Commit, EndOffset,
         CallerKeeps, SaveSnapshots, buildSnapshots, publishSnapshot, CompactSystemLogs,
         CompactionStep, CompactionLocksSnapshot, CompactionLocksRetention,
         SwitchGeneration, CloseOldGeneration, CompactionReports, CompactionKeeps, Close,
         CloserStep, CloseLocksSnapshot, CloseBarrier, stopRetention, AwaitWorker,
         CloseLocksRetention, MarkClosed, TearDown, CloserKeeps
<1> QED
  BY <1>4, <1>5, <1>6, <1>7, <1>8

\* The locks, registries and counters keep their types.
LEMMA TypesStep == IInv /\ [Next]_vars => Types'
<1> SUFFICES ASSUME IInv, [Next]_vars PROVE Types'
  OBVIOUS
<1> USE Names DEF IInv, PassTyped, Types, Registered, InHand, Working, Inside, Locks,
      None, NoTemporary, At, NoTemporary
<1>1. CASE OpenPartition
  BY <1>1, OpenTyped DEF OpenPartition, flags, system, calls
<1>2. CASE CreateTopicBegins
  BY <1>2 DEF CreateTopicBegins, Take, IsFree, Refusing, flags, instances, system,
     InstanceTypes
<1>3. CASE createTopic
  BY <1>3 DEF createTopic, OpenInstance, Drop, At, system, InstanceTypes
<1>4. CASE runBackgroundRetention \/ WorkerNotes \/ WorkerExits
  BY <1>4 DEF runBackgroundRetention, Goto, PassKeeps, flags, system, calls, instances,
     WorkerNotes, WorkerExits, InstanceTypes
<1>5. CASE SaveSnapshots \/ buildSnapshots \/ publishSnapshot
  BY <1>5 DEF SaveSnapshots, flags, instances, system, Take, IsFree, buildSnapshots,
     Drop, Refusing, publishSnapshot, InstanceTypes
<1>6. CASE CompactSystemLogs
  BY <1>6 DEF CompactSystemLogs, CompactionKeeps, flags, instances, system,
     InstanceTypes
<1>7. CASE CompactionLocksSnapshot
  BY <1>7 DEF CompactionLocksSnapshot, CompactionKeeps, flags, instances, system, Take,
     IsFree, InstanceTypes
<1>8. CASE CompactionLocksRetention
  BY <1>8 DEF CompactionLocksRetention, CompactionKeeps, flags, instances, system, Take,
     IsFree, InstanceTypes
<1>9. CASE SwitchGeneration
  BY <1>9 DEF SwitchGeneration, CompactionKeeps, flags, instances, system, Drop,
     Refusing, InstanceTypes
<1>10. CASE CloseOldGeneration
  BY <1>10 DEF CloseOldGeneration, CompactionKeeps, flags, instances, system, Drop,
     InstanceTypes
<1>11. CASE CompactionReports
  BY <1>11 DEF CompactionReports, CompactionKeeps, flags, instances, system,
     InstanceTypes
<1>12. ASSUME NEW p \in Passers, PassStarts(p) \/ LockRetention(p) \/ runRetentionAt(p)
   \/ openRetentionPartition(p) \/ LockPartition(p) \/ retainPartitionAt(p) \/
   releaseRetentionPartition(p) \/ ClosePartition(p) \/ UnregisterPartition(p) \/
   FinishPass(p)
      PROVE  Types'
  <2>1. CASE PassStarts(p)
    BY <2>1 DEF PassStarts, Goto, PassKeeps, flags, system, calls, instances,
       InstanceTypes
  <2>2. CASE LockRetention(p)
    BY <2>2 DEF LockRetention, Goto, PassKeeps, flags, system, calls, Take, IsFree,
       instances, InstanceTypes
  <2>3. CASE runRetentionAt(p)
    BY <2>3 DEF runRetentionAt, Goto, PassKeeps, flags, system, calls, Refusing,
       instances, InstanceTypes
  <2>4. CASE openRetentionPartition(p)
    <3>1. InstanceTypes'
      <4>1. CASE UNCHANGED instances
        BY <4>1 DEF instances, InstanceTypes
      <4>2. CASE /\ OpenInstance
                 /\ temporary' = [instance |-> opened + 1, retiring |-> FALSE]
                 /\ UNCHANGED public
        BY <4>2 DEF OpenInstance, InstanceTypes
      <4> QED
        BY <2>4, <4>1, <4>2 DEF openRetentionPartition
    <3> QED
      BY <2>4, <3>1 DEF openRetentionPartition, PassKeeps, flags, system, calls
  <2>5. CASE LockPartition(p)
    BY <2>5 DEF LockPartition, Goto, PassKeeps, flags, system, calls, AfterRetain,
       instances, InstanceTypes
  <2>6. CASE retainPartitionAt(p)
    BY <2>6 DEF retainPartitionAt, Goto, PassKeeps, flags, system, calls, AfterRetain,
       instances, InstanceTypes
  <2>7. CASE releaseRetentionPartition(p)
    BY <2>7 DEF releaseRetentionPartition, Goto, PassKeeps, flags, system, calls,
       StillTemporary, InstanceTypes
  <2>8. CASE ClosePartition(p)
    BY <2>8 DEF ClosePartition, Goto, PassKeeps, flags, system, calls, InstanceTypes
  <2>9. CASE UnregisterPartition(p)
    BY <2>9 DEF UnregisterPartition, Goto, PassKeeps, flags, system, calls,
       StillTemporary, NoTemporary, InstanceTypes
  <2>10. CASE FinishPass(p)
    BY <2>10 DEF FinishPass, Drop, AfterPass, At, PassKeeps, flags, system, calls,
       instances, InstanceTypes
  <2> HIDE DEF IInv, Types
  <2> QED
    BY <1>12, <2>1, <2>2, <2>3, <2>4, <2>5, <2>6, <2>7, <2>8, <2>9, <2>10
<1>13. ASSUME NEW c \in Callers, OpenConsumer(c) \/ Commit(c) \/ EndOffset(c)
      PROVE  Types'
  <2>1. CASE OpenConsumer(c)
    BY <2>1, OpenTyped DEF OpenConsumer, Take, CallerKeeps, flags, system
  <2>2. CASE Commit(c)
    BY <2>2 DEF Commit, CallerKeeps, flags, system, Take, IsFree, instances,
       InstanceTypes
  <2>3. CASE EndOffset(c)
    BY <2>3 DEF EndOffset, CallerKeeps, flags, system, Drop, instances, InstanceTypes
  <2> HIDE DEF IInv, Types
  <2> QED
    BY <1>13, <2>1, <2>2, <2>3
<1>14. ASSUME NEW c \in Closers, Close(c) \/ CloseLocksSnapshot(c) \/ CloseBarrier(c) \/
   stopRetention(c) \/ AwaitWorker(c) \/ CloseLocksRetention(c) \/ MarkClosed(c) \/
   TearDown(c)
      PROVE  Types'
  <2>1. CASE Close(c)
    BY <2>1 DEF Close, CloserKeeps, CloserAt, Take, IsFree, InstanceTypes
  <2>2. CASE CloseLocksSnapshot(c)
    BY <2>2 DEF CloseLocksSnapshot, CloserKeeps, CloserAt, Take, IsFree, InstanceTypes
  <2>3. CASE CloseBarrier(c)
    BY <2>3 DEF CloseBarrier, CloserKeeps, CloserAt, IsFree, InstanceTypes
  <2>4. CASE stopRetention(c)
    BY <2>4 DEF stopRetention, CloserKeeps, CloserAt, InstanceTypes
  <2>5. CASE AwaitWorker(c)
    BY <2>5 DEF AwaitWorker, CloserKeeps, CloserAt, InstanceTypes
  <2>6. CASE CloseLocksRetention(c)
    BY <2>6 DEF CloseLocksRetention, CloserKeeps, CloserAt, Take, IsFree, InstanceTypes
  <2>7. CASE MarkClosed(c)
    BY <2>7 DEF MarkClosed, CloserKeeps, CloserAt, Drop, IsFree, InstanceTypes
  <2>8. CASE TearDown(c)
    BY <2>8 DEF TearDown, CloserKeeps, CloserAt, Drop, IsFree, InstanceTypes
  <2> HIDE DEF IInv, Types
  <2> QED
    BY <1>14, <2>1, <2>2, <2>3, <2>4, <2>5, <2>6, <2>7, <2>8
<1>15. CASE UNCHANGED vars
  BY <1>15 DEF vars, flags, instances, system, calls, InstanceTypes
<1> HIDE DEF IInv, Types
<1> QED
  BY <1>1, <1>2, <1>3, <1>4, <1>5, <1>6, <1>7, <1>8, <1>9, <1>10, <1>11, <1>12, <1>13,
     <1>14, <1>15 DEF Next, PassStep, WorkerStep, CompactionStep, CloserStep

\* Who holds a mutex is at a step between its Lock and its Unlock.
LEMMA HoldersStep == IInv /\ [Next]_vars => Holders'
<1> SUFFICES ASSUME IInv, [Next]_vars PROVE Holders'
  OBVIOUS
<1> USE Names DEF IInv, PassTyped, Types, InstanceTypes, Locks, Free, None, Holders,
      Inside, Quiescing
<1>1. CASE OpenPartition
  BY <1>1 DEF OpenPartition, openConsumerPartitionLocked, claimPartitionLocked,
     OpenInstance, Refusing, flags, system, calls
<1>2. CASE CreateTopicBegins
  BY <1>2 DEF CreateTopicBegins, Take, IsFree, Refusing, flags, instances, system
<1>3. CASE createTopic
  BY <1>3 DEF createTopic, OpenInstance, Drop, At, system
<1>4. CASE runBackgroundRetention \/ WorkerNotes \/ WorkerExits
  BY <1>4 DEF runBackgroundRetention, Goto, PassKeeps, flags, system, calls, instances,
     WorkerNotes, WorkerExits
<1>5. CASE SaveSnapshots
  BY <1>5 DEF SaveSnapshots, flags, instances, system, Take, IsFree
<1>6. CASE buildSnapshots
  BY <1>6 DEF buildSnapshots, flags, instances, system, Drop, Refusing
<1>7. CASE publishSnapshot
  BY <1>7 DEF publishSnapshot, flags, instances, system, Drop
<1>8. CASE CompactSystemLogs
  BY <1>8 DEF CompactSystemLogs, CompactionKeeps, flags, instances, system
<1>9. CASE CompactionLocksSnapshot
  BY <1>9 DEF CompactionLocksSnapshot, CompactionKeeps, flags, instances, system, Take,
     IsFree
<1>10. CASE CompactionLocksRetention
  BY <1>10 DEF CompactionLocksRetention, CompactionKeeps, flags, instances, system,
     Take, IsFree
<1>11. CASE SwitchGeneration
  BY <1>11 DEF SwitchGeneration, CompactionKeeps, flags, instances, system, Drop,
     Refusing
<1>12. CASE CloseOldGeneration
  BY <1>12 DEF CloseOldGeneration, CompactionKeeps, flags, instances, system, Drop
<1>13. CASE CompactionReports
  BY <1>13 DEF CompactionReports, CompactionKeeps, flags, instances, system
<1>14. ASSUME NEW p \in Passers, PassStarts(p) \/ LockRetention(p) \/ runRetentionAt(p)
   \/ openRetentionPartition(p) \/ LockPartition(p) \/ retainPartitionAt(p) \/
   releaseRetentionPartition(p) \/ ClosePartition(p) \/ UnregisterPartition(p) \/
   FinishPass(p)
      PROVE  Holders'
  <2>1. CASE PassStarts(p)
    BY <2>1 DEF PassStarts, Goto, PassKeeps, flags, system, calls, instances
  <2>2. CASE LockRetention(p)
    BY <2>2 DEF LockRetention, Goto, PassKeeps, flags, system, calls, Take, IsFree,
       instances
  <2>3. CASE runRetentionAt(p)
    BY <2>3 DEF runRetentionAt, Goto, PassKeeps, flags, system, calls, Refusing,
       instances
  <2>4. CASE openRetentionPartition(p)
    BY <2>4 DEF openRetentionPartition, Goto, PassKeeps, flags, system, calls,
       OpenInstance, Refusing, instances
  <2>5. CASE LockPartition(p)
    BY <2>5 DEF LockPartition, Goto, PassKeeps, flags, system, calls, AfterRetain,
       instances
  <2>6. CASE retainPartitionAt(p)
    BY <2>6 DEF retainPartitionAt, Goto, PassKeeps, flags, system, calls, AfterRetain,
       instances
  <2>7. CASE releaseRetentionPartition(p)
    BY <2>7 DEF releaseRetentionPartition, Goto, PassKeeps, flags, system, calls,
       StillTemporary
  <2>8. CASE ClosePartition(p)
    BY <2>8 DEF ClosePartition, Goto, PassKeeps, flags, system, calls
  <2>9. CASE UnregisterPartition(p)
    BY <2>9 DEF UnregisterPartition, Goto, PassKeeps, flags, system, calls,
       StillTemporary, NoTemporary
  <2>10. CASE FinishPass(p)
    BY <2>10 DEF FinishPass, Drop, AfterPass, At, PassKeeps, flags, system, calls,
       instances
  <2> HIDE DEF IInv, Holders
  <2> QED
    BY <1>14, <2>1, <2>2, <2>3, <2>4, <2>5, <2>6, <2>7, <2>8, <2>9, <2>10
<1>15. ASSUME NEW c \in Callers, OpenConsumer(c) \/ Commit(c) \/ EndOffset(c)
      PROVE  Holders'
  <2>1. CASE OpenConsumer(c)
    BY <2>1 DEF OpenConsumer, CallerKeeps, flags, system, Take, IsFree,
       openConsumerPartitionLocked, claimPartitionLocked, OpenInstance, Refusing
  <2>2. CASE Commit(c)
    BY <2>2 DEF Commit, CallerKeeps, flags, system, Take, IsFree, instances
  <2>3. CASE EndOffset(c)
    BY <2>3 DEF EndOffset, CallerKeeps, flags, system, Drop, instances
  <2> HIDE DEF IInv, Holders
  <2> QED
    BY <1>15, <2>1, <2>2, <2>3
<1>16. ASSUME NEW c \in Closers, Close(c) \/ CloseLocksSnapshot(c) \/ CloseBarrier(c) \/
   stopRetention(c) \/ AwaitWorker(c) \/ CloseLocksRetention(c) \/ MarkClosed(c) \/
   TearDown(c)
      PROVE  Holders'
  <2>1. CASE Close(c)
    BY <2>1 DEF Close, CloserKeeps, CloserAt, Take, IsFree
  <2>2. CASE CloseLocksSnapshot(c)
    BY <2>2 DEF CloseLocksSnapshot, CloserKeeps, CloserAt, Take, IsFree
  <2>3. CASE CloseBarrier(c)
    BY <2>3 DEF CloseBarrier, CloserKeeps, CloserAt, IsFree
  <2>4. CASE stopRetention(c)
    BY <2>4 DEF stopRetention, CloserKeeps, CloserAt
  <2>5. CASE AwaitWorker(c)
    BY <2>5 DEF AwaitWorker, CloserKeeps, CloserAt
  <2>6. CASE CloseLocksRetention(c)
    BY <2>6 DEF CloseLocksRetention, CloserKeeps, CloserAt, Take, IsFree
  <2>7. CASE MarkClosed(c)
    BY <2>7 DEF MarkClosed, CloserKeeps, CloserAt, Drop, IsFree
  <2>8. CASE TearDown(c)
    BY <2>8 DEF TearDown, CloserKeeps, CloserAt, Drop, IsFree
  <2> HIDE DEF IInv, Holders
  <2> QED
    BY <1>16, <2>1, <2>2, <2>3, <2>4, <2>5, <2>6, <2>7, <2>8
<1>17. CASE UNCHANGED vars
  BY <1>17 DEF vars, flags, instances, system, calls
<1> HIDE DEF IInv, Holders
<1> QED
  BY <1>1, <1>2, <1>3, <1>4, <1>5, <1>6, <1>7, <1>8, <1>9, <1>10, <1>11, <1>12, <1>13,
     <1>14, <1>15, <1>16, <1>17 DEF Next, PassStep, WorkerStep, CompactionStep,
     CloserStep

\* The registry names the open instance, and its owners are who was handed it.
LEMMA RegisteredStep == IInv /\ [Next]_vars => Registered'
<1> SUFFICES ASSUME IInv, [Next]_vars PROVE Registered'
  OBVIOUS
<1> USE Names DEF IInv, PassTyped, Types, InstanceTypes, Locks, Free, None, Holders,
      Registered, Inside, Working, InHand, TearingDown, NoTemporary, StillTemporary
<1>1. CASE OpenPartition
  BY <1>1, OpenRegistered DEF OpenPartition, Refusing, flags, calls
<1>2. CASE CreateTopicBegins
  BY <1>2 DEF CreateTopicBegins, Take, IsFree, Refusing, flags, instances, system
<1>3. CASE createTopic
  BY <1>3 DEF createTopic, OpenInstance, Drop, At, system
<1>4. CASE runBackgroundRetention \/ WorkerNotes \/ WorkerExits
  BY <1>4 DEF runBackgroundRetention, Goto, PassKeeps, flags, system, calls, instances,
     WorkerNotes, WorkerExits
<1>5. ASSUME NEW p \in Passers, PassStarts(p) \/ LockRetention(p) \/ runRetentionAt(p)
   \/ openRetentionPartition(p) \/ LockPartition(p) \/ retainPartitionAt(p) \/
   releaseRetentionPartition(p) \/ ClosePartition(p) \/ UnregisterPartition(p) \/
   FinishPass(p)
      PROVE  Registered'
  <2>1. CASE PassStarts(p)
    BY <2>1 DEF PassStarts, Goto, PassKeeps, flags, system, calls, instances
  <2>2. CASE LockRetention(p)
    BY <2>2 DEF LockRetention, Goto, PassKeeps, flags, system, calls, Take, IsFree,
       instances
  <2>3. CASE runRetentionAt(p)
    BY <2>3 DEF runRetentionAt, Goto, PassKeeps, flags, system, calls, Refusing,
       instances
  <2>4. CASE openRetentionPartition(p)
    <3>1. CASE Goto(p, "finish") /\ UNCHANGED instances
      BY <2>4, <3>1 DEF openRetentionPartition, Goto, PassKeeps, flags, calls, instances
    <3>2. CASE /\ current # None /\ ~Refusing
               /\ pass' = [pass EXCEPT ![p].step = "lockPartition", ![p].instance = current]
               /\ UNCHANGED instances
      BY <2>4, <3>2 DEF openRetentionPartition, PassKeeps, flags, calls, instances
    <3>3. CASE /\ current = None /\ ~Refusing
               /\ OpenInstance
               /\ temporary' = [instance |-> opened + 1, retiring |-> FALSE]
               /\ pass' = [pass EXCEPT ![p] =
                             [step |-> "lockPartition", instance |-> opened + 1,
                              temporary |-> TRUE]]
               /\ UNCHANGED public
      <4>1. /\ topic' /\ creator' # "create" /\ closed' = closed
            /\ opened' = opened + 1 /\ current' = opened + 1 /\ opened \in Nat
            /\ shut' = shut /\ public' = public
        BY <2>4, <3>3 DEF openRetentionPartition, OpenInstance, PassKeeps, flags, calls
      <4>2. \A q \in Passers : q # p => pass'[q] = pass[q] /\ pass[q].step \notin Inside
        BY <2>4, <3>3 DEF openRetentionPartition
      <4>3. pass'[p].step = "lockPartition" /\ pass'[p].instance = opened + 1
        BY <3>3
      <4>4. (1..opened') \ shut' \subseteq {current'}
        BY <3>3, <4>1
      <4>5. opened + 1 \notin public \cup shut /\ (~closed => public \cap shut = {})
        OBVIOUS
      <4> HIDE DEF IInv
      <4> QED
        BY <3>3, <4>1, <4>2, <4>3, <4>4, <4>5
    <3> HIDE DEF IInv, Registered
    <3> QED
      BY <2>4, <3>1, <3>2, <3>3 DEF openRetentionPartition
  <2>5. CASE LockPartition(p)
    BY <2>5 DEF LockPartition, Goto, PassKeeps, flags, system, calls, AfterRetain,
       instances
  <2>6. CASE retainPartitionAt(p)
    BY <2>6 DEF retainPartitionAt, Goto, PassKeeps, flags, system, calls, AfterRetain,
       instances
  <2>7. CASE releaseRetentionPartition(p)
    BY <2>7 DEF releaseRetentionPartition, Goto, PassKeeps, flags, system, calls,
       StillTemporary
  <2>8. CASE ClosePartition(p)
    BY <2>8 DEF ClosePartition, Goto, PassKeeps, flags, system, calls
  <2>9. CASE UnregisterPartition(p)
    BY <2>9 DEF UnregisterPartition, Goto, PassKeeps, flags, system, calls,
       StillTemporary, NoTemporary
  <2>10. CASE FinishPass(p)
    BY <2>10 DEF FinishPass, Drop, AfterPass, At, PassKeeps, flags, system, calls,
       instances
  <2> HIDE DEF IInv, Registered
  <2> QED
    BY <1>5, <2>1, <2>2, <2>3, <2>4, <2>5, <2>6, <2>7, <2>8, <2>9, <2>10
<1>6. ASSUME NEW c \in Callers, OpenConsumer(c)
      PROVE  Registered'
  <2>1. CASE OpenConsumer(c)
    BY <2>1, OpenRegistered DEF OpenConsumer, Refusing, CallerKeeps, flags
  <2> HIDE DEF IInv, Registered
  <2> QED
    BY <1>6, <2>1
<1>7. ASSUME NEW c \in Closers, MarkClosed(c) \/ TearDown(c)
      PROVE  Registered'
  <2>1. CASE MarkClosed(c)
    BY <2>1 DEF MarkClosed, CloserKeeps, CloserAt, Drop, IsFree
  <2>2. CASE TearDown(c)
    BY <2>2 DEF TearDown, CloserKeeps, CloserAt, Drop, IsFree, Stopping
  <2> HIDE DEF IInv, Registered
  <2> QED
    BY <1>7, <2>1, <2>2
<1>8. CASE UNCHANGED <<instances, topic, closed, pass, creator>>
  BY <1>8 DEF instances
<1> HIDE DEF IInv, Registered
<1> QED
  BY <1>1, <1>2, <1>3, <1>4, <1>5, <1>6, <1>7, <1>8 DEF Next, PassStep, WorkerStep,
     CompactionStep, CloserStep, SaveSnapshots, flags, instances, system,
     buildSnapshots, publishSnapshot, CompactSystemLogs, CompactionKeeps,
     CompactionLocksSnapshot, CompactionLocksRetention, SwitchGeneration,
     CloseOldGeneration, CompactionReports, Commit, CallerKeeps, EndOffset, Close,
     CloserKeeps, CloserAt, CloseLocksSnapshot, CloseBarrier, stopRetention,
     AwaitWorker, CloseLocksRetention, vars, calls

\* A closer that is past a step of Store.Close finds what that step stopped stopped.
LEMMA StoppingStep == IInv /\ [Next]_vars => Stopping'
<1> SUFFICES ASSUME IInv, [Next]_vars PROVE Stopping'
  OBVIOUS
<1> USE Names DEF IInv, PassTyped, Types, Locks, Free, None, Holders, Stopping, Inside,
      Quiescing, WorkerGone
<1>1. CASE CreateTopicBegins
  BY <1>1 DEF CreateTopicBegins, Take, IsFree, Refusing, flags, instances, system
<1>2. CASE createTopic
  BY <1>2 DEF createTopic, OpenInstance, Drop, At, system
<1>3. CASE runBackgroundRetention \/ WorkerNotes \/ WorkerExits
  BY <1>3 DEF runBackgroundRetention, Goto, PassKeeps, flags, system, calls, instances,
     WorkerNotes, WorkerExits
<1>4. ASSUME NEW p \in Passers, PassStarts(p) \/ LockRetention(p) \/ runRetentionAt(p)
   \/ openRetentionPartition(p) \/ LockPartition(p) \/ retainPartitionAt(p) \/
   releaseRetentionPartition(p) \/ ClosePartition(p) \/ UnregisterPartition(p) \/
   FinishPass(p)
      PROVE  Stopping'
  <2>1. CASE PassStarts(p)
    BY <2>1 DEF PassStarts, Goto, PassKeeps, flags, system, calls, instances
  <2>2. CASE LockRetention(p)
    BY <2>2 DEF LockRetention, Goto, PassKeeps, flags, system, calls, Take, IsFree,
       instances
  <2>3. CASE runRetentionAt(p)
    BY <2>3 DEF runRetentionAt, Goto, PassKeeps, flags, system, calls, Refusing,
       instances
  <2>4. CASE openRetentionPartition(p)
    BY <2>4 DEF openRetentionPartition, Goto, PassKeeps, flags, system, calls,
       OpenInstance, Refusing, instances
  <2>5. CASE LockPartition(p)
    BY <2>5 DEF LockPartition, Goto, PassKeeps, flags, system, calls, AfterRetain,
       instances
  <2>6. CASE retainPartitionAt(p)
    BY <2>6 DEF retainPartitionAt, Goto, PassKeeps, flags, system, calls, AfterRetain,
       instances
  <2>7. CASE releaseRetentionPartition(p)
    BY <2>7 DEF releaseRetentionPartition, Goto, PassKeeps, flags, system, calls,
       StillTemporary
  <2>8. CASE ClosePartition(p)
    BY <2>8 DEF ClosePartition, Goto, PassKeeps, flags, system, calls
  <2>9. CASE UnregisterPartition(p)
    BY <2>9 DEF UnregisterPartition, Goto, PassKeeps, flags, system, calls,
       StillTemporary, NoTemporary
  <2>10. CASE FinishPass(p)
    BY <2>10 DEF FinishPass, Drop, AfterPass, At, PassKeeps, flags, system, calls,
       instances
  <2> HIDE DEF IInv, Stopping
  <2> QED
    BY <1>4, <2>1, <2>2, <2>3, <2>4, <2>5, <2>6, <2>7, <2>8, <2>9, <2>10
<1>5. ASSUME NEW c \in Closers, Close(c) \/ CloseLocksSnapshot(c) \/ CloseBarrier(c) \/
   stopRetention(c) \/ AwaitWorker(c) \/ CloseLocksRetention(c) \/ MarkClosed(c) \/
   TearDown(c)
      PROVE  Stopping'
  <2>1. CASE Close(c)
    BY <2>1 DEF Close, CloserKeeps, CloserAt, Take, IsFree
  <2>2. CASE CloseLocksSnapshot(c)
    BY <2>2 DEF CloseLocksSnapshot, CloserKeeps, CloserAt, Take, IsFree
  <2>3. CASE CloseBarrier(c)
    BY <2>3 DEF CloseBarrier, CloserKeeps, CloserAt, IsFree
  <2>4. CASE stopRetention(c)
    BY <2>4 DEF stopRetention, CloserKeeps, CloserAt
  <2>5. CASE AwaitWorker(c)
    BY <2>5 DEF AwaitWorker, CloserKeeps, CloserAt
  <2>6. CASE CloseLocksRetention(c)
    BY <2>6 DEF CloseLocksRetention, CloserKeeps, CloserAt, Take, IsFree
  <2>7. CASE MarkClosed(c)
    BY <2>7 DEF MarkClosed, CloserKeeps, CloserAt, Drop, IsFree
  <2>8. CASE TearDown(c)
    BY <2>8 DEF TearDown, CloserKeeps, CloserAt, Drop, IsFree
  <2> HIDE DEF IInv, Stopping
  <2> QED
    BY <1>5, <2>1, <2>2, <2>3, <2>4, <2>5, <2>6, <2>7, <2>8
<1>6. CASE UNCHANGED <<closer, closing, creator, closed, stopped, pass>>
  BY <1>6
<1> HIDE DEF IInv, Stopping
<1> QED
  BY <1>1, <1>2, <1>3, <1>4, <1>5, <1>6 DEF Next, PassStep, WorkerStep, CompactionStep,
     CloserStep, OpenPartition, flags, system, calls, SaveSnapshots, instances,
     buildSnapshots, publishSnapshot, CompactSystemLogs, CompactionKeeps,
     CompactionLocksSnapshot, CompactionLocksRetention, SwitchGeneration,
     CloseOldGeneration, CompactionReports, OpenConsumer, CallerKeeps, Commit,
     EndOffset, vars

\* Behind the barrier of Store.Close, who waited leaves and nobody enters.
LEMMA QuietStep == IInv /\ [Next]_vars => Quiet'
<1> SUFFICES ASSUME IInv, [Next]_vars PROVE Quiet'
  OBVIOUS
<1> USE Names DEF IInv, PassTyped, Types, Locks, Free, None, Holders, Stopping, Quiet,
      Inside, Working, InHand, Quiescing
<1>1. CASE OpenPartition
  BY <1>1 DEF OpenPartition, openConsumerPartitionLocked, claimPartitionLocked,
     OpenInstance, Refusing, flags, system, calls
<1>2. CASE createTopic
  BY <1>2 DEF createTopic, OpenInstance, Drop, At, system
<1>3. CASE runBackgroundRetention
  BY <1>3 DEF runBackgroundRetention, Goto, PassKeeps, flags, system, calls, instances
<1>4. CASE WorkerNotes
  BY <1>4 DEF WorkerNotes, Goto, PassKeeps, flags, system, calls, instances
<1>5. CASE WorkerExits
  BY <1>5 DEF WorkerExits, Goto, PassKeeps, flags, system, calls, instances
<1>6. CASE SaveSnapshots
  BY <1>6 DEF SaveSnapshots, flags, instances, system, Take, IsFree
<1>7. CASE buildSnapshots
  BY <1>7 DEF buildSnapshots, flags, instances, system, Drop, Refusing
<1>8. CASE publishSnapshot
  BY <1>8 DEF publishSnapshot, flags, instances, system, Drop
<1>9. CASE CompactSystemLogs
  BY <1>9 DEF CompactSystemLogs, CompactionKeeps, flags, instances, system
<1>10. CASE CompactionLocksSnapshot
  BY <1>10 DEF CompactionLocksSnapshot, CompactionKeeps, flags, instances, system, Take,
     IsFree
<1>11. CASE CompactionLocksRetention
  BY <1>11 DEF CompactionLocksRetention, CompactionKeeps, flags, instances, system,
     Take, IsFree
<1>12. CASE SwitchGeneration
  <2>1. (generation + 1) - 1 = generation
    OBVIOUS
  <2>2. systemOpen \subseteq {generation}
    BY <1>12 DEF SwitchGeneration
  <2>3. systemOpen' \subseteq
           {generation'} \cup (IF compaction' = "closeOld" THEN {generation' - 1} ELSE {})
    <3> HIDE DEF IInv
    <3> QED
      BY <1>12, <2>1, <2>2 DEF SwitchGeneration, system
  <2> QED
    BY <1>12, <2>3 DEF SwitchGeneration, CompactionKeeps, flags, instances, system, Refusing
<1>13. CASE CloseOldGeneration
  BY <1>13 DEF CloseOldGeneration, CompactionKeeps, flags, instances, system, Drop
<1>14. CASE CompactionReports
  BY <1>14 DEF CompactionReports, CompactionKeeps, flags, instances, system
<1>15. ASSUME NEW p \in Passers, PassStarts(p) \/ LockRetention(p) \/ runRetentionAt(p)
   \/ openRetentionPartition(p) \/ LockPartition(p) \/ retainPartitionAt(p) \/
   releaseRetentionPartition(p) \/ ClosePartition(p) \/ UnregisterPartition(p) \/
   FinishPass(p)
      PROVE  Quiet'
  <2>1. CASE PassStarts(p)
    BY <2>1 DEF PassStarts, Goto, PassKeeps, flags, system, calls, instances
  <2>2. CASE LockRetention(p)
    BY <2>2 DEF LockRetention, Goto, PassKeeps, flags, system, calls, Take, IsFree,
       instances
  <2>3. CASE runRetentionAt(p)
    BY <2>3 DEF runRetentionAt, Goto, PassKeeps, flags, system, calls, Refusing,
       instances
  <2>4. CASE openRetentionPartition(p)
    BY <2>4 DEF openRetentionPartition, Goto, PassKeeps, flags, system, calls,
       OpenInstance, Refusing, instances
  <2>5. CASE LockPartition(p)
    BY <2>5 DEF LockPartition, Goto, PassKeeps, flags, system, calls, AfterRetain,
       instances
  <2>6. CASE retainPartitionAt(p)
    BY <2>6 DEF retainPartitionAt, Goto, PassKeeps, flags, system, calls, AfterRetain,
       instances
  <2>7. CASE releaseRetentionPartition(p)
    BY <2>7 DEF releaseRetentionPartition, Goto, PassKeeps, flags, system, calls,
       StillTemporary
  <2>8. CASE ClosePartition(p)
    BY <2>8 DEF ClosePartition, Goto, PassKeeps, flags, system, calls
  <2>9. CASE UnregisterPartition(p)
    BY <2>9 DEF UnregisterPartition, Goto, PassKeeps, flags, system, calls,
       StillTemporary, NoTemporary
  <2>10. CASE FinishPass(p)
    BY <2>10 DEF FinishPass, Drop, AfterPass, At, PassKeeps, flags, system, calls,
       instances
  <2> HIDE DEF IInv, Quiet
  <2> QED
    BY <1>15, <2>1, <2>2, <2>3, <2>4, <2>5, <2>6, <2>7, <2>8, <2>9, <2>10
<1>16. ASSUME NEW c \in Callers, OpenConsumer(c)
      PROVE  Quiet'
  <2>1. CASE OpenConsumer(c)
    BY <2>1 DEF OpenConsumer, CallerKeeps, flags, system, Take, IsFree,
       openConsumerPartitionLocked, claimPartitionLocked, OpenInstance, Refusing
  <2> HIDE DEF IInv, Quiet
  <2> QED
    BY <1>16, <2>1
<1>17. ASSUME NEW c \in Closers, Close(c) \/ CloseLocksSnapshot(c) \/ CloseBarrier(c) \/
   stopRetention(c) \/ AwaitWorker(c) \/ CloseLocksRetention(c) \/ MarkClosed(c) \/
   TearDown(c)
      PROVE  Quiet'
  <2>1. CASE Close(c)
    BY <2>1 DEF Close, CloserKeeps, CloserAt, Take, IsFree
  <2>2. CASE CloseLocksSnapshot(c)
    BY <2>2 DEF CloseLocksSnapshot, CloserKeeps, CloserAt, Take, IsFree
  <2>3. CASE CloseBarrier(c)
    BY <2>3 DEF CloseBarrier, CloserKeeps, CloserAt, IsFree
  <2>4. CASE stopRetention(c)
    BY <2>4 DEF stopRetention, CloserKeeps, CloserAt
  <2>5. CASE AwaitWorker(c)
    BY <2>5 DEF AwaitWorker, CloserKeeps, CloserAt
  <2>6. CASE CloseLocksRetention(c)
    BY <2>6 DEF CloseLocksRetention, CloserKeeps, CloserAt, Take, IsFree
  <2>7. CASE MarkClosed(c)
    BY <2>7 DEF MarkClosed, CloserKeeps, CloserAt, Drop, IsFree
  <2>8. CASE TearDown(c)
    <3>1. closed /\ compaction # "closeOld"
      BY <2>8 DEF TearDown
    <3>2. systemOpen' = {}
      BY <2>8, <3>1 DEF TearDown
    <3>3. shut' = 1..opened'
      <4>1. current \in {None} \cup 1..opened
        BY DEF InstanceTypes
      <4>2. shut' = shut \cup ({current} \ {None}) /\ opened' = opened
        BY <2>8 DEF TearDown, CloserKeeps
      <4>3. shut \subseteq 1..opened /\ None \notin 1..opened
        BY DEF InstanceTypes
      <4>4. (1..opened) \ shut \subseteq {current}
        BY DEF Registered
      <4> HIDE DEF IInv, None
      <4> QED
        BY <4>1, <4>2, <4>3, <4>4
    <3> QED
      BY <2>8, <3>1, <3>2, <3>3 DEF TearDown, CloserKeeps, CloserAt
  <2> HIDE DEF IInv, Quiet
  <2> QED
    BY <1>17, <2>1, <2>2, <2>3, <2>4, <2>5, <2>6, <2>7, <2>8
<1>18. CASE UNCHANGED <<pass, system, compaction, closed, snapshot, closer, opened, shut>>
  BY <1>18 DEF system
<1> HIDE DEF IInv, Quiet
<1> QED
  BY <1>1, <1>2, <1>3, <1>4, <1>5, <1>6, <1>7, <1>8, <1>9, <1>10, <1>11, <1>12, <1>13,
     <1>14, <1>15, <1>16, <1>17, <1>18 DEF Next, PassStep, WorkerStep, CompactionStep,
     CloserStep, CreateTopicBegins, flags, instances, system, Commit, CallerKeeps,
     EndOffset, vars, calls

-----------------------------------------------------------------------------
(* The theorems.                                                           *)

\* OpenWithOptions, with or without the topic.
LEMMA InitInv == Init => IInv
<1> SUFFICES ASSUME Init PROVE IInv
  OBVIOUS
<1>1. PassTyped
  BY DEF Init, PassTyped, PassSteps, Inside, At, None
<1>2. Types
  <2>1. InstanceTypes
    BY DEF Init, InstanceTypes, NoTemporary, None
  <2> QED
    BY <2>1 DEF Init, Types
<1>3. Holders
  BY DEF Init, Holders, Inside, Quiescing, At, Passers
<1>4. Registered
  BY DEF Init, Registered, StillTemporary, NoTemporary, None, TearingDown, InHand, Working,
         Inside, At, Passers
<1>5. Stopping
  BY DEF Init, Stopping, Quiescing
<1>6. Quiet
  BY DEF Init, Quiet, InHand, Working, Inside, At, None, Passers
<1> QED
  BY <1>1, <1>2, <1>3, <1>4, <1>5, <1>6 DEF IInv

\* IInv holds in every reachable state.
THEOREM Invariance == Spec => []IInv
<1>1. IInv /\ [Next]_vars => IInv'
  BY PassTypedStep, TypesStep, HoldersStep, RegisteredStep, StoppingStep, QuietStep DEF IInv
<1> QED
  BY <1>1, InitInv, PTL DEF Spec

\* A partition handed to a caller is closed by Store.Close only, however many
\* passes of the worker and of RunRetention open and release it for themselves.
THEOREM ClaimedPartitionsStayOpen == Spec => []ClaimedStaysOpen
<1>1. IInv => ClaimedStaysOpen
  BY DEF IInv, Registered, ClaimedStaysOpen
<1> QED
  BY <1>1, Invariance, PTL

\* At most one instance of a partition is open: retention, OpenPartition,
\* CreateTopic and OpenConsumer never open a second one beside it.
THEOREM OneInstanceIsOpen == Spec => []OneOpenInstance
<1>1. IInv => OneOpenInstance
  <2> SUFFICES ASSUME IInv PROVE Cardinality((1..opened) \ shut) <= 1
    BY DEF OneOpenInstance
  <2>1. IsFiniteSet({current}) /\ Cardinality({current}) = 1
    BY FS_Singleton
  <2>2. (1..opened) \ shut \subseteq {current}
    BY DEF IInv, Registered
  <2> QED
    BY <2>1, <2>2, FS_Subset
<1> QED
  BY <1>1, Invariance, PTL

\* Behind the closed flag nothing of the store is at work any more, and behind
\* the return of Store.Close nothing it opened is left open, however many calls
\* were under way.
THEOREM CloseLeavesQuiet == Spec => []ClosedIsQuiet
<1>1. IInv => ClosedIsQuiet
  BY DEF IInv, Stopping, Quiet, ClosedIsQuiet, WorkerGone
<1> QED
  BY <1>1, Invariance, PTL

=============================================================================
