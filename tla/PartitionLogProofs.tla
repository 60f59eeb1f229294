------------------------- MODULE PartitionLogProofs -------------------------
(***************************************************************************)
(* Proofs about PartitionLog, for every segment size, batch size, offset   *)
(* range and number of appends.                                            *)
(*                                                                         *)
(* Recovery takes complete batches over without syncing them, so what is   *)
(* durable is proved of SafeSpec: under every fault, with the one          *)
(* restriction that power is not lost while something the last open took   *)
(* over is still unsynced.  Without it the results are false:              *)
(* PartitionLogMixed.cfg.                                                  *)
(***************************************************************************)
EXTENDS PartitionLog, WellFoundedInduction, FiniteSetTheorems, TLAPS

-----------------------------------------------------------------------------
(* The inductive invariant.                                                *)

\* The files hold exactly the offsets below h.
Whole(h) == DOMAIN file = InitialOffset..(h - 1)

\* The append in progress, or given up since the last open.
WriterShape ==
    /\ writer.step = "idle" => writer = Idle
    /\ writer.step # "idle" =>
         /\ writer.n \in 1..BatchRecords
         /\ writer.id \in 1..appends
         /\ logEnd + writer.n <= MaxOffset
    /\ writer.step \in {"roll", "dirSync", "write", "sync"} => mode = "open"
    /\ writer.step = "dirSync" => logEnd \in dir

\* The complete batches on disk end at H, or behind the batch in doubt.
FileShape ==
    /\ writer.step \in {"sync", "failed"} \/ Whole(logEnd)
    /\ writer.step = "sync" => Whole(logEnd + writer.n)
    /\ writer.step = "failed" => Whole(logEnd) \/ Whole(logEnd + writer.n)
    /\ \A o \in DOMAIN file : logEnd <= o => file[o] = writer.id

\* The directory has the first segment and none beyond H.
DirShape ==
    /\ dir = {} => mode = "closed" /\ logEnd = InitialOffset /\ writer.step = "idle"
    /\ dir # {} => InitialOffset \in dir
    /\ \A b \in dir : b <= logEnd
    /\ mode = "open" => InitialOffset \in segments
    /\ mode = "open" \/ writer.step # "idle" => InitialOffset \in foundDir

\* An acknowledged batch lies below H.
AckedBelowEnd == \A b \in acked : b.base + b.n <= logEnd

\* What no sync has covered was taken over by the last open, or is the batch
\* in doubt, or is the directory entry being published or given up.
SyncShape ==
    /\ \A o \in DOMAIN file : o < logEnd => o \in durable \cup found
    /\ \A b \in dir \ (dirSynced \cup foundDir) :
         b = logEnd /\ (mode # "open" \/ writer.step \in {"dirSync", "failed"})

RefusedShape == mode = "refused" => tail \in {"partialHeader", "badBatch"}

IInv ==
    /\ TypeOK /\ AckedIntact
    /\ WriterShape /\ FileShape /\ DirShape /\ AckedBelowEnd /\ SyncShape
    /\ RefusedShape

-----------------------------------------------------------------------------
(* Lemmas.                                                                 *)

\* A nonempty set of offsets has a greatest element, which Max returns: the
\* active segment and the segment of an offset are well defined.
LEMMA MaxIsGreatest ==
    ASSUME NEW S, NEW a \in Nat, NEW b \in Nat, S \subseteq a..b, S # {}
    PROVE  Max(S) \in S /\ \A y \in S : y <= Max(S)
<1> DEFINE T == {b - x : x \in S}
           R == OpToRel(<, Nat)
<1>1. T \subseteq Nat /\ T # {}
  OBVIOUS
<1>2. PICK t \in T : \A u \in T : ~(<<u, t>> \in R)
  <2> HIDE DEF T, R
  <2>1. IsWellFoundedOn(R, Nat)
    BY NatLessThanWellFounded DEF R
  <2> QED
    BY <1>1, <2>1, WFMin
<1>3. \A u \in T : t <= u
  <2> SUFFICES ASSUME NEW u \in T PROVE t <= u
    OBVIOUS
  <2>1. u \in Nat /\ t \in Nat
    BY <1>1
  <2>2. ~(u < t)
    BY <1>2, <2>1 DEF OpToRel
  <2> QED
    BY <2>1, <2>2
<1>4. PICK x \in S : t = b - x
  OBVIOUS
<1>5. \A y \in S : x >= y
  BY <1>3, <1>4
<1> QED
  BY <1>5 DEF Max

\* What recovery computes for H when the files hold exactly the offsets below h.
LEMMA RecoveredEndIsEnd ==
    ASSUME NEW h \in InitialOffset..MaxOffset, Whole(h)
    PROVE  RecoveredEnd = h
<1>1. CASE h = InitialOffset
  BY <1>1, ConstantsAssumption DEF Whole, RecoveredEnd
<1>2. CASE h # InitialOffset
  <2>1. DOMAIN file \subseteq InitialOffset..MaxOffset /\ DOMAIN file # {}
    BY <1>2, ConstantsAssumption DEF Whole
  <2>2. Max(DOMAIN file) \in DOMAIN file /\ \A y \in DOMAIN file : y <= Max(DOMAIN file)
    BY <2>1, MaxIsGreatest, ConstantsAssumption
  <2>3. h - 1 \in DOMAIN file
    BY <1>2, ConstantsAssumption DEF Whole
  <2>4. Max(DOMAIN file) = h - 1
    BY <2>2, <2>3, ConstantsAssumption DEF Whole
  <2> QED
    BY <2>1, <2>4, ConstantsAssumption DEF RecoveredEnd
<1> QED
  BY <1>1, <1>2

-----------------------------------------------------------------------------
(* Type correctness, whatever the faults.                                  *)

\* A partition that was never opened has the types.
LEMMA TypeInit == Init => TypeOK /\ WriterShape
<1> SUFFICES ASSUME Init PROVE TypeOK /\ WriterShape
  OBVIOUS
<1> USE ConstantsAssumption DEF Init, Idle
<1>1. writer \in [step : Steps, id : 0..MaxAppends, n : 0..BatchRecords]
  BY DEF Steps
<1>2. DOMAIN file = {}
  OBVIOUS
<1>3. unavailable \in BOOLEAN
  OBVIOUS
<1>4. TypeOK
  BY <1>1, <1>2, <1>3 DEF TypeOK, Tails
<1>5. WriterShape
  BY DEF WriterShape
<1> QED
  BY <1>4, <1>5

\* Coming up with the segments the directory holds keeps the types.
LEMMA UpKeepsTypes ==
    ASSUME TypeOK, NEW end \in InitialOffset..MaxOffset, Up(end, dir'),
           dir' \subseteq InitialOffset..MaxOffset, dirSynced' \subseteq dir',
           UNCHANGED file, durable' \subseteq DOMAIN file, tail' \in Tails
    PROVE  TypeOK' /\ WriterShape'
<1> USE ConstantsAssumption DEF Up, Idle
<1>1. writer' \in [step : Steps, id : 0..MaxAppends, n : 0..BatchRecords]
  BY DEF Steps
<1>2. unavailable' \in BOOLEAN
  OBVIOUS
<1>3. UNCHANGED <<acked, appends>>
  BY DEF history
<1>4. TypeOK'
  BY <1>1, <1>2, <1>3 DEF TypeOK
<1>5. WriterShape'
  BY DEF WriterShape
<1> QED
  BY <1>4, <1>5

\* Every step of an append, a fault, Close and openPartition keeps the types.
LEMMA TypeStep == TypeOK /\ WriterShape /\ [Next]_vars => TypeOK' /\ WriterShape'
<1> SUFFICES ASSUME TypeOK, WriterShape, [Next]_vars
             PROVE  TypeOK' /\ WriterShape'
  OBVIOUS
<1> USE ConstantsAssumption DEF TypeOK, WriterShape, Steps, Tails, Idle,
        disk, process, history
<1>1. ASSUME NEW n \in 1..BatchRecords, BeginAppend(n) PROVE TypeOK' /\ WriterShape'
  BY <1>1 DEF BeginAppend
<1>2. CASE RollRename
  BY <1>2 DEF RollRename
<1>3. CASE RollSync
  BY <1>3 DEF RollSync
<1>4. CASE RollFails
  BY <1>4 DEF RollFails, FailAppend
<1>5. CASE WriteBatch
  BY <1>5 DEF WriteBatch, Extend, Span
<1>6. CASE WriteFails
  BY <1>6 DEF WriteFails, FailAppend
<1>7. CASE SyncBatch
  BY <1>7 DEF SyncBatch, Batches
<1>8. CASE SyncFails
  BY <1>8 DEF SyncFails, FailAppend
<1>9. CASE FetchFences
  BY <1>9 DEF FetchFences
<1>10. CASE Close
  BY <1>10 DEF Close, Down
<1>11. CASE ProcessCrash
  BY <1>11 DEF ProcessCrash, Down
<1>12. CASE PowerLoss
  BY <1>12 DEF PowerLoss, Down, Restrict
<1>13. CASE OpenFresh
  <2>1. Up(InitialOffset, dir') /\ dir' = {InitialOffset} /\ dirSynced' = dir'
    BY <1>13 DEF OpenFresh
  <2>2. UNCHANGED <<file, durable, tail>>
    BY <1>13 DEF OpenFresh
  <2>3. /\ InitialOffset \in InitialOffset..MaxOffset /\ dir' \subseteq InitialOffset..MaxOffset
        /\ durable' \subseteq DOMAIN file /\ tail' \in Tails
    BY <2>1, <2>2
  <2> QED
    BY <2>1, <2>2, <2>3, UpKeepsTypes
<1>14. CASE OpenFreshFails
  BY <1>14 DEF OpenFreshFails
<1>15. ASSUME NEW syncsDir \in BOOLEAN, OpenRecovers(syncsDir)
       PROVE  TypeOK' /\ WriterShape'
  <2>1. PICK h \in InitialOffset..MaxOffset : Whole(h)
    BY <1>15 DEF OpenRecovers, Contiguous, Whole
  <2>2. RecoveredEnd = h
    BY <2>1, RecoveredEndIsEnd
  <2> QED
    BY <1>15, <2>2, UpKeepsTypes DEF OpenRecovers, Up, FinalOffsets
<1>16. CASE OpenRefuses
  BY <1>16 DEF OpenRefuses
<1>17. CASE UNCHANGED vars
  BY <1>17 DEF vars
<1> QED
  BY <1>1, <1>2, <1>3, <1>4, <1>5, <1>6, <1>7, <1>8, <1>9, <1>10, <1>11, <1>12,
     <1>13, <1>14, <1>15, <1>16, <1>17 DEF Next, Proceed

\* Every variable keeps its type under every fault: offsets never leave the
\* range the v1 format allows, whatever openPartition finds on disk.
THEOREM TypeCorrect == Spec => []TypeOK
<1>1. Init => TypeOK /\ WriterShape
  BY TypeInit
<1>2. TypeOK /\ WriterShape /\ [Next]_vars => (TypeOK /\ WriterShape)'
  BY TypeStep
<1> QED
  BY <1>1, <1>2, PTL DEF Spec

-----------------------------------------------------------------------------
(* The inductive invariant is one.                                         *)

\* A partition that was never opened satisfies the inductive invariant.
LEMMA InvInit == Init => IInv
<1> SUFFICES ASSUME Init PROVE IInv
  OBVIOUS
<1>1. TypeOK /\ WriterShape
  BY TypeInit
<1>2. DOMAIN file = {} /\ acked = {} /\ dir = {} /\ logEnd = InitialOffset
  BY DEF Init
<1>3. FileShape
  BY <1>2, ConstantsAssumption DEF Init, FileShape, Whole, Idle
<1>4. AckedIntact /\ DirShape /\ AckedBelowEnd /\ SyncShape /\ RefusedShape
  BY <1>2 DEF Init, Idle, AckedIntact, DirShape, AckedBelowEnd, SyncShape, RefusedShape
<1> QED
  BY <1>1, <1>3, <1>4 DEF IInv

\* The segment an offset is in exists, starts at or below it, and is the same
\* for any two offsets that have the same segments at or below them.
LEMMA SegmentOfExists ==
    ASSUME TypeOK, InitialOffset \in dir, NEW o \in Nat, InitialOffset <= o
    PROVE  SegmentOf(o) \in dir /\ SegmentOf(o) <= o
<1> DEFINE S == {b \in dir : b <= o}
<1>1. S \subseteq InitialOffset..MaxOffset /\ S # {}
  BY DEF TypeOK
<1>2. Max(S) \in S
  BY <1>1, MaxIsGreatest, ConstantsAssumption
<1> QED
  BY <1>2 DEF SegmentOf

\* The active segment starts at or below H.
LEMMA ActiveExists ==
    ASSUME TypeOK, DirShape, mode = "open"
    PROVE  Active \in segments /\ InitialOffset <= Active /\ Active <= logEnd
<1>1. segments \subseteq InitialOffset..MaxOffset /\ segments # {}
  BY DEF TypeOK, DirShape
<1>2. Max(segments) \in segments
  BY <1>1, MaxIsGreatest, ConstantsAssumption
<1>3. Active \in segments
  BY <1>2 DEF Active
<1> QED
  BY <1>1, <1>3, ConstantsAssumption DEF TypeOK, DirShape

\* A power loss takes at most the batch in doubt and the directory entry being
\* published, each as a whole.
LEMMA PowerLossStep ==
    ASSUME IInv, FoundDurable, PowerLoss, TypeOK', WriterShape'
    PROVE  IInv'
<1> USE ConstantsAssumption DEF IInv, history
<1>1. PICK D \in SUBSET dir, K \in SUBSET DOMAIN file :
        /\ dirSynced \subseteq D /\ Survives(K, D)
        /\ file' = Restrict(file, K) /\ durable' = K
        /\ dir' = D /\ dirSynced' = D
  BY DEF PowerLoss
<1>2. /\ mode' = "closed" /\ segments' = {} /\ UNCHANGED <<logEnd, acked, found, foundDir>>
      /\ writer'.step = IF writer.step = "idle" THEN "idle" ELSE "failed"
      /\ writer'.id = writer.id /\ writer'.n = writer.n
  BY DEF PowerLoss, Down, TypeOK
<1>3. /\ \A o \in DOMAIN file : o < logEnd => o \in durable
      /\ \A b \in dir \ dirSynced : b = logEnd
  BY DEF FoundDurable, SyncShape
<1>a. logEnd \in Nat /\ writer.n \in Nat /\ DOMAIN file \subseteq Nat /\ dir \subseteq Nat
  BY DEF TypeOK
<1>b. InitialOffset..(logEnd - 1) \subseteq DOMAIN file
  BY <1>a DEF FileShape, Whole
<1>c. DOMAIN file # {} => InitialOffset \in dir
  BY <1>a DEF DirShape, FileShape, Whole
<1>4. \A o \in DOMAIN file : o < logEnd => SegmentOf(o) \in D
  <2> SUFFICES ASSUME NEW o \in DOMAIN file, o < logEnd PROVE SegmentOf(o) \in D
    OBVIOUS
  <2>1. o \in Nat /\ InitialOffset <= o
    BY DEF TypeOK
  <2>2. SegmentOf(o) \in dir /\ SegmentOf(o) <= o
    BY <1>c, <2>1, SegmentOfExists
  <2>3. SegmentOf(o) \in Nat
    BY <1>a, <2>2
  <2>4. SegmentOf(o) # logEnd
    BY <1>a, <2>1, <2>2, <2>3
  <2> QED
    BY <1>1, <1>3, <2>2, <2>4
<1>5. InitialOffset..(logEnd - 1) \subseteq K
  <2> SUFFICES ASSUME NEW o \in InitialOffset..(logEnd - 1) PROVE o \in K
    OBVIOUS
  <2>1. o \in DOMAIN file /\ o < logEnd
    BY <1>a, <1>b
  <2> QED
    BY <1>1, <1>3, <1>4, <2>1 DEF Survives
<1>6. K = InitialOffset..(logEnd - 1) \/ K = DOMAIN file
  <2> SUFFICES ASSUME K # InitialOffset..(logEnd - 1) PROVE K = DOMAIN file
    OBVIOUS
  <2>2. DOMAIN file \subseteq K
    <3>1. PICK o \in K : logEnd <= o
      <4>1. PICK o \in K : o \notin InitialOffset..(logEnd - 1)
        BY <1>5
      <4>2. o \in Nat /\ InitialOffset <= o
        BY <1>1 DEF TypeOK
      <4> QED
        BY <1>a, <4>1, <4>2
    <3>2. ASSUME NEW q \in DOMAIN file, logEnd <= q PROVE q \in K
      <4>1. {b \in dir : b <= q} = {b \in dir : b <= o}
        <5>1. o \in Nat /\ q \in Nat
          BY <1>1, <1>a
        <5>2. \A b \in dir : b <= o /\ b <= q
          BY <1>a, <3>1, <3>2, <5>1 DEF DirShape
        <5> QED
          BY <5>2
      <4>2. SegmentOf(q) = SegmentOf(o)
        BY <4>1 DEF SegmentOf
      <4>3. file[q] = file[o]
        BY <1>1, <3>1, <3>2 DEF FileShape
      <4> QED
        BY <1>1, <3>1, <4>2, <4>3 DEF Survives
    <3>3. \A q \in DOMAIN file : q \in InitialOffset..(logEnd - 1) \/ logEnd <= q
      BY <1>a DEF TypeOK
    <3> QED
      BY <1>1, <1>5, <3>2, <3>3
  <2> QED
    BY <1>1, <2>2
<1>7. DOMAIN file' = K /\ \A o \in K : file'[o] = file[o]
  BY <1>1 DEF Restrict
<1>8. FileShape'
  <2>1. Whole(logEnd)' \/ Whole(logEnd + writer.n)'
    <3>1. Whole(logEnd) \/ Whole(logEnd + writer.n)
      BY DEF FileShape
    <3> QED
      BY <1>2, <1>6, <1>7, <3>1 DEF Whole
  <2>2. writer.step \notin {"sync", "failed"} => Whole(logEnd)'
    BY <1>2, <1>6, <1>7 DEF FileShape, Whole
  <2>3. \A o \in DOMAIN file' : logEnd <= o => file'[o] = writer'.id
    BY <1>1, <1>2, <1>7 DEF FileShape
  <2> QED
    BY <1>2, <2>1, <2>2, <2>3 DEF FileShape
<1>9. AckedIntact' /\ AckedBelowEnd' /\ RefusedShape'
  BY <1>2, <1>5, <1>7 DEF AckedIntact, AckedBelowEnd, RefusedShape, Span, TypeOK, Batches
<1>10. DirShape'
  <2>1. CASE dir = {}
    BY <1>1, <1>2, <2>1 DEF DirShape
  <2>2. CASE dir # {}
    <3>1. InitialOffset \in dir /\ \A b \in dir : InitialOffset <= b /\ b <= logEnd
      BY <2>2 DEF DirShape, TypeOK
    <3>2. writer.step # "idle" => InitialOffset \in dirSynced
      BY DEF DirShape, FoundDurable
    <3>3. InitialOffset \in D \/ InitialOffset = logEnd
      BY <1>1, <1>3, <3>1
    <3>4. ASSUME NEW b \in D PROVE InitialOffset \in D
      <4>1. b \in Nat /\ InitialOffset <= b /\ b <= logEnd
        BY <1>1, <1>a, <3>1
      <4> QED
        BY <1>a, <3>3, <4>1
    <3> QED
      BY <1>1, <1>2, <3>1, <3>2, <3>3, <3>4 DEF DirShape
  <2> QED
    BY <2>1, <2>2
<1>11. SyncShape'
  BY <1>1, <1>2, <1>7 DEF SyncShape
<1> QED
  BY <1>8, <1>9, <1>10, <1>11

\* Every step of appendEncodedLocked, Close, a crash and openPartition keeps
\* the inductive invariant; one step of the proof for each action.
LEMMA InvStep ==
    ASSUME IInv, [SafeNext]_vars
    PROVE  IInv'
<1>0. TypeOK' /\ WriterShape'
  BY TypeStep DEF IInv, SafeNext, Next
<1> USE ConstantsAssumption DEF IInv, Idle, disk, process, history
<1>1. ASSUME NEW n \in 1..BatchRecords, BeginAppend(n) PROVE IInv'
  <2>1. Active \in segments /\ InitialOffset <= Active /\ Active <= logEnd
    BY <1>1, ActiveExists DEF BeginAppend
  <2>2. FileShape'
    BY <1>1 DEF BeginAppend, FileShape, Whole, WriterShape, TypeOK
  <2>3. DirShape'
    BY <1>1, <2>1 DEF BeginAppend, DirShape, TypeOK
  <2>4. AckedIntact' /\ AckedBelowEnd' /\ SyncShape' /\ RefusedShape'
    BY <1>1 DEF BeginAppend, AckedIntact, AckedBelowEnd, SyncShape, RefusedShape
  <2> QED
    BY <1>0, <2>2, <2>3, <2>4
<1>2. CASE RollRename
  <2>1. /\ writer' = [writer EXCEPT !.step = "dirSync"] /\ dir' = dir \cup {logEnd}
        /\ writer.step = "roll"
        /\ UNCHANGED <<file, durable, tail, dirSynced, mode, segments, logEnd, acked,
                       found, foundDir>>
    BY <1>2 DEF RollRename
  <2>2. writer'.step = "dirSync" /\ writer'.n = writer.n /\ writer'.id = writer.id
    BY <2>1 DEF TypeOK
  <2>3. mode = "open" /\ dir # {}
    BY <2>1 DEF WriterShape, DirShape, TypeOK
  <2>4. AckedIntact' /\ FileShape' /\ AckedBelowEnd' /\ RefusedShape'
    BY <2>1, <2>2 DEF AckedIntact, FileShape, Whole, AckedBelowEnd, RefusedShape
  <2>5. DirShape'
    BY <2>1, <2>2, <2>3 DEF DirShape, TypeOK
  <2>6. SyncShape'
    BY <2>1, <2>2, <2>3 DEF SyncShape
  <2> QED
    BY <1>0, <2>4, <2>5, <2>6
<1>3. CASE RollSync
  BY <1>0, <1>3 DEF RollSync, AckedIntact, FileShape, Whole, DirShape,
     AckedBelowEnd, SyncShape, RefusedShape, TypeOK, WriterShape
<1>4. CASE RollFails
  BY <1>0, <1>4 DEF RollFails, FailAppend, AckedIntact, FileShape, Whole, DirShape,
     AckedBelowEnd, SyncShape, RefusedShape, TypeOK, WriterShape
<1>5. CASE WriteBatch
  <2>1. Whole(logEnd) /\ mode = "open" /\ writer.n \in Nat /\ logEnd \in Nat
    BY <1>5 DEF WriteBatch, FileShape, WriterShape, TypeOK
  <2>2. /\ DOMAIN file' = InitialOffset..(logEnd + writer.n - 1)
        /\ \A o \in DOMAIN file' : file'[o] = IF logEnd <= o THEN writer.id ELSE file[o]
    <3>1. file' = [o \in (DOMAIN file) \cup (logEnd..(logEnd + writer.n - 1)) |->
                     IF o \in logEnd..(logEnd + writer.n - 1) THEN writer.id ELSE file[o]]
      BY <1>5 DEF WriteBatch, Extend, Span
    <3>2. DOMAIN file = InitialOffset..(logEnd - 1) /\ InitialOffset <= logEnd
      BY <2>1 DEF Whole, TypeOK
    <3>3. DOMAIN file' = InitialOffset..(logEnd + writer.n - 1)
      BY <2>1, <3>1, <3>2
    <3> QED
      BY <2>1, <3>1, <3>2, <3>3
  <2>3. /\ writer' = [writer EXCEPT !.step = "sync"]
        /\ UNCHANGED <<durable, tail, dir, dirSynced, mode, segments, logEnd, acked,
                       found, foundDir>>
    BY <1>5 DEF WriteBatch
  <2>4. writer'.step = "sync" /\ writer'.n = writer.n /\ writer'.id = writer.id
    BY <2>3 DEF TypeOK
  <2>5. FileShape'
    BY <2>1, <2>2, <2>3, <2>4 DEF FileShape, Whole
  <2>6. AckedIntact'
    <3> SUFFICES ASSUME NEW b \in acked, NEW o \in Span(b.base, b.n)
                 PROVE  o \in DOMAIN file' /\ file'[o] = b.id
      BY <2>3 DEF AckedIntact
    <3>1. o \in DOMAIN file /\ file[o] = b.id
      BY DEF AckedIntact
    <3>2. b.base \in Int /\ b.n \in Int /\ b.base + b.n <= logEnd
      BY DEF AckedBelowEnd, TypeOK, Batches
    <3>3. o < logEnd
      BY <2>1, <3>2 DEF Span
    <3> QED
      BY <2>1, <2>2, <3>1, <3>3 DEF Whole
  <2>7. DirShape' /\ AckedBelowEnd' /\ RefusedShape'
    BY <2>1, <2>3, <2>4 DEF DirShape, AckedBelowEnd, RefusedShape
  <2>8. SyncShape'
    BY <1>5, <2>1, <2>2, <2>3, <2>4 DEF WriteBatch, SyncShape, Whole
  <2> QED
    BY <1>0, <2>5, <2>6, <2>7, <2>8
<1>6. CASE WriteFails
  BY <1>0, <1>6 DEF WriteFails, FailAppend, AckedIntact, FileShape, Whole, DirShape,
     AckedBelowEnd, SyncShape, RefusedShape, TypeOK, WriterShape
<1>7. CASE SyncBatch
  <2>1. Active <= logEnd /\ Active \in Nat
    <3>1. mode = "open"
      BY <1>7 DEF SyncBatch, WriterShape
    <3>2. Active \in segments /\ Active <= logEnd
      BY <3>1, ActiveExists
    <3> QED
      BY <3>2 DEF TypeOK
  <2>2. /\ Whole(logEnd + writer.n) /\ mode = "open" /\ writer.n \in Nat /\ logEnd \in Nat
        /\ \A o \in DOMAIN file : logEnd <= o => file[o] = writer.id
    BY <1>7 DEF SyncBatch, FileShape, WriterShape, TypeOK
  <2>3. /\ logEnd' = logEnd + writer.n /\ writer'.step = "idle"
        /\ acked' = acked \cup {[id |-> writer.id, base |-> logEnd, n |-> writer.n]}
        /\ UNCHANGED <<file, tail, dir, dirSynced, mode, segments, found, foundDir>>
    BY <1>7 DEF SyncBatch
  <2>4. FileShape'
    BY <2>2, <2>3 DEF FileShape, Whole
  <2>5. AckedIntact'
    <3> SUFFICES ASSUME NEW b \in acked', NEW o \in Span(b.base, b.n)
                 PROVE  o \in DOMAIN file /\ file[o] = b.id
      BY <2>3 DEF AckedIntact
    <3>1. CASE b \in acked
      BY <3>1 DEF AckedIntact
    <3>2. CASE b = [id |-> writer.id, base |-> logEnd, n |-> writer.n]
      <4>1. o \in logEnd..(logEnd + writer.n - 1)
        BY <3>2 DEF Span
      <4> QED
        BY <2>2, <3>2, <4>1 DEF Whole, TypeOK
    <3> QED
      BY <2>3, <3>1, <3>2
  <2>6. AckedBelowEnd'
    BY <2>2, <2>3 DEF AckedBelowEnd, TypeOK, Batches
  <2>7. DirShape' /\ RefusedShape'
    BY <2>2, <2>3 DEF DirShape, RefusedShape, TypeOK
  <2>8. SyncShape'
    <3>1. durable' = durable \cup {o \in DOMAIN file : Active <= o}
      BY <1>7 DEF SyncBatch
    <3>2. \A o \in DOMAIN file : o \in durable' \cup found
      BY <2>1, <2>2, <3>1 DEF SyncShape, TypeOK
    <3>3. dir \subseteq dirSynced \cup foundDir
      BY <1>7, <2>2 DEF SyncBatch, SyncShape
    <3> QED
      BY <2>3, <3>1, <3>2, <3>3 DEF SyncShape
  <2> QED
    BY <1>0, <2>4, <2>5, <2>6, <2>7, <2>8
<1>8. CASE SyncFails
  BY <1>0, <1>8 DEF SyncFails, FailAppend, AckedIntact, FileShape, Whole, DirShape,
     AckedBelowEnd, SyncShape, RefusedShape, TypeOK, WriterShape
<1>9. CASE FetchFences
  BY <1>0, <1>9 DEF FetchFences, AckedIntact, FileShape, Whole, DirShape,
     AckedBelowEnd, SyncShape, RefusedShape
<1>10. CASE Close
  BY <1>0, <1>10 DEF Close, Down, AckedIntact, FileShape, Whole, DirShape,
     AckedBelowEnd, SyncShape, RefusedShape, TypeOK, WriterShape
<1>11. CASE ProcessCrash
  BY <1>0, <1>11 DEF ProcessCrash, Down, AckedIntact, FileShape, Whole, DirShape,
     AckedBelowEnd, SyncShape, RefusedShape, TypeOK, WriterShape
<1>12. CASE FoundDurable /\ PowerLoss
  BY <1>0, <1>12, PowerLossStep
<1>13. CASE OpenFresh
  <2>1. Whole(InitialOffset) /\ logEnd = InitialOffset
    BY <1>13 DEF OpenFresh, DirShape, FileShape
  <2>2. /\ logEnd' = logEnd /\ writer'.step = "idle" /\ mode' = "open"
        /\ segments' = {InitialOffset} /\ dir' = {InitialOffset} /\ dirSynced' = dir'
        /\ found' = DOMAIN file /\ foundDir' = {InitialOffset}
        /\ UNCHANGED <<file, durable, acked>>
    BY <1>13, <2>1 DEF OpenFresh, Up
  <2>3. FileShape'
    BY <2>1, <2>2 DEF FileShape, Whole
  <2>4. AckedIntact' /\ DirShape' /\ AckedBelowEnd' /\ RefusedShape'
    BY <2>1, <2>2 DEF AckedIntact, DirShape, AckedBelowEnd, RefusedShape
  <2>5. SyncShape'
    BY <2>2 DEF SyncShape
  <2> QED
    BY <1>0, <2>3, <2>4, <2>5
<1>14. CASE OpenFreshFails
  BY <1>0, <1>14 DEF OpenFreshFails, AckedIntact, FileShape, Whole, DirShape,
     AckedBelowEnd, SyncShape, RefusedShape
<1>15. ASSUME NEW syncsDir \in BOOLEAN, OpenRecovers(syncsDir) PROVE IInv'
  <2>1. writer.step \in {"idle", "failed"} /\ mode = "closed" /\ InitialOffset \in dir
    BY <1>15 DEF OpenRecovers, Contiguous, WriterShape, TypeOK, Steps
  <2>2. PICK h \in InitialOffset..MaxOffset : Whole(h) /\ logEnd <= h
    BY <2>1 DEF FileShape, WriterShape, TypeOK
  <2>3. RecoveredEnd = h
    BY <2>2, RecoveredEndIsEnd
  <2>4. /\ logEnd' = h /\ writer'.step = "idle" /\ mode' = "open" /\ segments' = dir
        /\ found' = DOMAIN file /\ foundDir' = dir
        /\ UNCHANGED <<file, dir, acked>>
    BY <1>15, <2>3 DEF OpenRecovers, Up
  <2>5. FileShape'
    BY <2>2, <2>4 DEF FileShape, Whole
  <2>6. AckedIntact'
    BY <2>4 DEF AckedIntact
  <2>7. DirShape' /\ AckedBelowEnd' /\ RefusedShape'
    BY <2>1, <2>2, <2>4 DEF DirShape, AckedBelowEnd, RefusedShape, TypeOK, Batches
  <2>8. SyncShape'
    BY <2>4 DEF SyncShape
  <2> QED
    BY <1>0, <2>5, <2>6, <2>7, <2>8
<1>16. CASE OpenRefuses
  <2>1. writer.step \in {"idle", "failed"} /\ InitialOffset \in dir
    BY <1>16 DEF OpenRefuses, WriterShape, DirShape, TypeOK, Steps
  <2>2. PICK h \in InitialOffset..MaxOffset : Whole(h) /\ logEnd <= h
    BY <2>1 DEF FileShape, WriterShape, TypeOK
  <2>3. \A b \in dir : b <= h
    BY <2>2 DEF DirShape, TypeOK
  <2>4. Contiguous
    BY <2>1, <2>2, <2>3 DEF Contiguous, Whole
  <2>5. RefusedShape'
    BY <1>16, <2>4 DEF OpenRefuses, RefusedShape, canTruncateTail, TypeOK, Tails
  <2> QED
    BY <1>0, <1>16, <2>5 DEF OpenRefuses, AckedIntact, FileShape, Whole, DirShape,
       AckedBelowEnd, SyncShape
<1>17. CASE UNCHANGED vars
  BY <1>0, <1>17 DEF vars, AckedIntact, FileShape, Whole, DirShape,
     AckedBelowEnd, SyncShape, RefusedShape
<1> QED
  BY <1>1, <1>2, <1>3, <1>4, <1>5, <1>6, <1>7, <1>8, <1>9, <1>10, <1>11,
     <1>12, <1>13, <1>14, <1>15, <1>16, <1>17 DEF SafeNext, Proceed

-----------------------------------------------------------------------------
(* The theorems.                                                           *)

\* The inductive invariant holds in every reachable state.
LEMMA InvAlways == SafeSpec => []IInv
<1>1. Init => IInv
  BY InvInit
<1>2. IInv /\ [SafeNext]_vars => IInv'
  BY InvStep
<1> QED
  BY <1>1, <1>2, PTL DEF SafeSpec

\* An acknowledged append is never lost or altered, for any segment and batch
\* size and any number of appends, rolls, failures, crashes and reopenings:
\* appendEncodedLocked syncs the batch and createSegment the directory before
\* success is returned, and recoverSegment cuts only bytes behind it.
THEOREM AcknowledgedAppendsSurvive == SafeSpec => []AckedIntact
<1>1. IInv => AckedIntact
  BY DEF IInv
<1> QED
  BY <1>1, InvAlways, PTL

\* openPartition finds a contiguous chain after every crash; it refuses only
\* bytes of a torn write that canTruncateTail may not cut.
THEOREM RecoveryFindsChain == SafeSpec => []RefusesOnlyTornBytes
<1>1. IInv => RefusesOnlyTornBytes
  <2> SUFFICES ASSUME IInv, mode = "refused"
               PROVE  Contiguous /\ tail \in {"partialHeader", "badBatch"}
    BY DEF RefusesOnlyTornBytes
  <2>1. writer.step \in {"idle", "failed"} /\ InitialOffset \in dir
    BY DEF IInv, WriterShape, DirShape, TypeOK, Steps
  <2>2. PICK h \in InitialOffset..MaxOffset : Whole(h) /\ logEnd <= h
    BY <2>1, ConstantsAssumption DEF IInv, FileShape, WriterShape, TypeOK
  <2>3. \A b \in dir : b <= h
    BY <2>2, ConstantsAssumption DEF IInv, DirShape, TypeOK
  <2> QED
    BY <2>1, <2>2, <2>3 DEF IInv, Contiguous, Whole, RefusedShape
<1> QED
  BY <1>1, InvAlways, PTL

\* H never goes back: recovery computes at least the H the partition had when
\* it went down, so no offset is given out twice.
THEOREM EndIsMonotonic == SafeSpec => EndNeverRegresses
<1>1. ASSUME IInv, [SafeNext]_vars PROVE [logEnd' >= logEnd]_vars
  <2>1. logEnd \in Nat /\ writer.n \in Nat
    BY ConstantsAssumption, <1>1 DEF IInv, TypeOK
  <2> SUFFICES ASSUME SafeNext, ~UNCHANGED logEnd PROVE logEnd' >= logEnd
    BY <1>1, <2>1 DEF vars, process
  <2> USE DEF disk, process, history
  <2>2. SyncBatch \/ OpenFresh \/ (\E syncsDir \in BOOLEAN : OpenRecovers(syncsDir))
    BY DEF SafeNext, Proceed, BeginAppend, RollRename, RollSync, RollFails, FailAppend, WriteBatch,
       WriteFails, SyncFails, FetchFences, Close, ProcessCrash, PowerLoss, Down,
       OpenFreshFails, OpenRefuses
  <2>3. CASE SyncBatch
    BY <2>1, <2>3 DEF SyncBatch
  <2>4. CASE OpenFresh
    BY <1>1, <2>1, <2>4 DEF OpenFresh, Up, IInv, DirShape
  <2>5. ASSUME NEW syncsDir \in BOOLEAN, OpenRecovers(syncsDir) PROVE logEnd' >= logEnd
    <3>1. PICK h \in InitialOffset..MaxOffset : Whole(h) /\ logEnd <= h
      BY <1>1, <2>5, ConstantsAssumption
      DEF OpenRecovers, IInv, FileShape, WriterShape, TypeOK
    <3>2. RecoveredEnd = h
      BY <3>1, RecoveredEndIsEnd
    <3> QED
      BY <2>1, <2>5, <3>1, <3>2, ConstantsAssumption DEF OpenRecovers, Up
  <2> QED
    BY <2>2, <2>3, <2>4, <2>5
<1>2. IInv /\ [SafeNext]_vars => [logEnd' >= logEnd]_vars
  BY <1>1
<1> QED
  BY <1>2, InvAlways, PTL DEF SafeSpec, EndNeverRegresses

\* While the partition is fenced no append is under way.
FenceShape == mode = "open" /\ unavailable => writer.step \in {"idle", "failed"}

\* After any failed append, and after a failed read, the partition changes no
\* byte on disk and gives out no offset until it is closed: every path through
\* appendEncodedLocked starts at the check of p.unavailable.
THEOREM FenceHolds == Spec => FencedWritesNothing
<1> DEFINE T == TypeOK /\ WriterShape /\ FenceShape
<1>1. Init => T
  BY TypeInit DEF Init, FenceShape
<1>2. T /\ [Next]_vars => T'
  <2> SUFFICES ASSUME T, [Next]_vars PROVE FenceShape'
    BY TypeStep
  <2> QED
    BY DEF FenceShape, WriterShape, TypeOK, Steps, Idle, Next, Proceed, vars, disk, process, history,
       BeginAppend, RollRename, RollSync, RollFails, FailAppend, WriteBatch,
       WriteFails, SyncBatch, SyncFails, FetchFences, Close, ProcessCrash, PowerLoss, Down,
       OpenFresh, OpenFreshFails, OpenRecovers, OpenRefuses, Up
<1>3. T /\ [Next]_vars =>
        [unavailable /\ mode = "open" /\ mode' = "open" =>
           unavailable' /\ UNCHANGED <<disk, logEnd, acked, segments>>]_vars
  BY DEF FenceShape, WriterShape, TypeOK, Steps, Next, Proceed, vars, disk, process, history,
     BeginAppend, RollRename, RollSync, RollFails, FailAppend, WriteBatch,
     WriteFails, SyncBatch, SyncFails, FetchFences, Close, ProcessCrash, PowerLoss, Down,
     OpenFresh, OpenFreshFails, OpenRecovers, OpenRefuses, Up
<1> QED
  BY <1>1, <1>2, <1>3, PTL DEF Spec, FencedWritesNothing

-----------------------------------------------------------------------------
(* The segment bound, whatever the faults.                                 *)

\* Every record lies within the limit of some segment, and so will the batch
\* about to be written.
SizeShape ==
    /\ \A o \in DOMAIN file : \E b \in dir : b <= o /\ o < b + SegmentBytes
    /\ writer.step = "write" =>
         \E b \in dir : b <= logEnd /\ logEnd + writer.n <= b + SegmentBytes
    /\ mode = "open" => segments # {} /\ \A b \in segments : b <= logEnd

\* With batches no larger than a segment, every step keeps SizeShape: an append
\* that does not fit rolls first, and recovery adds nothing.
LEMMA SizeStep ==
    ASSUME BatchRecords <= SegmentBytes, TypeOK, WriterShape, SizeShape, [Next]_vars
    PROVE  SizeShape'
<1> USE ConstantsAssumption DEF disk, process, history
<1>0. /\ logEnd \in Nat /\ writer.n \in Nat /\ DOMAIN file \subseteq Nat
      /\ dir \subseteq Nat /\ segments \subseteq dir
  BY DEF TypeOK
<1>1. ASSUME NEW n \in 1..BatchRecords, BeginAppend(n) PROVE SizeShape'
  <2>1. Active \in segments
    <3>1. segments \subseteq InitialOffset..MaxOffset /\ segments # {}
      BY <1>1 DEF BeginAppend, SizeShape, TypeOK
    <3> QED
      BY <3>1, MaxIsGreatest DEF Active
  <2>2. Active \in dir /\ Active <= logEnd
    BY <1>0, <1>1, <2>1 DEF BeginAppend, SizeShape
  <2>3. writer'.step = "write" => Active + SegmentBytes >= logEnd + writer'.n
    BY <1>0, <1>1, <2>2 DEF BeginAppend
  <2> QED
    BY <1>1, <2>2, <2>3 DEF BeginAppend, SizeShape
<1>2. CASE RollRename
  BY <1>2 DEF RollRename, SizeShape, TypeOK
<1>3. CASE RollSync
  <2>1. logEnd \in dir /\ logEnd + writer.n <= logEnd + SegmentBytes
    BY <1>0, <1>3 DEF RollSync, WriterShape
  <2> QED
    BY <1>0, <1>3, <2>1 DEF RollSync, SizeShape, TypeOK
<1>4. CASE WriteBatch
  <2>1. PICK b \in dir : b <= logEnd /\ logEnd + writer.n <= b + SegmentBytes
    BY <1>4 DEF WriteBatch, SizeShape
  <2>2. DOMAIN file' = DOMAIN file \cup logEnd..(logEnd + writer.n - 1)
    BY <1>4 DEF WriteBatch, Extend, Span
  <2>3. \A o \in logEnd..(logEnd + writer.n - 1) : b <= o /\ o < b + SegmentBytes
    BY <1>0, <2>1
  <2>4. writer'.step = "sync" /\ UNCHANGED <<dir, mode, segments, logEnd>>
    BY <1>4 DEF WriteBatch, TypeOK
  <2> QED
    BY <2>2, <2>3, <2>4 DEF SizeShape
<1>5. CASE SyncBatch
  <2>1. \A b \in segments : b <= logEnd => b <= logEnd + writer.n
    BY <1>0
  <2> QED
    BY <1>5, <2>1 DEF SyncBatch, Idle, SizeShape
<1>6. CASE RollFails \/ WriteFails \/ SyncFails \/ FetchFences
  BY <1>6 DEF RollFails, WriteFails, SyncFails, FetchFences, FailAppend, SizeShape, TypeOK
<1>7. CASE Close \/ ProcessCrash
  BY <1>7 DEF Close, ProcessCrash, Down, SizeShape, TypeOK
<1>8. CASE PowerLoss
  <2>1. PICK D \in SUBSET dir, K \in SUBSET DOMAIN file :
          Survives(K, D) /\ file' = Restrict(file, K) /\ dir' = D
    BY <1>8 DEF PowerLoss
  <2>2. writer'.step # "write" /\ mode' = "closed"
    BY <1>8 DEF PowerLoss, Down, TypeOK
  <2>3. DOMAIN file' = K
    BY <2>1 DEF Restrict
  <2>4. ASSUME NEW o \in K PROVE \E b \in D : b <= o /\ o < b + SegmentBytes
    <3>1. PICK b \in dir : b <= o /\ o < b + SegmentBytes
      BY <2>1 DEF SizeShape
    <3> DEFINE S == {c \in dir : c <= o}
    <3>2. S \subseteq InitialOffset..MaxOffset /\ b \in S
      BY <3>1 DEF TypeOK
    <3>3. Max(S) \in S /\ b <= Max(S)
      BY <3>2, MaxIsGreatest
    <3>4. SegmentOf(o) \in D /\ SegmentOf(o) = Max(S)
      BY <2>1 DEF Survives, SegmentOf
    <3>5. b \in Nat /\ o \in Nat /\ Max(S) \in Nat
      BY <1>0, <2>1, <3>3
    <3>6. Max(S) <= o /\ o < Max(S) + SegmentBytes
      BY <3>1, <3>3, <3>5
    <3> QED
      BY <3>4, <3>6
  <2> QED
    BY <2>1, <2>2, <2>3, <2>4 DEF SizeShape
<1>9. CASE OpenFresh \/ OpenFreshFails
  BY <1>9 DEF OpenFresh, OpenFreshFails, Up, Idle, SizeShape, TypeOK, WriterShape
<1>10. ASSUME NEW syncsDir \in BOOLEAN, OpenRecovers(syncsDir) PROVE SizeShape'
  <2>1. PICK h \in InitialOffset..MaxOffset : Whole(h) /\ \A b \in dir : b <= h
    BY <1>10 DEF OpenRecovers, Contiguous, Whole
  <2>2. RecoveredEnd = h
    BY <2>1, RecoveredEndIsEnd
  <2>3. /\ logEnd' = h /\ segments' = dir /\ dir # {} /\ writer'.step = "idle"
        /\ UNCHANGED <<file, dir>>
    BY <1>10, <2>2 DEF OpenRecovers, Contiguous, Up, Idle
  <2> QED
    BY <2>1, <2>3 DEF SizeShape
<1>11. CASE OpenRefuses \/ UNCHANGED vars
  BY <1>11 DEF OpenRefuses, vars, SizeShape
<1> QED
  BY <1>1, <1>2, <1>3, <1>4, <1>5, <1>6, <1>7, <1>8, <1>9, <1>10, <1>11 DEF Next, Proceed

\* No segment outgrows SegmentBytes, under every fault, as long as the batch
\* limit does not exceed it: the size check of appendEncodedLocked looks at the
\* old segment only, and that is enough just then (PartitionLogOversize.cfg).
THEOREM SegmentsStayBounded ==
    ASSUME BatchRecords <= SegmentBytes PROVE Spec => []SegmentBound
<1> DEFINE T == TypeOK /\ WriterShape /\ SizeShape
<1>1. Init => T
  BY TypeInit DEF Init, Idle, SizeShape
<1>2. T /\ [Next]_vars => T'
  BY TypeStep, SizeStep
<1>3. T => SegmentBound
  <2> SUFFICES ASSUME T, NEW b \in segments
               PROVE  Cardinality({o \in DOMAIN file : SegmentOf(o) = b}) <= SegmentBytes
    BY DEF SegmentBound
  <2> DEFINE S == {o \in DOMAIN file : SegmentOf(o) = b}
             I == b..(b + SegmentBytes - 1)
  <2>1. b \in Nat /\ SegmentBytes \in Nat \ {0}
    BY ConstantsAssumption DEF TypeOK
  <2>2. ASSUME NEW o \in S PROVE o \in I
    <3>1. PICK c \in dir : c <= o /\ o < c + SegmentBytes
      BY DEF SizeShape
    <3> DEFINE B == {d \in dir : d <= o}
    <3>2. B \subseteq InitialOffset..MaxOffset /\ c \in B
      BY <3>1 DEF TypeOK
    <3>3. Max(B) \in B /\ c <= Max(B)
      BY <3>2, MaxIsGreatest, ConstantsAssumption
    <3>4. b = Max(B)
      BY DEF SegmentOf
    <3>5. o \in Nat /\ c \in Nat
      BY <3>1, ConstantsAssumption DEF TypeOK
    <3> QED
      BY <2>1, <3>1, <3>3, <3>4, <3>5
  <2>3. IsFiniteSet(I) /\ Cardinality(I) = SegmentBytes
    BY <2>1, FS_Interval
  <2>4. S \subseteq I
    BY <2>2
  <2> QED
    BY <2>3, <2>4, FS_Subset
<1> QED
  BY <1>1, <1>2, <1>3, PTL DEF Spec

-----------------------------------------------------------------------------
(* Refinement: the write path implements the abstract append-only log.     *)

\* The records below H are all there, and are those of the abstract log.
LEMMA ReadableWhole ==
    ASSUME IInv
    PROVE  /\ InitialOffset..(logEnd - 1) \subseteq DOMAIN file
           /\ Readable = [o \in InitialOffset..(logEnd - 1) |-> file[o]]
<1>1. InitialOffset..(logEnd - 1) \subseteq DOMAIN file
  <2>1. FileShape /\ logEnd \in Nat /\ writer.n \in Nat
    BY ConstantsAssumption DEF IInv, TypeOK
  <2>2. \/ DOMAIN file = InitialOffset..(logEnd - 1)
        \/ DOMAIN file = InitialOffset..(logEnd + writer.n - 1)
    BY <2>1 DEF FileShape, Whole
  <2> QED
    BY ConstantsAssumption, <2>1, <2>2
<1> QED
  BY <1>1 DEF Readable

\* The abstract log ends at H.
LEMMA AbstractEnd == ASSUME TypeOK PROVE Log!End = logEnd
<1> USE ConstantsAssumption
<1>1. logEnd \in InitialOffset..MaxOffset /\ DOMAIN Readable = InitialOffset..(logEnd - 1)
  BY DEF TypeOK, Readable
<1>2. CASE logEnd = InitialOffset
  BY <1>1, <1>2 DEF Log!End
<1>3. CASE logEnd # InitialOffset
  <2> DEFINE S == DOMAIN Readable
  <2>1. S \subseteq InitialOffset..MaxOffset /\ S # {} /\ logEnd - 1 \in S
    BY <1>1, <1>3
  <2>2. Max(S) \in S /\ \A y \in S : y <= Max(S)
    BY <2>1, MaxIsGreatest
  <2>3. Max(S) = logEnd - 1
    BY <1>1, <2>1, <2>2
  <2>4. Log!Max(S) = Max(S)
    BY DEF Log!Max, Max
  <2>5. Log!End = Log!Max(S) + 1
    BY <2>1 DEF Log!End
  <2> QED
    BY <1>1, <2>3, <2>4, <2>5
<1> QED
  BY <1>2, <1>3

\* A step that keeps H and the records below it is a stutter of the log.
LEMMA SameReadable ==
    ASSUME IInv, IInv', logEnd' = logEnd,
           \A o \in InitialOffset..(logEnd - 1) : file'[o] = file[o]
    PROVE  Readable' = Readable
<1>1. InitialOffset..(logEnd - 1) \subseteq DOMAIN file
  BY ReadableWhole
<1>2. InitialOffset..(logEnd - 1) \subseteq DOMAIN file'
  <2>1. FileShape' /\ logEnd' \in Nat /\ writer'.n \in Nat
    BY ConstantsAssumption DEF IInv, TypeOK
  <2>2. \/ DOMAIN file' = InitialOffset..(logEnd' - 1)
        \/ DOMAIN file' = InitialOffset..(logEnd' + writer'.n - 1)
    BY <2>1 DEF FileShape, Whole
  <2> QED
    BY ConstantsAssumption, <2>1, <2>2
<1> QED
  BY <1>1, <1>2 DEF Readable

\* A step that moves H over the batch in doubt joins it to the log.
LEMMA JoinedReadable ==
    ASSUME IInv, IInv', logEnd' = logEnd + writer.n, UNCHANGED file, writer.step # "idle"
    PROVE  Readable' = Log!Joined
<1> USE ConstantsAssumption
<1>1. logEnd \in Nat /\ writer.n \in Nat /\ writer.n >= 1
  BY DEF IInv, TypeOK, WriterShape
<1>2. InitialOffset..(logEnd - 1) \subseteq DOMAIN file
  BY ReadableWhole
<1>3. InitialOffset..(logEnd + writer.n - 1) \subseteq DOMAIN file
  <2>1. FileShape' /\ logEnd' \in Nat /\ writer'.n \in Nat
    BY DEF IInv, TypeOK
  <2>2. \/ DOMAIN file' = InitialOffset..(logEnd' - 1)
        \/ DOMAIN file' = InitialOffset..(logEnd' + writer'.n - 1)
    BY <2>1 DEF FileShape, Whole
  <2>3. InitialOffset..(logEnd' - 1) \subseteq DOMAIN file'
    BY <2>1, <2>2
  <2>4. logEnd' - 1 = logEnd + writer.n - 1 /\ file' = file
    BY <1>1
  <2> QED
    BY <2>3, <2>4, Zenon
<1>4. \A o \in logEnd..(logEnd + writer.n - 1) : file[o] = writer.id
  BY <1>1, <1>3 DEF IInv, FileShape, TypeOK
<1>5. Log!End = logEnd
  BY AbstractEnd DEF IInv
<1>6. Log!Joined = [o \in (InitialOffset..(logEnd - 1)) \cup (logEnd..(logEnd + writer.n - 1)) |->
                      IF o \in InitialOffset..(logEnd - 1) THEN file[o] ELSE writer.id]
  BY <1>2, <1>5 DEF Log!Joined, Readable, Pending
<1>7. (InitialOffset..(logEnd - 1)) \cup (logEnd..(logEnd + writer.n - 1))
        = InitialOffset..(logEnd + writer.n - 1)
  BY <1>1 DEF IInv, TypeOK
<1>8. Readable' = [o \in InitialOffset..(logEnd + writer.n - 1) |-> file[o]]
  <2>1. Readable' = [o \in InitialOffset..(logEnd' - 1) |->
                       IF o \in DOMAIN file' THEN file'[o] ELSE 0]
    BY DEF Readable
  <2>2. InitialOffset..(logEnd' - 1) = InitialOffset..(logEnd + writer.n - 1)
    BY <1>1
  <2>3. \A o \in InitialOffset..(logEnd' - 1) :
          (IF o \in DOMAIN file' THEN file'[o] ELSE 0) = file[o]
    BY <1>3, <2>2
  <2> QED
    BY <2>1, <2>2, <2>3, Zenon
<1> QED
  BY <1>1, <1>4, <1>6, <1>7, <1>8

\* A partition that was never opened is the empty log.
LEMMA RefinementInit == Init => Log!AInit
<1> SUFFICES ASSUME Init PROVE Log!AInit
  OBVIOUS
<1>1. Readable = [o \in {} |-> 0]
  BY ConstantsAssumption DEF Init, Readable
<1>2. Pending = Log!None /\ AckedIds = {}
  BY DEF Init, Pending, Idle, Log!None, AckedIds
<1> QED
  BY <1>1, <1>2 DEF Log!AInit

\* Every step is a step of the abstract log or leaves it alone: only SyncBatch
\* and a recovery that finds the batch in doubt change it.
LEMMA RefinementStep ==
    ASSUME IInv, IInv', [SafeNext]_vars
    PROVE  [Log!ANext]_(Log!avars)
<1> USE ConstantsAssumption DEF disk, process, history
<1> DEFINE Stutters == Readable' = Readable /\ Pending' = Pending /\ AckedIds' = AckedIds
<1>0. Stutters => [Log!ANext]_(Log!avars)
  BY DEF Log!avars
<1> HIDE DEF Stutters
<1>1. ASSUME NEW n \in 1..BatchRecords, BeginAppend(n) PROVE Log!Start
  <2>1. Pending = Log!None
    BY <1>1 DEF BeginAppend, IInv, WriterShape, Idle, Pending, Log!None
  <2>2. Pending' \in [id : 1..MaxAppends, n : 1..BatchRecords]
    BY <1>1 DEF BeginAppend, Pending, IInv, TypeOK
  <2>3. Readable' = Readable /\ AckedIds' = AckedIds
    BY <1>1 DEF BeginAppend, Readable, AckedIds
  <2> QED
    BY <2>1, <2>2, <2>3 DEF Log!Start
<1>2. ASSUME RollRename \/ RollSync \/ RollFails \/ WriteFails \/ SyncFails
      PROVE  Stutters
  BY <1>2 DEF RollRename, RollSync, RollFails, WriteFails, SyncFails, FailAppend,
     Stutters, Readable, Pending, AckedIds, IInv, TypeOK
<1>3. ASSUME FetchFences \/ Close \/ ProcessCrash \/ OpenFreshFails \/ OpenRefuses
      PROVE  Stutters
  BY <1>3 DEF FetchFences, Close, ProcessCrash, Down, OpenFreshFails, OpenRefuses,
     Stutters, Readable, Pending, AckedIds, IInv, TypeOK
<1>4. ASSUME WriteBatch PROVE Stutters
  <2>1. \A o \in InitialOffset..(logEnd - 1) : file'[o] = file[o]
    <3>1. InitialOffset..(logEnd - 1) \subseteq DOMAIN file
      BY ReadableWhole
    <3>2. logEnd \in Nat /\ writer.n \in Nat
      BY DEF IInv, TypeOK
    <3> QED
      BY <1>4, <3>1, <3>2 DEF WriteBatch, Extend, Span
  <2>2. logEnd' = logEnd /\ Pending' = Pending /\ AckedIds' = AckedIds
    BY <1>4 DEF WriteBatch, Pending, AckedIds, IInv, TypeOK
  <2> QED
    BY <2>1, <2>2, SameReadable DEF Stutters
<1>5. ASSUME SyncBatch PROVE Log!Acknowledge
  <2>1. Pending # Log!None
    BY <1>5 DEF SyncBatch, IInv, WriterShape, Pending, Log!None
  <2>2. Readable' = Log!Joined
    BY <1>5, JoinedReadable DEF SyncBatch
  <2>3. Pending' = Log!None
    BY <1>5 DEF SyncBatch, Idle, Pending, Log!None
  <2>4. AckedIds' = AckedIds \cup {Pending.id}
    <3> DEFINE new == [id |-> writer.id, base |-> logEnd, n |-> writer.n]
    <3>1. acked' = acked \cup {new} /\ new.id = Pending.id
      BY <1>5 DEF SyncBatch, Pending
    <3> HIDE DEF new
    <3> QED
      BY <3>1 DEF AckedIds
  <2> QED
    BY <2>1, <2>2, <2>3, <2>4 DEF Log!Acknowledge
<1>6. ASSUME PowerLoss PROVE Stutters
  <2>1. \A o \in InitialOffset..(logEnd - 1) : file'[o] = file[o]
    <3>1. PICK K \in SUBSET DOMAIN file : file' = Restrict(file, K)
      BY <1>6 DEF PowerLoss
    <3>2. InitialOffset..(logEnd - 1) \subseteq DOMAIN file'
      BY <1>6 DEF PowerLoss, Down, IInv, FileShape, Whole, TypeOK
    <3> QED
      BY <3>1, <3>2 DEF Restrict
  <2>2. logEnd' = logEnd /\ Pending' = Pending /\ AckedIds' = AckedIds
    BY <1>6 DEF PowerLoss, Down, Pending, AckedIds, IInv, TypeOK
  <2> QED
    BY <2>1, <2>2, SameReadable DEF Stutters
<1>7. ASSUME OpenFresh PROVE Stutters
  BY <1>7 DEF OpenFresh, Up, IInv, DirShape, WriterShape, Idle,
     Stutters, Readable, Pending, AckedIds
<1>8. ASSUME NEW syncsDir \in BOOLEAN, OpenRecovers(syncsDir)
      PROVE  Stutters \/ Log!Resolve
  <2>1. /\ logEnd' = RecoveredEnd /\ Pending' = Log!None
        /\ UNCHANGED file /\ AckedIds' = AckedIds
    BY <1>8 DEF OpenRecovers, Up, Idle, Pending, Log!None, AckedIds
  <2>2. CASE Whole(logEnd)
    <3>1. logEnd' = logEnd
      BY <2>1, <2>2, RecoveredEndIsEnd DEF IInv, TypeOK
    <3>2. Readable' = Readable
      BY <2>1, <3>1 DEF Readable
    <3> QED
      BY <2>1, <3>2 DEF Log!Resolve, Stutters
  <2>3. CASE ~Whole(logEnd)
    <3>1. /\ writer.step # "idle" /\ Whole(logEnd + writer.n)
          /\ logEnd + writer.n \in InitialOffset..MaxOffset
      BY <2>3 DEF IInv, FileShape, WriterShape, TypeOK
    <3>2. logEnd' = logEnd + writer.n
      BY <2>1, <3>1, RecoveredEndIsEnd
    <3>3. Readable' = Log!Joined
      BY <2>1, <3>1, <3>2, JoinedReadable
    <3>4. Pending # Log!None
      BY <3>1 DEF IInv, WriterShape, Pending, Log!None
    <3> QED
      BY <2>1, <3>3, <3>4 DEF Log!Resolve
  <2> QED
    BY <2>2, <2>3
<1>9. ASSUME UNCHANGED vars PROVE Stutters
  BY <1>9 DEF vars, Stutters, Readable, Pending, AckedIds
<1> QED
  BY <1>0, <1>1, <1>2, <1>3, <1>4, <1>5, <1>6, <1>7, <1>8, <1>9 DEF SafeNext, Proceed, Log!ANext

\* Appending, rolling, failing, crashing and recovering together are one
\* append-only log: batches join it whole, at the end, at most once; nothing
\* in it changes; and only a batch that is in it was acknowledged.
THEOREM PartitionIsAppendLog == SafeSpec => ImplementsAppendLog
<1>1. Init => Log!AInit
  BY RefinementInit
<1>2. IInv /\ IInv' /\ [SafeNext]_vars => [Log!ANext]_(Log!avars)
  BY RefinementStep
<1> QED
  BY <1>1, <1>2, InvAlways, PTL DEF SafeSpec, ImplementsAppendLog, Log!ASpec

=============================================================================
