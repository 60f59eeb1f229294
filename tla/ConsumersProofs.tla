-------------------------- MODULE ConsumersProofs --------------------------
(***************************************************************************)
(* Proofs about Consumers, for any keys, any number of sessions, any calls *)
(* and any of the faults.                                                  *)
(*                                                                         *)
(* The invariant IInv says, besides the two properties it contains, that   *)
(* the group in memory and the one the log replays to are well formed and  *)
(* equal unless the subsystem is fenced (Logs), that op and handles agree  *)
(* on the keys of a handle (HandlesOK), and what makes a commit safe: the  *)
(* cursor of the owner of a key has passed only delivered records (Owned). *)
(* CommittedWasDelivered is not inductive without Owned.  It rests in turn *)
(* on the fence, ActiveOwns: the critical section that moves a cursor or   *)
(* commits finds the handle to be the owner in the group it reads.         *)
(***************************************************************************)
EXTENDS Consumers, TLAPS

\* The values of the projection and of a handle.
Modes == {"none", "earliest", "latest"}

ProgressRecord == [initial : Nat, hasCommit : BOOLEAN, committed : Nat]

NatFunctions == UNION {[S -> Nat] : S \in SUBSET Keys}

Progresses == UNION {[S -> ProgressRecord] : S \in SUBSET Keys}

GroupRecord == [created : BOOLEAN, mode : Modes, generation : Nat, owner : NatFunctions,
                progress : Progresses, corrupt : BOOLEAN]

IsGroup(g) == g \in GroupRecord /\ ~g.corrupt /\ DOMAIN g.owner \subseteq DOMAIN g.progress

HandleRecord == [kind : {"single", "group"}, generation : Nat, next : NatFunctions,
                 lapsed : SUBSET Keys, expired : BOOLEAN, closed : BOOLEAN]

Types ==
    /\ load \in Workloads
    /\ end \in [Keys -> Nat] /\ ackedNext \in [Keys -> Nat] /\ DOMAIN delivered = Keys
    /\ sessions \in Nat

\* The log replays, and memory agrees with it unless the subsystem is fenced.
Logs == IsGroup(group) /\ IsGroup(stored) /\ (unavailable \/ group = stored)

HandlesOK ==
    /\ Opened \subseteq 1..sessions /\ DOMAIN op = Opened
    /\ \A h \in Opened :
         handles[h] \in HandleRecord /\ DOMAIN op[h] = DOMAIN handles[h].next

\* What the owner of a key has moved past since its baseline was delivered.
Owned ==
    \A h \in Opened : \A k \in DOMAIN op[h] :
        k \in DOMAIN group.owner /\ group.owner[k] = h =>
            group.progress[k].initial..(handles[h].next[k] - 1) \subseteq delivered[k]

IInv == Types /\ Logs /\ HandlesOK /\ Owned /\ CommittedWasDelivered /\ AckedCommitSurvives

\* A map of some keys to numbers, without its definition.
LEMMA NatFunctionsDef ==
  /\ \A S \in SUBSET Keys : [S -> Nat] \subseteq NatFunctions
  /\ \A f \in NatFunctions : DOMAIN f \subseteq Keys /\ f \in [DOMAIN f -> Nat]
BY DEF NatFunctions

\* The same for the progress of some keys.
LEMMA ProgressesDef ==
  /\ \A S \in SUBSET Keys : [S -> ProgressRecord] \subseteq Progresses
  /\ \A f \in Progresses : DOMAIN f \subseteq Keys /\ f \in [DOMAIN f -> ProgressRecord]
BY DEF Progresses

\* The GroupCreated event the first open of a group appends.
LEMMA CreatedApplies ==
    ASSUME NEW g, IsGroup(g), ~g.created, NEW m \in Modes
    PROVE  LET r == apply(g, GroupCreated(m))
           IN  /\ IsGroup(r) /\ r.created /\ r.mode = m
               /\ r.owner = g.owner /\ r.progress = g.progress
<1> DEFINE r == apply(g, GroupCreated(m))
<1>1. r = [g EXCEPT !.created = TRUE, !.mode = m]
  BY DEF apply, GroupCreated, applyGroupCreated, IsGroup
<1> QED
  BY <1>1, Zenon DEF IsGroup, GroupRecord

\* An assignment whose compare-and-append fields match.
LEMMA AssignmentApplies ==
    ASSUME NEW g, IsGroup(g), NEW e, e.type = "assigned", AssignmentMatches(g, e),
           e.owner \in NatFunctions, e.fresh \subseteq DOMAIN e.owner,
           \A k \in e.fresh : e.resume[k] \in Nat
    PROVE  LET r == apply(g, e)
           IN  /\ IsGroup(r) /\ r.created /\ r.mode = g.mode /\ r.owner = e.owner
               /\ DOMAIN r.progress = DOMAIN g.progress \cup e.fresh
               /\ \A k \in DOMAIN g.progress : r.progress[k] = g.progress[k]
               /\ \A k \in e.fresh :
                    r.progress[k].initial = e.resume[k] /\ ~r.progress[k].hasCommit
<1> DEFINE progress ==
             [k \in DOMAIN g.progress \cup e.fresh |->
                IF k \in e.fresh
                THEN [initial |-> e.resume[k], hasCommit |-> FALSE, committed |-> 0]
                ELSE g.progress[k]]
<1>1. DOMAIN e.owner \subseteq Keys
  BY NatFunctionsDef
<1>2. /\ DOMAIN g.progress \subseteq Keys
      /\ g.progress \in [DOMAIN g.progress -> ProgressRecord]
  BY ProgressesDef DEF IsGroup, GroupRecord
<1>3. progress \in [DOMAIN g.progress \cup e.fresh -> ProgressRecord]
  BY <1>2 DEF ProgressRecord
<1>4. progress \in Progresses
  BY <1>1, <1>2, <1>3, ProgressesDef
<1>5. \A k \in e.fresh : k \notin DOMAIN g.progress
  BY DEF AssignmentMatches
<1>6. DOMAIN e.owner \subseteq DOMAIN progress
  BY DEF AssignmentMatches
<1>7. apply(g, e) = [g EXCEPT !.generation = g.generation + 1, !.owner = e.owner,
                            !.progress = progress]
  BY DEF apply, applyAssignment, IsGroup, GroupRecord
<1>8. DOMAIN progress = DOMAIN g.progress \cup e.fresh
  OBVIOUS
<1>9. /\ \A k \in DOMAIN g.progress : progress[k] = g.progress[k]
      /\ \A k \in e.fresh : progress[k].initial = e.resume[k] /\ ~progress[k].hasCommit
  BY <1>5
<1>10. g.created
  BY DEF AssignmentMatches
<1> HIDE DEF progress
<1>11. apply(g, e) \in GroupRecord
  <2>1. g.generation + 1 \in Nat
    BY DEF IsGroup, GroupRecord
  <2>2. \A n \in Nat, o \in NatFunctions, p \in Progresses :
           [g EXCEPT !.generation = n, !.owner = o, !.progress = p] \in GroupRecord
    BY Zenon DEF IsGroup, GroupRecord
  <2>3. [g EXCEPT !.generation = g.generation + 1, !.owner = e.owner,
                  !.progress = progress] \in GroupRecord
    BY <1>4, <2>1, <2>2, Zenon
  <2> QED
    BY <1>7, <2>3
<1>12. /\ apply(g, e).created /\ ~apply(g, e).corrupt /\ apply(g, e).mode = g.mode
       /\ apply(g, e).owner = e.owner /\ apply(g, e).progress = progress
  BY <1>7, <1>10 DEF IsGroup, GroupRecord
<1> QED
  BY <1>6, <1>8, <1>9, <1>11, <1>12 DEF IsGroup

\* The assignment an open appends.
LEMMA InstallApplies ==
    ASSUME NEW g, IsGroup(g), g.created, NEW h \in Nat, NEW S \in SUBSET Keys, NEW start,
           end \in [Keys -> Nat]
    PROVE  LET r == apply(g, Assignment(g, h, S, start))
           IN  /\ IsGroup(r) /\ r.created /\ r.mode = g.mode
               /\ r.owner = [k \in S |-> h]
               /\ DOMAIN r.progress = DOMAIN g.progress \cup S
               /\ \A k \in DOMAIN g.progress : r.progress[k] = g.progress[k]
               /\ \A k \in S \ DOMAIN g.progress :
                     r.progress[k].initial = Resume(g, k, start) /\ ~r.progress[k].hasCommit
<1> DEFINE e == Assignment(g, h, S, start)
<1>1. /\ e.type = "assigned" /\ e.owner = [k \in S |-> h] /\ e.fresh = S \ DOMAIN g.progress
      /\ e.expected = g.generation /\ e.resume = [k \in S |-> Resume(g, k, start)]
  BY DEF Assignment, AssignmentChanged
<1>2. \A k \in S \ DOMAIN g.progress : Resume(g, k, start) \in Nat
  BY DEF Resume, resolveStart
<1>3. \A k \in S \cap DOMAIN g.progress : Resume(g, k, start) = latestNext(g.progress[k])
  BY DEF Resume
<1> HIDE DEF e
<1>4. AssignmentMatches(g, e)
  BY <1>1, <1>3 DEF AssignmentMatches
<1>5. e.owner \in NatFunctions
  BY <1>1, NatFunctionsDef
<1>6. \A k \in e.fresh : e.resume[k] \in Nat /\ e.resume[k] = Resume(g, k, start)
  BY <1>1, <1>2
<1>7. LET r == apply(g, e)
      IN  /\ IsGroup(r) /\ r.created /\ r.mode = g.mode /\ r.owner = e.owner
          /\ DOMAIN r.progress = DOMAIN g.progress \cup e.fresh
          /\ \A k \in DOMAIN g.progress : r.progress[k] = g.progress[k]
          /\ \A k \in e.fresh :
                r.progress[k].initial = e.resume[k] /\ ~r.progress[k].hasCommit
  <2>1. e.fresh \subseteq DOMAIN e.owner
    BY <1>1
  <2> QED
    BY <1>1, <1>4, <1>5, <1>6, <2>1, AssignmentApplies
<1> QED
  BY <1>1, <1>6, <1>7 DEF e

\* The empty assignment Close appends.
LEMMA RevokeApplies ==
    ASSUME NEW g, IsGroup(g), g.created
    PROVE  LET r == apply(g, EmptyAssignment(g.generation))
           IN  /\ IsGroup(r) /\ r.created /\ DOMAIN r.owner = {}
               /\ DOMAIN r.progress = DOMAIN g.progress
               /\ \A k \in DOMAIN g.progress : r.progress[k] = g.progress[k]
<1> DEFINE e == EmptyAssignment(g.generation)
<1>1. e.type = "assigned" /\ e.owner = << >> /\ e.fresh = {} /\ e.expected = g.generation
  BY DEF EmptyAssignment, AssignmentChanged
<1>2. << >> \in [{} -> Nat] /\ DOMAIN << >> = {}
  OBVIOUS
<1>3. e.owner \in NatFunctions /\ DOMAIN e.owner = {}
  BY <1>1, <1>2, NatFunctionsDef, Zenon
<1> HIDE DEF e
<1>4. AssignmentMatches(g, e)
  BY <1>1, <1>3 DEF AssignmentMatches
<1>5. LET r == apply(g, e)
      IN  /\ IsGroup(r) /\ r.created /\ r.owner = e.owner
          /\ DOMAIN r.progress = DOMAIN g.progress \cup e.fresh
          /\ \A k \in DOMAIN g.progress : r.progress[k] = g.progress[k]
  BY <1>1, <1>3, <1>4, AssignmentApplies, ZenonT(30)
<1> QED
  BY <1>1, <1>3, <1>5 DEF e

\* r is g with position next committed for key k.
Advanced(g, r, k, next) ==
    /\ IsGroup(r) /\ r.owner = g.owner
    /\ DOMAIN r.progress = DOMAIN g.progress
    /\ \A j \in DOMAIN g.progress \ {k} : r.progress[j] = g.progress[j]
    /\ r.progress[k].initial = g.progress[k].initial
    /\ latestNext(r.progress[k]) = next

\* A commit of the owner that does not go back.
LEMMA CommitApplies ==
    ASSUME NEW g, IsGroup(g), g.created, NEW k \in DOMAIN g.owner, NEW next \in Nat,
           latestNext(g.progress[k]) <= next
    PROVE  Advanced(g, apply(g, OffsetCommitted(g.generation, g.owner[k], k,
                                                g.progress[k], next)), k, next)
<1> DEFINE e == OffsetCommitted(g.generation, g.owner[k], k, g.progress[k], next)
           p == [g.progress[k] EXCEPT !.hasCommit = TRUE, !.committed = next]
           q == [g.progress EXCEPT ![k] = p]
<1>1. /\ e.type = "committed" /\ e.generation = g.generation /\ e.session = g.owner[k]
      /\ e.key = k /\ e.kind = g.progress[k].hasCommit
      /\ e.previous = latestNext(g.progress[k]) /\ e.next = next
  BY DEF OffsetCommitted
<1>2. /\ k \in DOMAIN g.progress /\ DOMAIN g.progress \subseteq Keys
      /\ g.progress \in [DOMAIN g.progress -> ProgressRecord]
  BY ProgressesDef DEF IsGroup, GroupRecord
<1>3. latestNext(g.progress[k]) \in Nat
  BY <1>2 DEF latestNext, ProgressRecord
<1>4. CommitMatches(g, e)
  BY <1>1, <1>2, <1>3 DEF CommitMatches
<1>5. p \in ProgressRecord /\ p.initial = g.progress[k].initial /\ latestNext(p) = next
  BY <1>2, Zenon DEF ProgressRecord, latestNext
<1> HIDE DEF e
<1>6. apply(g, e) = [g EXCEPT !.progress = q]
  BY <1>1, <1>2, <1>4, ZenonT(30)
    DEF apply, applyCommit, IsGroup, GroupRecord, ProgressRecord
<1> HIDE DEF p
<1>7. q \in [DOMAIN g.progress -> ProgressRecord] /\ q[k] = p
        /\ \A j \in DOMAIN g.progress \ {k} : q[j] = g.progress[j]
  BY <1>2, <1>5
<1>8. q \in Progresses /\ DOMAIN q = DOMAIN g.progress
  BY <1>2, <1>7, ProgressesDef
<1> HIDE DEF q
<1>9. [g EXCEPT !.progress = q] \in GroupRecord
  BY <1>8 DEF IsGroup, GroupRecord
<1>10. LET r == apply(g, e)
       IN  /\ r \in GroupRecord /\ r.created /\ ~r.corrupt /\ r.owner = g.owner
           /\ r.progress = q
  BY <1>6, <1>9 DEF IsGroup, GroupRecord
<1>11. Advanced(g, apply(g, e), k, next)
  BY <1>5, <1>7, <1>8, <1>10 DEF IsGroup, Advanced
<1> QED
  BY <1>11 DEF e

-----------------------------------------------------------------------------
(* What the steps share.                                                   *)

\* r has the progress of g, and baselines nobody has committed from.
Carries(g, r) ==
    /\ DOMAIN g.progress \subseteq DOMAIN r.progress
    /\ \A k \in DOMAIN g.progress : r.progress[k] = g.progress[k]
    /\ \A k \in DOMAIN r.progress \ DOMAIN g.progress : ~r.progress[k].hasCommit

\* Every position of a group is a natural number.
LEMMA PositionTypes ==
    ASSUME NEW g, IsGroup(g), NEW k \in DOMAIN g.progress
    PROVE  k \in Keys /\ g.progress[k].initial \in Nat /\ latestNext(g.progress[k]) \in Nat
<1>1. DOMAIN g.progress \subseteq Keys /\ g.progress[k] \in ProgressRecord
  BY ProgressesDef DEF IsGroup, GroupRecord
<1> QED
  BY <1>1 DEF ProgressRecord, latestNext

\* Events that carry the progress over keep what is said of it.
LEMMA CarryKeeps ==
    ASSUME Types, IsGroup(stored), IsGroup(stored'), Carries(stored, stored'),
           CommittedWasDelivered, AckedCommitSurvives, UNCHANGED <<delivered, ackedNext>>
    PROVE  CommittedWasDelivered' /\ AckedCommitSurvives'
<1>1. ASSUME NEW k \in DOMAIN stored'.progress
      PROVE  stored'.progress[k].initial..(latestNext(stored'.progress[k]) - 1)
                \subseteq delivered'[k]
  <2>1. CASE k \in DOMAIN stored.progress
    BY <2>1 DEF Carries, CommittedWasDelivered
  <2>2. CASE k \notin DOMAIN stored.progress
    <3>1. latestNext(stored'.progress[k]) = stored'.progress[k].initial
      BY <2>2 DEF Carries, latestNext
    <3>2. stored'.progress[k].initial \in Nat
      BY PositionTypes
    <3> QED
      BY <3>1, <3>2
  <2> QED
    BY <2>1, <2>2
<1>2. CommittedWasDelivered'
  BY <1>1 DEF CommittedWasDelivered
<1>3. AckedCommitSurvives'
  BY DEF AckedCommitSurvives, Carries
<1> QED
  BY <1>2, <1>3

\* Every handle has the cursor it had.
NextsKept ==
    /\ Opened' = Opened /\ DOMAIN op' = Opened
    /\ \A h \in Opened : /\ handles'[h] \in HandleRecord
                         /\ handles'[h].next = handles[h].next
                         /\ DOMAIN op'[h] = DOMAIN op[h]

\* What is said of handles survives a step that moves no cursor and no owner.
LEMMA NextsKeep ==
    ASSUME HandlesOK, Owned, NextsKept, sessions \in Nat, sessions' \in Nat,
           sessions <= sessions',
           group'.owner = group.owner,
           \A k \in DOMAIN group.owner :
              group'.progress[k].initial = group.progress[k].initial,
           UNCHANGED delivered
    PROVE  HandlesOK' /\ Owned'
<1>1. HandlesOK'
  BY DEF HandlesOK, NextsKept
<1>2. Owned'
  BY DEF Owned, NextsKept
<1> QED
  BY <1>1, <1>2

\* appendOffsetsEventLocked with an event that applies.
LEMMA AppendKeeps ==
    ASSUME NEW g, IsGroup(g), NEW e, IsGroup(apply(g, e)),
           AppendOk(g, g, e) \/ AppendFails(g, g, e), unavailable \/ group = stored
    PROVE  /\ Logs'
           /\ group' \in {g, apply(g, e)} /\ stored' \in {g, apply(g, e)}
<1>1. CASE AppendOk(g, g, e)
  BY <1>1 DEF AppendOk, Logs, IsGroup
<1>2. CASE AppendFails(g, g, e)
  BY <1>2 DEF AppendFails, AppendRefused, AppendUnknown, Logs
<1> QED
  BY <1>1, <1>2

-----------------------------------------------------------------------------
(* Each step preserves the invariant.                                      *)

\* OpenConsumer and OpenConsumerGroup.
LEMMA InstallStep ==
    ASSUME IInv, ~unavailable, NEW kind \in {"single", "group"}, NEW S \in SUBSET Keys,
           NEW start \in {"earliest", "latest"}, NEW kept, NEW installed,
           Install(kind, S, start, kept, installed),
           UNCHANGED <<load, end, delivered, ackedNext>>
    PROVE  IInv'
<1> DEFINE h == sessions + 1
           c == GroupCreated(start)
           g == IF group.created THEN group ELSE apply(group, c)
           d == IF group.created THEN stored ELSE apply(stored, c)
           e == Assignment(g, h, S, start)
           r == apply(g, e)
           n == NewHandle(kind, g, S, start)
<1>1. group = stored /\ IsGroup(group) /\ start \in Modes
  BY DEF IInv, Logs, Modes
<1>2. g = d
  BY <1>1
<1>3. /\ IsGroup(g) /\ g.created /\ g.owner = group.owner
      /\ g.progress = group.progress
  BY <1>1, CreatedApplies
<1>4. ~group.created => g = apply(group, c)
  OBVIOUS
<1>5. h \in Nat /\ end \in [Keys -> Nat]
  BY DEF IInv, Types
<1>6. \/ /\ ~group.created /\ AppendFails(group, stored, c)
         /\ UNCHANGED <<sessions, handles, op>>
      \/ g.mode # start /\ UNCHANGED <<offsets, sessions, handles, op>>
      \/ AppendFails(g, d, e) /\ sessions' = h /\ UNCHANGED <<handles, op>>
      \/ /\ AppendOk(g, d, e) /\ sessions' = h
         /\ r.corrupt \/ /\ handles' = With(handles, h, n)
                         /\ op' = With(op, h, [k \in S |-> NoCall])
  BY DEF Install
<1> HIDE DEF h, c, g, d, e, r, n
<1>7. /\ IsGroup(r) /\ r.owner = [k \in S |-> h]
      /\ DOMAIN r.progress = DOMAIN g.progress \cup S
      /\ \A k \in DOMAIN g.progress : r.progress[k] = g.progress[k]
      /\ \A k \in S \ DOMAIN g.progress :
            r.progress[k].initial = Resume(g, k, start) /\ ~r.progress[k].hasCommit
  BY <1>3, <1>5, InstallApplies DEF r, e
<1>8. Carries(group, group) /\ Carries(group, g) /\ Carries(group, r)
  BY <1>3, <1>7 DEF Carries
<1>9. Types'
  <2>1. sessions' \in Nat
    BY <1>5, <1>6 DEF IInv, Types
  <2> QED
    BY <2>1 DEF IInv, Types
<1>10. ASSUME IsGroup(stored'), stored' \in {group, g, r}
       PROVE  CommittedWasDelivered' /\ AckedCommitSurvives'
  BY <1>1, <1>8, <1>10, CarryKeeps DEF IInv
<1>11. ASSUME group' \in {group, g}, UNCHANGED <<handles, op>>,
              sessions' \in {sessions, h}
       PROVE  HandlesOK' /\ Owned'
  <2>1. NextsKept
    BY <1>11 DEF NextsKept, IInv, HandlesOK, Opened
  <2>2. group'.owner = group.owner /\ group'.progress = group.progress
    BY <1>3, <1>11
  <2>3. sessions \in Nat /\ sessions' \in Nat /\ sessions <= sessions'
    BY <1>11 DEF IInv, Types, h
  <2> QED
    BY <2>1, <2>2, <2>3, NextsKeep DEF IInv
<1>12. CASE /\ ~group.created /\ AppendFails(group, stored, c)
            /\ UNCHANGED <<sessions, handles, op>>
  <2>1. /\ Logs' /\ group' \in {group, g} /\ stored' \in {group, g}
    <3>1. IsGroup(apply(group, c))
      BY <1>3, <1>4, <1>12
    <3>2. group' = group
      BY <1>12 DEF AppendFails, AppendRefused, AppendUnknown
    <3> QED
      BY <1>1, <1>4, <1>12, <3>1, <3>2, AppendKeeps
  <2> QED
    BY <1>9, <1>10, <1>11, <1>12, <2>1 DEF IInv, Logs
<1>13. CASE UNCHANGED <<offsets, sessions, handles, op>>
  <2>1. Logs' /\ group' = group /\ stored' = group
    BY <1>1, <1>13 DEF offsets, IInv, Logs
  <2> QED
    BY <1>9, <1>10, <1>11, <1>13, <2>1 DEF IInv, Logs
<1>14. CASE AppendFails(g, d, e) /\ sessions' = h /\ UNCHANGED <<handles, op>>
  <2>1. Logs' /\ stored' \in {g, r}
    BY <1>1, <1>2, <1>3, <1>7, <1>14, AppendKeeps DEF r
  <2>2. group' = g
    BY <1>14 DEF AppendFails, AppendRefused, AppendUnknown
  <2> QED
    BY <1>9, <1>10, <1>11, <1>14, <2>1, <2>2 DEF IInv, Logs
<1>15. CASE /\ AppendOk(g, d, e) /\ sessions' = h
            /\ r.corrupt \/ /\ handles' = With(handles, h, n)
                            /\ op' = With(op, h, [k \in S |-> NoCall])
  <2>1. Logs' /\ stored' = r /\ group' = r
    <3>1. Logs'
      BY <1>1, <1>2, <1>3, <1>7, <1>15, AppendKeeps DEF r
    <3> QED
      BY <1>2, <1>7, <1>15, <3>1 DEF AppendOk, IsGroup, r
  <2>2. handles' = With(handles, h, n) /\ op' = With(op, h, [k \in S |-> NoCall])
    BY <1>7, <1>15 DEF IsGroup
  <2>3. \A k \in S : Resume(g, k, start) \in Nat
    BY <1>3, <1>5, PositionTypes DEF Resume, resolveStart
  <2>4. n \in HandleRecord /\ n.next = [k \in S |-> Resume(g, k, start)]
    <3>1. [k \in S |-> Resume(g, k, start)] \in NatFunctions
      BY <2>3, NatFunctionsDef
    <3>2. g.generation + 1 \in Nat
      BY <1>3 DEF IsGroup, GroupRecord
    <3> QED
      BY <3>1, <3>2 DEF n, NewHandle, HandleRecord
  <2>5. Opened' = Opened \cup {h} /\ DOMAIN op' = DOMAIN op \cup {h} /\ h \notin Opened
    BY <2>2 DEF With, Opened, IInv, HandlesOK, Types, h
  <2>6. /\ handles'[h] = n /\ op'[h] = [k \in S |-> NoCall]
        /\ \A i \in Opened : handles'[i] = handles[i] /\ op'[i] = op[i]
    BY <2>2, <2>5 DEF With, Opened, IInv, HandlesOK
  <2>7. HandlesOK'
    <3>1. Opened' \subseteq 1..sessions'
      <4>1. Opened \subseteq 1..sessions /\ sessions \in Nat /\ sessions' = sessions + 1
        BY <1>15 DEF IInv, HandlesOK, Types, h
      <4> QED
        BY <2>5, <4>1 DEF h
    <3> QED
      BY <2>4, <2>5, <2>6, <3>1 DEF IInv, HandlesOK
  <2>8. Owned'
    <3> SUFFICES ASSUME NEW i \in Opened', NEW k \in DOMAIN op'[i],
                        k \in DOMAIN group'.owner, group'.owner[k] = i
                 PROVE  group'.progress[k].initial..(handles'[i].next[k] - 1)
                           \subseteq delivered'[k]
      BY DEF Owned
    <3>1. i = h /\ k \in S
      BY <1>7, <2>1
    <3>2. handles'[i].next[k] = Resume(g, k, start)
      BY <2>4, <2>6, <3>1
    <3>3. CASE k \in DOMAIN g.progress
      BY <1>1, <1>3, <1>7, <2>1, <3>2, <3>3 DEF Resume, IInv, CommittedWasDelivered
    <3>4. CASE k \notin DOMAIN g.progress
      BY <1>7, <2>1, <2>3, <3>1, <3>2, <3>4
    <3> QED
      BY <3>3, <3>4
  <2> QED
    BY <1>9, <1>10, <2>1, <2>7, <2>8 DEF IInv, Logs
<1> QED
  BY <1>6, <1>12, <1>13, <1>14, <1>15

\* An operation that passes the fence finds memory and log in agreement, and
\* itself the owner.
LEMMA ActiveOwns ==
    ASSUME NEW h, NEW k, Verdict(h, k) = "active"
    PROVE  ~unavailable /\ Owns(h, k)
<1>1. CASE handles[h].kind = "single"
  BY <1>1 DEF Verdict, SingleVerdict
<1>2. CASE handles[h].kind # "single"
  BY <1>2 DEF Verdict, GroupVerdict
<1> QED
  BY <1>1, <1>2

HandlesKept ==
    /\ Opened' = Opened
    /\ \A h \in Opened : handles'[h] \in HandleRecord /\ handles'[h].next = handles[h].next

CallsKept == DOMAIN op' = DOMAIN op /\ \A h \in DOMAIN op : DOMAIN op'[h] = DOMAIN op[h]

\* One handle changes, but for its cursors.
LEMMA HandleChanges ==
    ASSUME HandlesOK, NEW h \in Opened, NEW x \in HandleRecord, x.next = handles[h].next,
           handles' = [handles EXCEPT ![h] = x]
    PROVE  HandlesKept
BY DEF HandlesOK, HandlesKept, Opened

\* The calls of one handle change.
LEMMA CallChanges ==
    ASSUME NEW h \in DOMAIN op, NEW x, DOMAIN x = DOMAIN op[h], op' = [op EXCEPT ![h] = x]
    PROVE  CallsKept
BY DEF CallsKept

\* Renewing a lease.
LEMMA RenewedKeeps ==
    ASSUME HandlesOK, NEW h \in Opened, NEW k,
           handles' = [handles EXCEPT ![h] = Renewed(h, k)]
    PROVE  HandlesKept
<1>1. handles[h] \in HandleRecord
  BY DEF HandlesOK
<1>2. Renewed(h, k) \in HandleRecord /\ Renewed(h, k).next = handles[h].next
  BY <1>1 DEF Renewed, HandleRecord
<1> QED
  BY <1>2, HandleChanges, Zenon

\* A refusal, whatever it withdraws.
LEMMA RefusedKeeps ==
    ASSUME HandlesOK, NEW h \in Opened, NEW k, Refused(h, k)
    PROVE  HandlesKept
<1>1. handles[h] \in HandleRecord
  BY DEF HandlesOK
<1>2. CASE handles' = [handles EXCEPT ![h].expired = TRUE]
  <2>1. [handles[h] EXCEPT !.expired = TRUE] \in HandleRecord
          /\ [handles[h] EXCEPT !.expired = TRUE].next = handles[h].next
    BY <1>1, Zenon DEF HandleRecord
  <2> QED
    BY <1>2, <2>1, HandleChanges, Zenon
<1>3. CASE UNCHANGED handles
  BY <1>3 DEF HandlesKept, HandlesOK, Opened
<1> QED
  BY <1>2, <1>3 DEF Refused

\* A step of a call that neither delivers nor commits.
LEMMA QuietStep ==
    ASSUME IInv, HandlesKept, CallsKept,
           UNCHANGED <<load, end, sessions, offsets, delivered, ackedNext>>
    PROVE  IInv'
<1>1. NextsKept
  BY DEF NextsKept, HandlesKept, CallsKept, IInv, HandlesOK
<1>2. HandlesOK' /\ Owned'
  BY <1>1, NextsKeep DEF IInv, Types, offsets
<1>3. Types' /\ Logs'
  BY DEF IInv, Types, Logs, offsets
<1>4. CommittedWasDelivered' /\ AckedCommitSurvives'
  BY DEF IInv, CommittedWasDelivered, AckedCommitSurvives, offsets
<1> QED
  BY <1>2, <1>3, <1>4 DEF IInv

\* Poll and Commit up to their critical sections, refusals, and leases.
LEMMA CallStepQuiet ==
    ASSUME IInv, NEW h, NEW k,
           Poll(h, k) \/ PollBegins(h, k) \/ FetchFails(h, k) \/ PollEnds(h, k)
             \/ Commit(h, k) \/ LeaseLapses(h, k)
    PROVE  /\ HandlesKept /\ CallsKept
           /\ UNCHANGED <<load, end, sessions, offsets, delivered, ackedNext>>
<1>1. HandlesOK /\ DOMAIN op = Opened
  BY DEF IInv, HandlesOK
<1>2. ASSUME UNCHANGED handles PROVE HandlesKept
  BY <1>1, <1>2 DEF HandlesKept, HandlesOK, Opened
<1>3. ASSUME NEW x, h \in Opened, op' = [op EXCEPT ![h][k] = x] PROVE CallsKept
  BY <1>1, <1>3 DEF CallsKept
<1>4. ASSUME NEW f, DOMAIN f = DOMAIN op[h], h \in Opened,
             op' = [op EXCEPT ![h] = Protected(f, k)]
      PROVE  CallsKept
  <2>1. DOMAIN Protected(f, k) = DOMAIN op[h]
    BY <1>4 DEF Protected
  <2> QED
    BY <1>1, <1>4, <2>1, CallChanges, Zenon
<1>5. CASE Poll(h, k) \/ Commit(h, k)
  BY <1>2, <1>3, <1>5 DEF Poll, Commit, BeginCall
<1>6. CASE PollBegins(h, k)
  <2>1. CASE Verdict(h, k) = "active"
    <3>1. HandlesKept
      BY <1>1, <1>6, <2>1, RenewedKeeps DEF PollBegins
    <3>2. CallsKept
      BY <1>4, <1>6, <2>1 DEF PollBegins
    <3> QED
      BY <1>6, <3>1, <3>2 DEF PollBegins
  <2>2. CASE Verdict(h, k) # "active"
    <3>1. HandlesKept
      BY <1>1, <1>6, <2>2, RefusedKeeps DEF PollBegins
    <3>2. CallsKept
      BY <1>3, <1>6, <2>2 DEF PollBegins
    <3> QED
      BY <1>6, <3>1, <3>2 DEF PollBegins
  <2> QED
    BY <2>1, <2>2
<1>7. CASE FetchFails(h, k)
  <2>1. CallsKept
    BY <1>1, <1>7, SMTT(30) DEF FetchFails, CallsKept
  <2> QED
    BY <1>2, <1>7, <2>1 DEF FetchFails
<1>8. CASE PollEnds(h, k)
  <2>1. HandlesKept
    BY <1>1, <1>2, <1>8, RenewedKeeps DEF PollEnds
  <2>2. CallsKept
    <3>1. DOMAIN [op[h] EXCEPT ![k] = NoCall] = DOMAIN op[h]
            /\ DOMAIN Protected([op[h] EXCEPT ![k] = NoCall], k) = DOMAIN op[h]
      BY DEF Protected
    <3> QED
      BY <1>1, <1>8, <3>1, CallChanges, Zenon DEF PollEnds
  <2> QED
    BY <1>8, <2>1, <2>2 DEF PollEnds
<1>9. CASE LeaseLapses(h, k)
  <2>1. handles[h] \in HandleRecord /\ k \in Keys
    BY <1>1, <1>9, NatFunctionsDef DEF LeaseLapses, HandlesOK, HandleRecord
  <2>2. LET x == [handles[h] EXCEPT !.lapsed = @ \cup {k}]
        IN  x \in HandleRecord /\ x.next = handles[h].next
    BY <2>1 DEF HandleRecord
  <2>3. HandlesKept
    BY <1>1, <1>9, <2>2, HandleChanges, Zenon DEF LeaseLapses
  <2>4. CallsKept
    BY <1>9 DEF LeaseLapses, CallsKept
  <2> QED
    BY <1>9, <2>3, <2>4 DEF LeaseLapses
<1> QED
  BY <1>5, <1>6, <1>7, <1>8, <1>9

\* Poll's second critical section.
LEMMA PollReturnsStep ==
    ASSUME IInv, NEW h, NEW k, NEW to, PollReturns(h, k, to)
    PROVE  IInv'
<1> DEFINE next == handles[h].next[k]
<1>1. /\ h \in Opened /\ k \in DOMAIN op[h] /\ HandlesOK /\ DOMAIN op = Opened
      /\ handles[h] \in HandleRecord
  BY DEF PollReturns, IInv, HandlesOK
<1>2. CallsKept
  BY <1>1 DEF PollReturns, CallsKept
<1>3. CASE Verdict(h, k) # "active"
  <2>1. HandlesKept
    BY <1>1, <1>3, RefusedKeeps DEF PollReturns
  <2> QED
    BY <1>2, <1>3, <2>1, QuietStep DEF PollReturns
<1>4. CASE Verdict(h, k) = "active"
  <2>1. /\ handles[h].next \in [DOMAIN op[h] -> Nat] /\ DOMAIN op[h] \subseteq Keys
        /\ next \in Nat /\ end[k] \in Nat
    BY <1>1, NatFunctionsDef DEF IInv, HandlesOK, HandleRecord, Types
  <2>2. to \in Nat /\ next <= to
    BY <2>1 DEF PollReturns
  <2>3. [handles[h].next EXCEPT ![k] = to] \in NatFunctions
    <3>1. [handles[h].next EXCEPT ![k] = to] \in [DOMAIN op[h] -> Nat]
      BY <1>1, <2>1, <2>2
    <3> QED
      BY <2>1, <3>1, NatFunctionsDef
  <2>4. /\ Opened' = Opened
        /\ \A i \in Opened \ {h} : handles'[i] = handles[i]
        /\ handles'[h] = [handles[h] EXCEPT !.next = [handles[h].next EXCEPT ![k] = to]]
    BY <1>1, <1>4 DEF PollReturns, Opened
  <2>5. /\ handles'[h] \in HandleRecord
        /\ handles'[h].next = [handles[h].next EXCEPT ![k] = to]
    BY <1>1, <2>3, <2>4 DEF HandleRecord
  <2>6. /\ delivered' = [delivered EXCEPT ![k] = @ \cup (next..(to - 1))]
        /\ UNCHANGED <<load, end, sessions, offsets, ackedNext>>
    BY <1>4 DEF PollReturns
  <2>7. /\ \A j \in Keys : delivered[j] \subseteq delivered'[j]
        /\ next..(to - 1) \subseteq delivered'[k]
        /\ DOMAIN delivered' = Keys
    BY <1>1, <2>1, <2>6 DEF IInv, Types
  <2>8. HandlesOK'
    BY <1>1, <1>2, <2>1, <2>4, <2>5, <2>6, ZenonT(30) DEF HandlesOK, CallsKept
  <2>9. Owned'
    <3> SUFFICES ASSUME NEW i \in Opened', NEW j \in DOMAIN op'[i],
                        j \in DOMAIN group'.owner, group'.owner[j] = i
                 PROVE  group'.progress[j].initial..(handles'[i].next[j] - 1)
                           \subseteq delivered'[j]
      BY DEF Owned
    <3>1. group' = group /\ j \in DOMAIN op[i] /\ i \in Opened
      BY <1>1, <1>2, <2>4, <2>6 DEF offsets, CallsKept
    <3>2. group.progress[j].initial..(handles[i].next[j] - 1) \subseteq delivered[j]
      BY <3>1 DEF IInv, Owned
    <3>3. j \in DOMAIN group.progress /\ j \in Keys /\ group.progress[j].initial \in Nat
      BY <3>1, PositionTypes DEF IInv, Logs, IsGroup
    <3>4. CASE i = h /\ j = k
      <4>1. handles'[i].next[j] = to
        BY <1>1, <2>1, <2>5, <3>4
      <4> QED
        BY <2>1, <2>2, <2>7, <3>1, <3>2, <3>3, <3>4, <4>1
    <3>5. CASE ~(i = h /\ j = k)
      <4>1. handles'[i].next[j] = handles[i].next[j]
        BY <1>1, <2>1, <2>4, <2>5, <3>1, <3>5, ZenonT(30)
      <4> QED
        BY <2>7, <3>1, <3>2, <3>3, <4>1
    <3> QED
      BY <3>4, <3>5
  <2>10. CommittedWasDelivered'
    <3> SUFFICES ASSUME NEW j \in DOMAIN stored.progress
                 PROVE  stored.progress[j].initial..(latestNext(stored.progress[j]) - 1)
                           \subseteq delivered'[j]
      BY <2>6 DEF CommittedWasDelivered, offsets
    <3>1. j \in Keys
      BY PositionTypes DEF IInv, Logs
    <3> QED
      BY <2>7, <3>1 DEF IInv, CommittedWasDelivered
  <2>11. Types' /\ Logs' /\ AckedCommitSurvives'
    BY <2>6, <2>7 DEF IInv, Types, Logs, AckedCommitSurvives, offsets
  <2> QED
    BY <2>8, <2>9, <2>10, <2>11 DEF IInv
<1> QED
  BY <1>3, <1>4

\* ackedNext is the larger of two positions.
LEMMA MaxOfTwo ==
    ASSUME NEW a \in Nat, NEW b \in Nat
    PROVE  Max({a, b}) \in {a, b}
<1>1. \E x \in {a, b} : \A y \in {a, b} : x >= y
  <2>1. CASE a >= b
    BY <2>1
  <2>2. CASE b >= a
    BY <2>2
  <2> QED
    BY <2>1, <2>2
<1> QED
  BY <1>1 DEF Max

\* Commit's critical section.
LEMMA CommitRunsStep ==
    ASSUME IInv, NEW h, NEW k, NEW next \in Nat, CommitRuns(h, k, next)
    PROVE  IInv'
<1> DEFINE p == group.progress[k]
           e == OffsetCommitted(handles[h].generation, h, k, p, next)
           r == apply(group, e)
<1>1. /\ h \in Opened /\ k \in DOMAIN op[h] /\ HandlesOK /\ DOMAIN op = Opened
      /\ handles[h] \in HandleRecord
      /\ UNCHANGED <<load, end, sessions, delivered>>
  BY DEF CommitRuns, IInv, HandlesOK
<1>2. CASE Verdict(h, k) # "active"
  <2>1. HandlesKept
    BY <1>1, <1>2, RefusedKeeps DEF CommitRuns
  <2>2. CallsKept
    BY <1>1, <1>2 DEF CommitRuns, CallsKept
  <2> QED
    BY <1>1, <1>2, <2>1, <2>2, QuietStep DEF CommitRuns
<1>3. CASE Verdict(h, k) = "active"
  <2>1. ~unavailable /\ Owns(h, k) /\ group = stored /\ IsGroup(group)
    BY <1>3, ActiveOwns DEF IInv, Logs
  <2>2. HandlesKept
    BY <1>1, <1>3, RenewedKeeps DEF CommitRuns
  <2>3. CallsKept
    <3>1. DOMAIN Protected([op[h] EXCEPT ![k] = NoCall], k) = DOMAIN op[h]
      BY DEF Protected
    <3> QED
      BY <1>1, <1>3, <3>1, CallChanges DEF CommitRuns
  <2>4. NextsKept
    BY <1>1, <2>2, <2>3 DEF NextsKept, HandlesKept, CallsKept
  <2>5. /\ group.created /\ handles[h].generation = group.generation
        /\ k \in DOMAIN group.owner /\ h = group.owner[k] /\ k \in DOMAIN group.progress
    BY <2>1 DEF Owns, IsGroup
  <2>6. /\ k \in Keys /\ p.initial \in Nat /\ latestNext(p) \in Nat
        /\ ackedNext \in [Keys -> Nat] /\ handles[h].next[k] \in Nat
    BY <1>1, <2>1, <2>5, PositionTypes, NatFunctionsDef, SMTT(30)
      DEF IInv, Types, HandlesOK, HandleRecord
  <2>7. ackedNext[k] <= latestNext(p)
    BY <2>1, <2>5, <2>6, SMTT(30) DEF IInv, AckedCommitSurvives
  <2>8. ASSUME CommitAllowed(h, k, next)
        PROVE  /\ IsGroup(r) /\ r.owner = group.owner
               /\ DOMAIN r.progress = DOMAIN group.progress
               /\ \A j \in DOMAIN group.progress \ {k} : r.progress[j] = group.progress[j]
               /\ r.progress[k].initial = p.initial /\ latestNext(r.progress[k]) = next
    <3>1. latestNext(group.progress[k]) <= next
      BY <2>8 DEF CommitAllowed
    <3>2. Advanced(group, apply(group, OffsetCommitted(group.generation, group.owner[k], k,
                                                       group.progress[k], next)), k, next)
      BY <2>1, <2>5, <3>1, CommitApplies
    <3>3. Advanced(group, r, k, next)
      BY <2>5, <3>2
    <3> HIDE DEF r
    <3> QED
      BY <3>3 DEF Advanced
  <2>9. ASSUME CommitAllowed(h, k, next)
        PROVE  p.initial..(next - 1) \subseteq delivered[k]
    <3>1. p.initial..(handles[h].next[k] - 1) \subseteq delivered[k]
      BY <1>1, <2>5 DEF IInv, Owned
    <3> QED
      BY <2>6, <2>9, <3>1 DEF CommitAllowed
  <2>10. ASSUME ackedNext' = [ackedNext EXCEPT ![k] = Max({@, next})]
         PROVE  /\ ackedNext' \in [Keys -> Nat]
                /\ \A j \in Keys \ {k} : ackedNext'[j] = ackedNext[j]
                /\ ackedNext'[k] \in {ackedNext[k], next}
    <3>1. Max({ackedNext[k], next}) \in {ackedNext[k], next}
      BY <2>6, MaxOfTwo
    <3> QED
      BY <2>6, <2>10, <3>1
  <2> HIDE DEF p, e, r
  <2>11. CASE UNCHANGED <<offsets, ackedNext>>
    BY <1>1, <2>2, <2>3, <2>11, QuietStep
  <2>12. CASE /\ CommitAllowed(h, k, next) /\ next = latestNext(p)
              /\ ackedNext' = [ackedNext EXCEPT ![k] = Max({@, next})]
              /\ UNCHANGED offsets
    <3>1. HandlesOK' /\ Owned'
      BY <1>1, <2>4, <2>12, NextsKeep DEF IInv, Types, offsets
    <3>2. Types' /\ Logs'
      BY <1>1, <2>10, <2>12 DEF IInv, Types, Logs, offsets
    <3>3. CommittedWasDelivered'
      BY <1>1, <2>12, SMTT(30) DEF IInv, CommittedWasDelivered, offsets
    <3>4. AckedCommitSurvives'
      BY <2>1, <2>5, <2>6, <2>7, <2>10, <2>12 DEF IInv, AckedCommitSurvives, offsets, p
    <3> QED
      BY <3>1, <3>2, <3>3, <3>4 DEF IInv
  <2>13. CASE /\ CommitAllowed(h, k, next)
              /\ AppendOk(group, stored, e) \/ AppendFails(group, stored, e)
              /\ \/ UNCHANGED ackedNext
                 \/ /\ AppendOk(group, stored, e)
                    /\ ackedNext' = [ackedNext EXCEPT ![k] = Max({@, next})]
    <3>1. Logs' /\ group' \in {group, r} /\ stored' \in {group, r}
      BY <2>1, <2>8, <2>13, AppendKeeps DEF r
    <3>2. AppendOk(group, stored, e) => stored' = r
      BY <2>1 DEF AppendOk, r
    <3>3. HandlesOK' /\ Owned'
      <4>1. /\ group'.owner = group.owner
            /\ \A j \in DOMAIN group.owner :
                  group'.progress[j].initial = group.progress[j].initial
        BY <2>1, <2>8, <2>13, <3>1 DEF IsGroup, p
      <4> QED
        BY <1>1, <2>4, <4>1, NextsKeep DEF IInv, Types
    <3>4. Types'
      BY <1>1, <2>10, <2>13, SMTT(30) DEF IInv, Types
    <3>5. CommittedWasDelivered'
      BY <1>1, <2>1, <2>5, <2>8, <2>9, <2>13, <3>1 DEF IInv, CommittedWasDelivered
    <3>6. AckedCommitSurvives'
      <4> SUFFICES ASSUME NEW j \in Keys, ackedNext'[j] > 0
                   PROVE  /\ j \in DOMAIN stored'.progress
                          /\ ackedNext'[j] <= latestNext(stored'.progress[j])
        BY DEF AckedCommitSurvives
      <4>1. CASE j # k
        <5>1. ackedNext'[j] = ackedNext[j]
          BY <2>10, <2>13, <4>1
        <5>2. j \in DOMAIN stored.progress /\ ackedNext[j] <= latestNext(stored.progress[j])
          BY <5>1, SMTT(30) DEF IInv, AckedCommitSurvives
        <5> QED
          BY <2>1, <2>8, <2>13, <3>1, <4>1, <5>1, <5>2
      <4>2. CASE j = k /\ stored' = r
        <5>1. latestNext(p) <= next
          BY <2>13 DEF CommitAllowed, p
        <5> QED
          BY <2>5, <2>6, <2>7, <2>8, <2>10, <2>13, <4>2, <5>1
      <4>3. CASE j = k /\ stored' = group
        <5>1. ackedNext'[k] \in {ackedNext[k], next}
                /\ (ackedNext'[k] # ackedNext[k] => stored' = r)
          BY <2>10, <2>13, <3>2
        <5> QED
          BY <2>5, <2>7, <4>2, <4>3, <5>1 DEF p
      <4> QED
        BY <3>1, <4>1, <4>2, <4>3
    <3> QED
      BY <3>1, <3>3, <3>4, <3>5, <3>6, SMTT(30) DEF IInv
  <2> QED
    BY <1>3, <2>11, <2>12, <2>13 DEF CommitRuns, p, e
<1> QED
  BY <1>2, <1>3

\* The handles a Close leaves are as they were, but for one that is closed.
LEMMA CloseKeeps ==
    ASSUME IInv, NEW h, Close(h)
    PROVE  /\ Opened' \subseteq Opened /\ DOMAIN op' = Opened'
           /\ \A i \in Opened' : /\ handles'[i] \in HandleRecord
                                 /\ handles'[i].next = handles[i].next
                                 /\ op'[i] = op[i]
<1>1. h \in Opened /\ HandlesOK /\ DOMAIN op = Opened /\ handles[h] \in HandleRecord
  BY DEF Close, IInv, HandlesOK
<1>2. CASE handles' = Without(handles, h) /\ op' = Without(op, h)
  BY <1>1, <1>2 DEF Without, HandlesOK, Opened
<1>3. CASE handles' = [handles EXCEPT ![h].closed = TRUE] /\ UNCHANGED op
  <2>1. [handles[h] EXCEPT !.closed = TRUE] \in HandleRecord
          /\ [handles[h] EXCEPT !.closed = TRUE].next = handles[h].next
    BY <1>1, Zenon DEF HandleRecord
  <2>2. HandlesKept
    BY <1>1, <1>3, <2>1, HandleChanges, Zenon
  <2> QED
    BY <1>1, <1>3, <2>2, Zenon DEF HandlesKept
<1> QED
  BY <1>2, <1>3 DEF Close

\* Consumer.Close and GroupConsumer.Close.
LEMMA CloseStep ==
    ASSUME IInv, NEW h, Close(h)
    PROVE  IInv'
<1> DEFINE e == EmptyAssignment(group.generation)
           r == apply(group, e)
<1>1. /\ h \in Opened /\ HandlesOK /\ DOMAIN op = Opened /\ handles[h] \in HandleRecord
      /\ UNCHANGED <<load, end, sessions, delivered, ackedNext>>
  BY DEF Close, IInv, HandlesOK
<1>2. /\ Opened' \subseteq Opened /\ DOMAIN op' = Opened'
      /\ \A i \in Opened' : /\ handles'[i] \in HandleRecord
                            /\ handles'[i].next = handles[i].next
                            /\ op'[i] = op[i]
  BY CloseKeeps
<1>3. HandlesOK'
  BY <1>1, <1>2, Zenon DEF HandlesOK
<1>4. Types'
  BY <1>1 DEF IInv, Types
<1>5. CASE UNCHANGED offsets
  <2>1. Owned'
    BY <1>1, <1>2, <1>5 DEF IInv, Owned, offsets
  <2>2. Logs' /\ CommittedWasDelivered' /\ AckedCommitSurvives'
    BY <1>1, <1>5 DEF IInv, Logs, CommittedWasDelivered, AckedCommitSurvives, offsets
  <2> QED
    BY <1>3, <1>4, <2>1, <2>2 DEF IInv
<1>6. CASE /\ ~unavailable /\ group.created
           /\ AppendOk(group, stored, e) \/ AppendFails(group, stored, e)
  <2>1. group = stored /\ IsGroup(group)
    BY <1>6 DEF IInv, Logs
  <2>2. /\ IsGroup(r) /\ DOMAIN r.owner = {}
        /\ DOMAIN r.progress = DOMAIN group.progress
        /\ \A k \in DOMAIN group.progress : r.progress[k] = group.progress[k]
    BY <1>6, <2>1, RevokeApplies, ZenonT(30)
  <2> HIDE DEF e
  <2>3. Logs' /\ group' \in {group, r} /\ stored' \in {group, r}
    BY <1>6, <2>1, <2>2, AppendKeeps
  <2> HIDE DEF r
  <2>4. CommittedWasDelivered' /\ AckedCommitSurvives'
    <3>1. IsGroup(stored') /\ Carries(stored, stored')
      BY <2>1, <2>2, <2>3 DEF Carries
    <3> QED
      BY <1>1, <2>1, <3>1, CarryKeeps DEF IInv
  <2>5. Owned'
    BY <1>1, <1>2, <2>2, <2>3 DEF IInv, Owned
  <2> QED
    BY <1>3, <1>4, <2>3, <2>4, <2>5 DEF IInv
<1> QED
  BY <1>5, <1>6 DEF Close, Owns

\* The store goes down and is opened again.
LEMMA RestartStep ==
    ASSUME IInv, Restart
    PROVE  IInv'
<1>1. Opened' = {} /\ DOMAIN op' = {}
  BY DEF Restart, Opened
<1>2. Types' /\ Logs'
  BY DEF Restart, IInv, Types, Logs
<1>3. HandlesOK' /\ Owned'
  BY <1>1 DEF HandlesOK, Owned
<1>4. CommittedWasDelivered' /\ AckedCommitSurvives'
  BY DEF Restart, IInv, CommittedWasDelivered, AckedCommitSurvives
<1> QED
  BY <1>2, <1>3, <1>4 DEF IInv

\* A record becomes readable.
LEMMA AppendRecordStep ==
    ASSUME IInv, NEW k \in Keys, AppendRecord(k)
    PROVE  IInv'
<1>1. Types'
  BY DEF AppendRecord, IInv, Types
<1>2. Logs' /\ HandlesOK' /\ Owned'
  BY SMTT(30) DEF AppendRecord, IInv, Logs, HandlesOK, Owned, Opened, offsets
<1>3. CommittedWasDelivered' /\ AckedCommitSurvives'
  BY DEF AppendRecord, IInv, CommittedWasDelivered, AckedCommitSurvives, offsets
<1> QED
  BY <1>1, <1>2, <1>3 DEF IInv

-----------------------------------------------------------------------------
(* The theorems.                                                           *)

\* A store that has no group yet.
LEMMA InitInv ==
    ASSUME Init
    PROVE  IInv
<1>1. << >> \in [{} -> Nat] /\ << >> \in [{} -> ProgressRecord] /\ DOMAIN << >> = {}
  OBVIOUS
<1>2. << >> \in NatFunctions /\ << >> \in Progresses
  BY <1>1, NatFunctionsDef, ProgressesDef, ZenonT(30)
<1>3. IsGroup(NoGroup) /\ DOMAIN NoGroup.progress = {}
  BY <1>1, <1>2 DEF IsGroup, GroupRecord, NoGroup, Modes
<1>4. Opened = {} /\ DOMAIN op = {}
  BY DEF Init, Opened
<1>5. Types /\ AckedCommitSurvives
  BY DEF Init, Types, AckedCommitSurvives
<1>6. Logs /\ CommittedWasDelivered
  BY <1>3 DEF Init, Logs, CommittedWasDelivered
<1>7. HandlesOK /\ Owned
  BY <1>4 DEF HandlesOK, Owned
<1> QED
  BY <1>5, <1>6, <1>7 DEF IInv

\* Every step.
LEMMA NextInv ==
    ASSUME IInv, [Next]_vars
    PROVE  IInv'
<1>1. /\ load.starts \subseteq {"earliest", "latest"} /\ load.singles \subseteq Keys
      /\ load.snapshots \subseteq SUBSET Keys /\ load.maxEnd \in [Keys -> Nat]
  BY ConsumersAssumption DEF IInv, Types
<1>2. ASSUME NEW start \in load.starts, NEW k \in load.singles, OpenConsumer(k, start)
      PROVE  IInv'
  <2>1. {k} \in SUBSET Keys /\ start \in {"earliest", "latest"}
    BY <1>1
  <2> QED
    BY <1>2, <2>1, InstallStep DEF OpenConsumer
<1>3. ASSUME NEW start \in load.starts, NEW S \in load.snapshots,
             OpenConsumerGroup(S, start)
      PROVE  IInv'
  <2>1. S \in SUBSET Keys /\ start \in {"earliest", "latest"}
    BY <1>1
  <2> QED
    BY <1>3, <2>1, InstallStep DEF OpenConsumerGroup
<1>4. ASSUME NEW h \in Handles, Close(h)
      PROVE  IInv'
  BY <1>4, CloseStep
<1>5. ASSUME NEW h \in Handles, NEW k \in Keys, CallStep(h, k)
      PROVE  IInv'
  <2>1. ASSUME NEW next \in 0..load.maxEnd[k], CommitRuns(h, k, next)
        PROVE  IInv'
    <3>1. next \in Nat
      BY <1>1
    <3> QED
      BY <2>1, <3>1, CommitRunsStep
  <2> QED
    BY <1>5, <2>1, CallStepQuiet, QuietStep, PollReturnsStep DEF CallStep
<1>6. CASE UNCHANGED vars
  <2>1. HandlesKept /\ CallsKept
    BY <1>6 DEF vars, HandlesKept, CallsKept, IInv, HandlesOK, Opened
  <2> QED
    BY <1>6, <2>1, QuietStep DEF vars
<1> QED
  BY <1>2, <1>3, <1>4, <1>5, <1>6, RestartStep, AppendRecordStep DEF Next

\* The invariant holds of every behaviour of the managed consumers.
THEOREM Invariance == Spec => []IInv
<1>1. Init => IInv
  BY InitInv
<1>2. IInv /\ [Next]_vars => IInv'
  BY NextInv
<1> QED
  BY <1>1, <1>2, PTL DEF Spec

\* For any keys, sessions and calls, under refused appends, appends of unknown
\* outcome and restarts: replay accepts the log, and memory agrees with it.
THEOREM LogAlwaysReplays == Spec => []ProjectionMatchesLog
<1>1. IInv => ProjectionMatchesLog
  BY DEF IInv, Logs, IsGroup, ProjectionMatchesLog
<1> QED
  BY <1>1, Invariance, PTL

\* At-least-once delivery.
THEOREM NothingSkipped == Spec => []CommittedWasDelivered
<1>1. IInv => CommittedWasDelivered
  BY DEF IInv
<1> QED
  BY <1>1, Invariance, PTL

\* No acknowledged commit is taken back.
THEOREM CommitsSurvive == Spec => []AckedCommitSurvives
<1>1. IInv => AckedCommitSurvives
  BY DEF IInv
<1> QED
  BY <1>1, Invariance, PTL

-----------------------------------------------------------------------------
(* The fence on every call.                                                *)

CallRecord == [step : {"none", "poll", "fetch", "ending", "commit"}, before : SUBSET Keys]

\* The calls in progress are records of the keys of their handle.
Calls == \A h \in Opened : op[h] \in [DOMAIN op[h] -> CallRecord]

\* Renewing a lease leaves a pending call where it is.
LEMMA ProtectedTyped ==
    ASSUME NEW S, NEW f \in [S -> CallRecord], NEW k \in Keys
    PROVE  /\ Protected(f, k) \in [S -> CallRecord]
           /\ \A j \in S : Protected(f, k)[j].step = f[j].step
BY DEF Protected, CallRecord

\* One handle's calls change.
LEMMA CallsChange ==
    ASSUME HandlesOK, Calls, HandlesKept, NEW h \in Opened,
           NEW f \in [DOMAIN op[h] -> CallRecord], op' = [op EXCEPT ![h] = f]
    PROVE  Calls'
BY DEF HandlesOK, Calls, HandlesKept

\* A step of a call keeps the calls well formed.
LEMMA CallStepCalls ==
    ASSUME IInv, Calls, NEW h, NEW k,
           Poll(h, k) \/ PollBegins(h, k) \/ FetchFails(h, k) \/ PollEnds(h, k)
             \/ Commit(h, k)
    PROVE  Calls'
<1>1. /\ h \in Opened /\ k \in DOMAIN op[h] /\ HandlesOK /\ HandlesKept
      /\ op[h] \in [DOMAIN op[h] -> CallRecord]
  BY CallStepQuiet, Zenon
    DEF Poll, Commit, BeginCall, PollBegins, FetchFails, PollEnds, IInv, HandlesOK, Calls
<1>2. DOMAIN op[h] \subseteq Keys /\ k \in Keys
  BY <1>1, NatFunctionsDef DEF HandlesOK, HandleRecord
<1>3. NoCall \in CallRecord
  BY DEF NoCall, CallRecord
<1>4. ASSUME NEW x \in CallRecord
      PROVE  [op[h] EXCEPT ![k] = x] \in [DOMAIN op[h] -> CallRecord]
  BY <1>1
<1>5. ASSUME NEW s \in {"fetch", "ending"}
      PROVE  [op[h][k] EXCEPT !.step = s] \in CallRecord
  BY <1>1 DEF CallRecord
<1>6. CASE Poll(h, k) \/ Commit(h, k)
  <2>1. PICK s \in {"poll", "commit"} : BeginCall(h, k, s)
    BY <1>6 DEF Poll, Commit
  <2> DEFINE x == [step |-> s, before |-> DOMAIN op[h] \ handles[h].lapsed]
  <2>2. x \in CallRecord
    BY <1>2 DEF CallRecord
  <2>3. op' = [op EXCEPT ![h] = [op[h] EXCEPT ![k] = x]]
    BY <2>1 DEF BeginCall
  <2> HIDE DEF x
  <2> QED
    BY <1>1, <1>4, <2>2, <2>3, CallsChange, Zenon DEF IInv
<1>7. CASE PollBegins(h, k) /\ Verdict(h, k) = "active"
  <2> DEFINE f == [op[h] EXCEPT ![k].step = "fetch"]
  <2>1. f \in [DOMAIN op[h] -> CallRecord]
    BY <1>1, <1>4, <1>5
  <2>2. op' = [op EXCEPT ![h] = Protected(f, k)]
    BY <1>7 DEF PollBegins
  <2> HIDE DEF f
  <2> QED
    BY <1>1, <1>2, <2>1, <2>2, ProtectedTyped, CallsChange, Zenon
<1>8. CASE PollBegins(h, k) /\ Verdict(h, k) # "active"
  <2>1. op' = [op EXCEPT ![h] = [op[h] EXCEPT ![k] = NoCall]]
    BY <1>8 DEF PollBegins
  <2> QED
    BY <1>1, <1>3, <1>4, <2>1, CallsChange, Zenon
<1>9. CASE FetchFails(h, k)
  <2>1. op' = [op EXCEPT ![h] = [op[h] EXCEPT ![k] = [op[h][k] EXCEPT !.step = "ending"]]]
    BY <1>9 DEF FetchFails
  <2> QED
    BY <1>1, <1>4, <1>5, <2>1, CallsChange, Zenon
<1>10. CASE PollEnds(h, k)
  <2> DEFINE f == [op[h] EXCEPT ![k] = NoCall]
  <2>1. f \in [DOMAIN op[h] -> CallRecord]
    BY <1>3, <1>4
  <2>2. op' = [op EXCEPT ![h] = Protected(f, k)] \/ op' = [op EXCEPT ![h] = f]
    BY <1>10, Zenon DEF PollEnds
  <2> HIDE DEF f
  <2> QED
    BY <1>1, <1>2, <2>1, <2>2, ProtectedTyped, CallsChange
<1> QED
  BY <1>6, <1>7, <1>8, <1>9, <1>10, SMTT(30)

\* Poll's second critical section moves the cursor of an owner, and no other.
LEMMA PollReturnsFenced ==
    ASSUME IInv, Calls, NEW h, NEW k, NEW to, PollReturns(h, k, to)
    PROVE  /\ Calls' /\ Opened' = Opened /\ UNCHANGED ackedNext
           /\ \A i \in Opened : \A j \in DOMAIN op[i] :
                 handles'[i].next[j] # handles[i].next[j] =>
                    i = h /\ j = k /\ Owns(h, k) /\ group = stored
<1>1. /\ h \in Opened /\ k \in DOMAIN op[h] /\ HandlesOK /\ handles[h] \in HandleRecord
      /\ op[h] \in [DOMAIN op[h] -> CallRecord]
  BY DEF PollReturns, IInv, HandlesOK, Calls
<1>2. op' = [op EXCEPT ![h] = [op[h] EXCEPT ![k] = [op[h][k] EXCEPT !.step = "ending"]]]
  BY DEF PollReturns
<1>3. [op[h][k] EXCEPT !.step = "ending"] \in CallRecord
  BY <1>1 DEF CallRecord
<1>4. [op[h] EXCEPT ![k] = [op[h][k] EXCEPT !.step = "ending"]]
         \in [DOMAIN op[h] -> CallRecord]
  BY <1>1, <1>3
<1>5. CASE Verdict(h, k) # "active"
  <2>1. HandlesKept
    BY <1>1, <1>5, RefusedKeeps DEF PollReturns
  <2>2. Calls'
    BY <1>1, <1>2, <1>4, <2>1, CallsChange, Zenon
  <2> QED
    BY <1>5, <2>1, <2>2 DEF PollReturns, HandlesKept
<1>6. CASE Verdict(h, k) = "active"
  <2>1. Owns(h, k) /\ group = stored
    BY <1>6, ActiveOwns DEF IInv, Logs
  <2>2. /\ Opened' = Opened /\ UNCHANGED ackedNext
        /\ \A i \in Opened \ {h} : handles'[i] = handles[i]
        /\ handles'[h] = [handles[h] EXCEPT !.next = [handles[h].next EXCEPT ![k] = to]]
    BY <1>1, <1>6 DEF PollReturns, Opened
  <2>3. handles'[h].next = [handles[h].next EXCEPT ![k] = to]
    BY <1>1, <2>2 DEF HandleRecord
  <2>4. Calls'
    BY <1>1, <1>2, <1>4, <2>2 DEF Calls, HandlesOK
  <2>5. ASSUME NEW i \in Opened, NEW j \in DOMAIN op[i],
               handles'[i].next[j] # handles[i].next[j]
        PROVE  i = h /\ j = k
    <3>1. i = h
      BY <2>2, <2>5
    <3>2. j \in DOMAIN handles[h].next
      BY <1>1, <3>1 DEF HandlesOK
    <3> QED
      BY <2>3, <2>5, <3>1, <3>2
  <2> QED
    BY <2>1, <2>2, <2>4, <2>5
<1> QED
  BY <1>5, <1>6

\* Commit's critical section acknowledges for an owner, and ends only its own call.
LEMMA CommitRunsFenced ==
    ASSUME IInv, Calls, NEW h, NEW k, NEW next, CommitRuns(h, k, next)
    PROVE  /\ Calls' /\ HandlesKept
           /\ ackedNext' # ackedNext =>
                /\ Owns(h, k) /\ group = stored
                /\ \A i \in Opened : \A j \in DOMAIN op[i] :
                      (i = h /\ j = k) \/ op'[i][j].step = op[i][j].step
<1> DEFINE f == [op[h] EXCEPT ![k] = NoCall]
<1>1. /\ h \in Opened /\ k \in DOMAIN op[h] /\ HandlesOK /\ DOMAIN op = Opened
      /\ handles[h] \in HandleRecord /\ op[h] \in [DOMAIN op[h] -> CallRecord]
  BY DEF CommitRuns, IInv, HandlesOK, Calls
<1>2. k \in Keys
  BY <1>1, NatFunctionsDef DEF HandlesOK, HandleRecord
<1>3. NoCall \in CallRecord
  BY DEF NoCall, CallRecord
<1>4. f \in [DOMAIN op[h] -> CallRecord] /\ \A j \in DOMAIN op[h] \ {k} : f[j] = op[h][j]
  BY <1>1, <1>3
<1>5. CASE Verdict(h, k) # "active"
  <2>1. HandlesKept /\ op' = [op EXCEPT ![h] = f] /\ UNCHANGED ackedNext
    BY <1>1, <1>5, RefusedKeeps DEF CommitRuns
  <2> HIDE DEF f
  <2> QED
    BY <1>1, <1>4, <2>1, CallsChange, ZenonT(30)
<1>6. CASE Verdict(h, k) = "active"
  <2>1. Owns(h, k) /\ group = stored
    BY <1>6, ActiveOwns DEF IInv, Logs
  <2>2. HandlesKept
    BY <1>1, <1>6, RenewedKeeps DEF CommitRuns
  <2>3. op' = [op EXCEPT ![h] = Protected(f, k)]
    BY <1>6 DEF CommitRuns
  <2> HIDE DEF f
  <2>4. /\ Protected(f, k) \in [DOMAIN op[h] -> CallRecord]
        /\ \A j \in DOMAIN op[h] : Protected(f, k)[j].step = f[j].step
    BY <1>2, <1>4, ProtectedTyped
  <2>5. Calls'
    BY <1>1, <2>2, <2>3, <2>4, CallsChange, ZenonT(30)
  <2>6. ASSUME NEW i \in Opened, NEW j \in DOMAIN op[i], ~(i = h /\ j = k)
        PROVE  op'[i][j].step = op[i][j].step
    BY <1>1, <1>4, <2>3, <2>4, <2>6
  <2> QED
    BY <2>1, <2>2, <2>5, <2>6
<1> QED
  BY <1>5, <1>6, SMTT(30)

\* What OnlyOwnerProgresses says of one step.
Fenced ==
    \A h \in Opened \cap Opened' : \A k \in DOMAIN op[h] :
       (handles'[h].next[k] # handles[h].next[k]
          \/ (op[h][k].step = "commit" /\ op'[h][k] = NoCall /\ ackedNext' # ackedNext))
       => /\ k \in DOMAIN stored.owner /\ stored.owner[k] = h
          /\ stored.generation = handles[h].generation

\* Opening installs a fresh handle and leaves the others alone.
LEMMA InstallFenced ==
    ASSUME IInv, Calls, NEW kind, NEW S, NEW start, NEW kept, NEW installed,
           Install(kind, S, start, kept, installed), UNCHANGED ackedNext
    PROVE  Calls' /\ Fenced
<1>1. CASE UNCHANGED <<handles, op>>
  BY <1>1 DEF Calls, Fenced, Opened
<1>2. ASSUME NEW n, handles' = With(handles, sessions + 1, n),
             op' = With(op, sessions + 1, [k \in S |-> NoCall])
      PROVE  Calls' /\ Fenced
  <2>1. Opened \subseteq 1..sessions /\ DOMAIN op = Opened /\ sessions \in Nat
    BY DEF IInv, HandlesOK, Types
  <2>2. sessions + 1 \notin Opened
    BY <2>1
  <2>3. /\ Opened' = Opened \cup {sessions + 1}
        /\ \A i \in Opened : handles'[i] = handles[i] /\ op'[i] = op[i]
        /\ op'[sessions + 1] = [k \in S |-> NoCall]
    BY <1>2, <2>1, <2>2 DEF With, Opened
  <2>4. [k \in S |-> NoCall] \in [S -> CallRecord] /\ DOMAIN [k \in S |-> NoCall] = S
    BY DEF NoCall, CallRecord
  <2>5. Calls'
    BY <2>3, <2>4 DEF Calls
  <2>6. Fenced
    BY <2>3, SMTT(30) DEF Fenced
  <2> QED
    BY <2>5, <2>6
<1> QED
  BY <1>1, <1>2 DEF Install

\* Every step.
LEMMA NextFenced ==
    ASSUME IInv, Calls, [Next]_vars
    PROVE  Calls' /\ Fenced
<1>1. ASSUME NEW start, NEW k, OpenConsumer(k, start)
      PROVE  Calls' /\ Fenced
  BY <1>1, InstallFenced, SMTT(30) DEF OpenConsumer
<1>2. ASSUME NEW start, NEW S, OpenConsumerGroup(S, start)
      PROVE  Calls' /\ Fenced
  BY <1>2, InstallFenced, ZenonT(30) DEF OpenConsumerGroup
<1>3. ASSUME NEW h, Close(h)
      PROVE  Calls' /\ Fenced
  <2>1. UNCHANGED ackedNext
    BY <1>3 DEF Close
  <2> QED
    BY <1>3, <2>1, CloseKeeps DEF Calls, Fenced
<1>4. ASSUME NEW h, NEW k, LeaseLapses(h, k)
      PROVE  Calls' /\ Fenced
  <2>1. HandlesKept /\ UNCHANGED <<op, ackedNext>>
    BY <1>4, CallStepQuiet, ZenonT(30) DEF LeaseLapses
  <2> QED
    BY <2>1 DEF Calls, Fenced, HandlesKept
<1>5. ASSUME NEW h, NEW k,
             Poll(h, k) \/ PollBegins(h, k) \/ FetchFails(h, k) \/ PollEnds(h, k)
               \/ Commit(h, k)
      PROVE  Calls' /\ Fenced
  <2>1. HandlesKept /\ UNCHANGED ackedNext /\ Calls'
    BY <1>5, CallStepQuiet, CallStepCalls
  <2> QED
    BY <2>1 DEF Fenced, HandlesKept
<1>6. ASSUME NEW h, NEW k, NEW to, PollReturns(h, k, to)
      PROVE  Calls' /\ Fenced
  BY <1>6, PollReturnsFenced DEF Fenced, Owns
<1>7. ASSUME NEW h, NEW k, NEW next, CommitRuns(h, k, next)
      PROVE  Calls' /\ Fenced
  <2>1. Calls' /\ HandlesKept
    BY <1>7, CommitRunsFenced, SMTT(30)
  <2>2. ASSUME NEW i \in Opened, NEW j \in DOMAIN op[i], op[i][j].step = "commit",
               op'[i][j] = NoCall, ackedNext' # ackedNext
        PROVE  /\ j \in DOMAIN stored.owner /\ stored.owner[j] = i
               /\ stored.generation = handles[i].generation
    <3>1. op'[i][j].step # op[i][j].step
      BY <2>2 DEF NoCall
    <3> QED
      BY <1>7, <2>2, <3>1, CommitRunsFenced DEF Owns
  <2> QED
    BY <2>1, <2>2 DEF Fenced, HandlesKept
<1>8. CASE Restart
  <2>1. Opened' = {}
    BY <1>8 DEF Restart, Opened
  <2> QED
    BY <2>1 DEF Calls, Fenced
<1>9. ASSUME NEW k, AppendRecord(k)
      PROVE  Calls' /\ Fenced
  BY <1>9 DEF AppendRecord, Calls, Fenced, Opened
<1>10. CASE UNCHANGED vars
  BY <1>10 DEF vars, Calls, Fenced, Opened
<1> HIDE DEF Calls, Fenced
<1> QED
  BY <1>1, <1>2, <1>3, <1>4, <1>5, <1>6, <1>7, <1>8, <1>9, <1>10 DEF Next, CallStep

\* A replaced handle delivers nothing and commits nothing: a cursor moves and a
\* commit is acknowledged only for the handle the log names as the owner.
THEOREM OnlyTheOwnerProgresses == Spec => OnlyOwnerProgresses
<1>1. Init => Calls
  <2>1. ASSUME Init PROVE Opened = {}
    BY <2>1 DEF Init, Opened
  <2> QED
    BY <2>1 DEF Calls
<1>2. IInv /\ Calls /\ [Next]_vars => Calls' /\ [Fenced]_vars
  BY NextFenced
<1> QED
  BY <1>1, <1>2, Invariance, PTL DEF Spec, OnlyOwnerProgresses, Fenced

-----------------------------------------------------------------------------
(* The lease of an admitted call.                                          *)

\* A call of h began before every deadline of h, and h has not expired.
Admitted(h) ==
    /\ ~handles[h].expired
    /\ \E k \in DOMAIN op[h] : op[h][k].before = DOMAIN op[h]

\* h is neither expired nor, if it is the live snapshot, withdrawn.
LeaseKept(h) == ~handles'[h].expired /\ (groupConsumer = h => groupConsumer' # None)

\* No lease of such a handle is found idle.
LEMMA AdmittedNotIdle ==
    ASSUME NEW h, Admitted(h), NEW j \in DOMAIN op[h]
    PROVE  ~Idle(h, j)
BY DEF Admitted, Idle

\* A handle is a session number, never None.
LEMMA HandleIsSession ==
    ASSUME IInv, NEW h \in Opened
    PROVE  h # None /\ h # sessions + 1 /\ handles[h] \in HandleRecord
BY DEF IInv, HandlesOK, Types, None

\* A refused call of any handle.
LEMMA RefusedAdmitted ==
    ASSUME IInv, NEW h \in Opened, Admitted(h), NEW i \in Opened, NEW k \in DOMAIN op[i],
           Refused(i, k)
    PROVE  LeaseKept(h)
<1>1. h # None /\ handles[i] \in HandleRecord /\ DOMAIN handles = Opened
  BY HandleIsSession DEF Opened
<1>2. CASE Verdict(i, k) # "expired"
  BY <1>1, <1>2 DEF Refused, registry, LeaseKept, Admitted
<1>3. CASE Verdict(i, k) = "expired" /\ handles[i].kind = "single"
  <2>1. handles[i].expired \/ Idle(i, k)
    BY <1>3 DEF Verdict, SingleVerdict
  <2>2. i # h
    BY <2>1, AdmittedNotIdle DEF Admitted
  <2>3. handles'[h] = handles[h] /\ UNCHANGED groupConsumer
    BY <1>1, <1>3, <2>2 DEF Refused
  <2> QED
    BY <1>1, <2>3 DEF LeaseKept, Admitted
<1>4. CASE Verdict(i, k) = "expired" /\ handles[i].kind # "single"
  <2>1. groupConsumer = i /\ \E j \in DOMAIN op[i] : Idle(i, j)
    BY <1>4 DEF Verdict, GroupVerdict, Registered
  <2>2. i # h
    BY <2>1, AdmittedNotIdle
  <2>3. UNCHANGED handles
    BY <1>4 DEF Refused
  <2> QED
    BY <2>1, <2>2, <2>3 DEF LeaseKept, Admitted
<1> QED
  BY <1>2, <1>3, <1>4

\* Every step, while the handle is there and open.
LEMMA NextAdmitted ==
    ASSUME IInv, [Next]_vars, NEW h \in Opened \cap Opened', Admitted(h),
           ~handles'[h].closed
    PROVE  LeaseKept(h)
<1>1. h \in Opened /\ h # None /\ h # sessions + 1 /\ DOMAIN handles = Opened
  BY HandleIsSession DEF Opened
<1>2. ASSUME handles'[h].expired = handles[h].expired, UNCHANGED groupConsumer
      PROVE  LeaseKept(h)
  BY <1>1, <1>2, SMTT(30) DEF LeaseKept, Admitted
<1>3. ASSUME NEW kind, NEW S, NEW start, NEW kept, NEW installed,
             Install(kind, S, start, kept, installed)
      PROVE  handles'[h] = handles[h] /\ groupConsumer' \in {kept[2], installed[2]}
  BY <1>1, <1>3, SMTT(30) DEF Install, With, SetRegistry, Opened
<1>4. ASSUME NEW start, NEW k, OpenConsumer(k, start)
      PROVE  LeaseKept(h)
  <2>1. handles'[h] = handles[h] /\ UNCHANGED groupConsumer
    BY <1>3, <1>4 DEF OpenConsumer, registry
  <2> QED
    BY <1>2, <2>1
<1>5. ASSUME NEW start, NEW S, OpenConsumerGroup(S, start)
      PROVE  LeaseKept(h)
  <2> DEFINE idle == \E k \in DOMAIN op[groupConsumer] : Idle(groupConsumer, k)
             expired == /\ groupConsumer # None /\ ~handles[groupConsumer].closed
                        /\ group.created
                        /\ group.generation = handles[groupConsumer].generation
                        /\ idle
  <2>1. Install("group", S, start, <<consumers, IF expired THEN None ELSE groupConsumer>>,
                <<consumers, sessions + 1>>)
    BY <1>5 DEF OpenConsumerGroup
  <2>2. /\ handles'[h] = handles[h]
        /\ groupConsumer' \in {IF expired THEN None ELSE groupConsumer, sessions + 1}
    <3> HIDE DEF expired
    <3> QED
      BY <1>3, <2>1, SMTT(30)
  <2>3. groupConsumer = h => ~expired
    BY <1>1, AdmittedNotIdle
  <2>4. sessions + 1 # None
    BY SMTT(30) DEF IInv, Types, None
  <2> HIDE DEF expired
  <2> QED
    BY <1>1, <2>2, <2>3, <2>4, SMTT(30) DEF LeaseKept, Admitted
<1>6. ASSUME NEW i, Close(i)
      PROVE  LeaseKept(h)
  <2>1. i # h
    <3>1. [handles[h] EXCEPT !.closed = TRUE].closed
      BY HandleIsSession DEF HandleRecord
    <3>2. CASE handles' = Without(handles, i)
      BY <1>1, <3>2 DEF Without, Opened
    <3>3. CASE handles' = [handles EXCEPT ![i].closed = TRUE]
      BY <1>1, <3>1, <3>3
    <3> QED
      BY <1>6, <3>2, <3>3 DEF Close
  <2>2. handles'[h] = handles[h]
    BY <1>1, <1>6, <2>1 DEF Close, Without, Opened
  <2>3. groupConsumer = h => groupConsumer' = h
    BY <1>6, <2>1 DEF Close, Withdraw
  <2> QED
    BY <1>1, <2>2, <2>3 DEF LeaseKept, Admitted
<1>8. ASSUME NEW i, NEW k, CallStep(i, k)
      PROVE  LeaseKept(h)
  <2>1. /\ i \in Opened /\ k \in DOMAIN op[i] /\ handles[i] \in HandleRecord
        /\ Renewed(i, k).expired = handles[i].expired
    BY <1>8, HandleIsSession, ZenonT(30)
      DEF CallStep, Poll, Commit, BeginCall, PollBegins, FetchFails,
      PollReturns, PollEnds, CommitRuns, LeaseLapses, Renewed, HandleRecord
  <2>2. ASSUME handles' = [handles EXCEPT ![i] = Renewed(i, k)], UNCHANGED groupConsumer
        PROVE  LeaseKept(h)
    <3>1. handles'[h].expired = handles[h].expired
      BY <1>1, <2>1, <2>2
    <3> QED
      BY <1>2, <2>2, <3>1
  <2>3. CASE Poll(i, k) \/ Commit(i, k) \/ FetchFails(i, k)
    BY <1>2, <2>3 DEF Poll, Commit, BeginCall, FetchFails, registry
  <2>4. CASE PollBegins(i, k)
    BY <1>1, <2>1, <2>2, <2>4, RefusedAdmitted DEF PollBegins, registry
  <2>5. ASSUME NEW to, PollReturns(i, k, to)
        PROVE  LeaseKept(h)
    <3>1. CASE Verdict(i, k) = "active"
      <4>1. handles' = [handles EXCEPT ![i].next[k] = to] /\ UNCHANGED groupConsumer
        BY <2>5, <3>1 DEF PollReturns, registry
      <4>2. handles'[h].expired = handles[h].expired
        BY <1>1, <2>1, <4>1 DEF HandleRecord
      <4> QED
        BY <1>2, <4>1, <4>2
    <3>2. CASE Verdict(i, k) # "active"
      BY <1>1, <2>1, <2>5, <3>2, RefusedAdmitted, SMTT(30) DEF PollReturns
    <3> QED
      BY <3>1, <3>2
  <2>6. CASE PollEnds(i, k)
    BY <1>2, <2>2, <2>6, SMTT(30) DEF PollEnds, registry
  <2>7. ASSUME NEW next, CommitRuns(i, k, next)
        PROVE  LeaseKept(h)
    BY <1>1, <2>1, <2>2, <2>7, RefusedAdmitted DEF CommitRuns, registry
  <2>8. CASE LeaseLapses(i, k)
    <3>1. handles'[h].expired = handles[h].expired /\ UNCHANGED groupConsumer
      BY <1>1, <2>1, <2>8 DEF LeaseLapses, HandleRecord, registry
    <3> QED
      BY <1>2, <3>1
  <2> QED
    BY <1>8, <2>3, <2>4, <2>5, <2>6, <2>7, <2>8, SMTT(30) DEF CallStep
<1>9. ~Restart
  BY DEF Restart, Opened
<1>10. ASSUME NEW k, AppendRecord(k)
       PROVE  LeaseKept(h)
  BY <1>2, <1>10 DEF AppendRecord, registry
<1>11. CASE UNCHANGED vars
  BY <1>2, <1>11 DEF vars, registry
<1> QED
  BY <1>4, <1>5, <1>6, <1>8, <1>9, <1>10, <1>11 DEF Next

\* What AdmittedCallKeepsLease says of one step.
Protection ==
    \A h \in Opened \cap Opened' : \A k \in DOMAIN op[h] :
       (op[h][k].before = DOMAIN op[h] /\ ~handles[h].expired /\ ~handles'[h].closed)
       => /\ ~handles'[h].expired
          /\ groupConsumer = h => groupConsumer' # None

\* "An admitted poll or commit renews/protects its member lease": nothing expires
\* a handle while a call that began before all its deadlines is pending.
THEOREM AdmittedCallsProtect == Spec => AdmittedCallKeepsLease
<1>1. IInv /\ [Next]_vars => [Protection]_vars
  <2>1. ASSUME IInv, [Next]_vars PROVE Protection
    BY <2>1, NextAdmitted DEF Protection, Admitted, LeaseKept
  <2> QED
    BY <2>1
<1> QED
  BY <1>1, Invariance, PTL DEF Spec, AdmittedCallKeepsLease, Protection

=============================================================================
