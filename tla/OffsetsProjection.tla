-------------------------- MODULE OffsetsProjection --------------------------
(***************************************************************************)
(* The offsets projection of one consumer group: what the events of the    *)
(* offsets log make of it, as offsetsProjection.apply computes it while    *)
(* the store runs and again when the log is replayed.                      *)
(*                                                                         *)
(* A member session is the handle that created it, since every open makes  *)
(* fresh ones.  The store ID, the catalog revision, the reason byte and    *)
(* the canonical order of the lists are checked by apply and never vary    *)
(* here.                                                                   *)
(***************************************************************************)
EXTENDS Integers

\* A group that has no GroupCreated event yet.
NoGroup == [created |-> FALSE, mode |-> "none", generation |-> 0,
            owner |-> << >>, progress |-> << >>, corrupt |-> FALSE]

\* apply returned an error: the event is in the log and cannot be replayed.
Corrupt(g) == [g EXCEPT !.corrupt = TRUE]

latestNext(p) == IF p.hasCommit THEN p.committed ELSE p.initial

GroupCreated(mode) == [type |-> "created", mode |-> mode]

\* One entry per assigned key; fresh are the keys whose baseline it creates.
AssignmentChanged(expected, owner, resume, fresh) ==
    [type |-> "assigned", expected |-> expected, owner |-> owner,
     resume |-> resume, fresh |-> fresh]

EmptyAssignment(expected) == AssignmentChanged(expected, << >>, << >>, {})

\* p is the progress the writer saw.
OffsetCommitted(generation, session, key, p, next) ==
    [type |-> "committed", generation |-> generation, session |-> session,
     key |-> key, kind |-> p.hasCommit, previous |-> latestNext(p), next |-> next]

applyGroupCreated(g, e) ==
    IF g.created THEN Corrupt(g)
    ELSE [g EXCEPT !.created = TRUE, !.mode = e.mode]

\* The compare-and-append fields of an assignment.
AssignmentMatches(g, e) ==
    /\ g.created
    /\ e.expected = g.generation
    /\ \A k \in DOMAIN e.owner :
         IF k \in e.fresh THEN k \notin DOMAIN g.progress
         ELSE k \in DOMAIN g.progress /\ e.resume[k] = latestNext(g.progress[k])

\* Mutant of applyAssignment: the progress of other keys is not carried over.
applyAssignmentForgetful(g, e) ==
    IF ~AssignmentMatches(g, e) THEN Corrupt(g)
    ELSE [g EXCEPT
            !.generation = @ + 1,
            !.owner = e.owner,
            !.progress = [k \in DOMAIN e.owner |->
                IF k \in e.fresh
                THEN [initial |-> e.resume[k], hasCommit |-> FALSE, committed |-> 0]
                ELSE g.progress[k]]]

applyAssignment(g, e) ==
    IF ~AssignmentMatches(g, e) THEN Corrupt(g)
    ELSE [g EXCEPT
            !.generation = @ + 1,
            !.owner = e.owner,
            !.progress = [k \in DOMAIN @ \cup e.fresh |->
                IF k \in e.fresh
                THEN [initial |-> e.resume[k], hasCommit |-> FALSE, committed |-> 0]
                ELSE g.progress[k]]]

\* The ownership token and the previous position of a commit.
CommitMatches(g, e) ==
    /\ g.created
    /\ e.generation = g.generation
    /\ e.key \in DOMAIN g.progress
    /\ e.key \in DOMAIN g.owner
    /\ g.owner[e.key] = e.session
    /\ e.kind = g.progress[e.key].hasCommit
    /\ e.previous = latestNext(g.progress[e.key])
    /\ e.next >= e.previous

applyCommit(g, e) ==
    IF ~CommitMatches(g, e) THEN Corrupt(g)
    ELSE [g EXCEPT !.progress[e.key].hasCommit = TRUE,
                   !.progress[e.key].committed = e.next]

apply(g, e) ==
    IF g.corrupt THEN g
    ELSE CASE e.type = "created" -> applyGroupCreated(g, e)
           [] e.type = "assigned" -> applyAssignment(g, e)
           [] e.type = "committed" -> applyCommit(g, e)

=============================================================================
