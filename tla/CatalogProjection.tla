------------------------- MODULE CatalogProjection -------------------------
(***************************************************************************)
(* The catalog's events and the projection that apply and replay build     *)
(* from them.  A topic is its TopicID; store and segment identities and    *)
(* header hashes are left out, since a segment is named by its base.       *)
(***************************************************************************)
EXTENDS Integers, Sequences

CONSTANTS
    Topics,     \* TopicIDs
    Partitions  \* the partition directory names of a topic, in order

Keys == Topics \X {Partitions[i] : i \in 1..Len(Partitions)}

EmptyProjection ==
    [revision |-> 0,                        \* next catalog offset
     topics   |-> {},                       \* topicsByID
     logStart |-> [k \in Keys |-> 0],       \* RetainedL
     maxH     |-> [k \in Keys |-> 0],       \* MaximumRecordedRetirementH
     retired  |-> [k \in Keys |-> {}]]      \* retired inventory: [base, end]

StoreInitialized == [kind |-> "StoreInitialized"]

TopicCreated(next, t) == [kind |-> "TopicCreated", next |-> next, topic |-> t]

\* retired is the sequence of segments [base, end] given up, in offset order.
LogStartAdvanced(next, k, old, end, retired) ==
    [kind |-> "LogStartAdvanced", next |-> next, key |-> k, old |-> old,
     new |-> retired[Len(retired)].end, end |-> end, retired |-> retired]

\* The retired segments are not empty and follow each other from old to new.
Contiguous(e) ==
    /\ e.retired # <<>>
    /\ e.retired[1].base = e.old
    /\ \A i \in 1..Len(e.retired) : e.retired[i].base < e.retired[i].end
    /\ \A i \in 2..Len(e.retired) : e.retired[i].base = e.retired[i - 1].end
    /\ e.retired[Len(e.retired)].end = e.new

\* What apply requires of the event at catalog offset p.revision.
Applicable(p, e) ==
    CASE e.kind = "StoreInitialized" -> p.revision = 0
      [] e.kind = "TopicCreated" ->
            /\ p.revision # 0
            /\ e.next = p.revision
            /\ e.topic \notin p.topics
      [] e.kind = "LogStartAdvanced" ->
            /\ e.next = p.revision
            /\ e.key[1] \in p.topics
            /\ e.old = p.logStart[e.key]
            /\ e.old < e.new
            /\ e.new <= e.end
            /\ p.maxH[e.key] <= e.end
            /\ Contiguous(e)

Apply(p, e) ==
    LET q == [p EXCEPT !.revision = @ + 1]
    IN  CASE e.kind = "StoreInitialized" -> q
          [] e.kind = "TopicCreated" -> [q EXCEPT !.topics = @ \cup {e.topic}]
          [] e.kind = "LogStartAdvanced" ->
                [q EXCEPT !.logStart[e.key] = e.new,
                          !.maxH[e.key] = e.end,
                          !.retired[e.key] = @ \cup {e.retired[i] : i \in 1..Len(e.retired)}]

\* replay: the projections after the first n events of the catalog.
Projections(catalog) ==
    LET P[n \in 0..Len(catalog)] ==
            IF n = 0 THEN EmptyProjection ELSE Apply(P[n - 1], catalog[n])
    IN  P

Replayable(catalog) ==
    \A n \in 1..Len(catalog) : Applicable(Projections(catalog)[n - 1], catalog[n])

Replay(catalog) == Projections(catalog)[Len(catalog)]

=============================================================================
