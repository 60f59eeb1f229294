------------------------------ MODULE Consumers ------------------------------
(***************************************************************************)
(* The managed consumers of one group: OpenConsumer and its handles,       *)
(* OpenConsumerGroup and its snapshots, Poll, Commit, Close, progress      *)
(* leases, and the offsets log that makes assignments and commits durable. *)
(*                                                                         *)
(* Everything that looks at or changes the group runs under store.mu, so   *)
(* each action is one critical section of it.  Between them calls of any   *)
(* handle interleave, leases lapse, records are appended, and the store    *)
(* goes down.  A group snapshot has one member for each key it subscribes. *)
(*                                                                         *)
(* Time is reduced to what the code asks of it: whether the deadline of a  *)
(* lease has passed (lapsed), and which deadlines were still ahead when a  *)
(* call that is now pending began (before).                                *)
(*                                                                         *)
(* expiredGroups only chooses the reason byte of the next assignment,      *)
(* which nothing reads, and is left out.                                   *)
(***************************************************************************)
EXTENDS Integers, FiniteSets, FiniteSetsExt, OffsetsProjection

CONSTANTS
    Keys,        \* topic partitions
    MaxHandles,  \* number of sessions generated; bounds the model
    Workloads,   \* which calls are made
    Faults       \* how an append to the offsets log may fail, and restarts

ASSUME ConsumersAssumption ==
    /\ IsFiniteSet(Keys)
    /\ MaxHandles \in Nat
    /\ \A w \in Workloads :
         /\ w.maxCallers \in Nat /\ w.maxEnd \in [Keys -> Nat]
         /\ w.singles \subseteq Keys /\ w.snapshots \subseteq SUBSET Keys
         /\ w.starts \subseteq {"earliest", "latest"}
    /\ Faults \subseteq {"refused", "unknown", "restart"}

Handles == 1..MaxHandles

None == 0

VARIABLES
    end,            \* key -> H of its partition
    group,          \* s.offsetsState: the projection in memory
    stored,         \* what the offsets log replays to
    unavailable,    \* s.offsetsUnavailable
    consumers,      \* s.consumers: key -> single-partition handle
    groupConsumer,  \* s.groupConsumers: the live snapshot of the group
    sessions,       \* number of sessions newConsumerSession has generated
    handles,        \* session -> the Consumer or GroupConsumer opened with it
    op,             \* handle -> key -> the call in progress
    delivered,      \* key -> offsets some Poll returned
    ackedNext,      \* key -> the highest position a Commit acknowledged
    load            \* the workload: keys OpenConsumer is called for (singles), memberships
                    \* OpenConsumerGroup is called for (snapshots), start policies (starts);
                    \* calls at once (maxCallers) and records per key (maxEnd) bound the model

registry == <<consumers, groupConsumer>>
offsets  == <<group, stored, unavailable>>
vars     == <<end, offsets, registry, sessions, handles, op, delivered, ackedNext, load>>

Opened == DOMAIN handles

NoCall == [step |-> "none", before |-> {}]

Init ==
    /\ load \in Workloads
    /\ end = [k \in Keys |-> 0]
    /\ group = NoGroup /\ stored = NoGroup /\ unavailable = FALSE
    /\ consumers = [k \in Keys |-> None] /\ groupConsumer = None
    /\ sessions = 0 /\ handles = << >> /\ op = << >>
    /\ delivered = [k \in Keys |-> {}]
    /\ ackedNext = [k \in Keys |-> 0]

-----------------------------------------------------------------------------
(* appendOffsetsEventLocked, and what its callers make of its errors.      *)

\* The event is appended, synced and applied.  An event that apply does not
\* accept is in the log all the same, and fences the offsets subsystem.
AppendOk(g, d, e) ==
    /\ stored' = apply(d, e)
    /\ group' = IF apply(g, e).corrupt THEN g ELSE apply(g, e)
    /\ unavailable' = apply(g, e).corrupt

\* Refused before anything was written: history budget or disk pressure.
AppendRefused(g, d) ==
    /\ "refused" \in Faults
    /\ group' = g /\ stored' = d /\ UNCHANGED unavailable

\* The outcome is unknown: groupAppendError and commitAppendError fence.
AppendUnknown(g, d, e) ==
    /\ "unknown" \in Faults
    /\ group' = g /\ stored' \in {d, apply(d, e)} /\ unavailable' = TRUE

AppendFails(g, d, e) == AppendRefused(g, d) \/ AppendUnknown(g, d, e)

-----------------------------------------------------------------------------
(* Opening.                                                                *)

\* resolveConsumerStart; L is 0.
resolveStart(k, start) == IF start = "earliest" THEN 0 ELSE end[k]

Resume(g, k, start) ==
    IF k \in DOMAIN g.progress THEN latestNext(g.progress[k]) ELSE resolveStart(k, start)

Assignment(g, h, S, start) ==
    AssignmentChanged(g.generation, [k \in S |-> h],
                      [k \in S |-> Resume(g, k, start)], S \ DOMAIN g.progress)

NewHandle(kind, g, S, start) ==
    [kind |-> kind, generation |-> g.generation + 1,
     next |-> [k \in S |-> Resume(g, k, start)],
     lapsed |-> {}, expired |-> FALSE, closed |-> FALSE]

With(f, h, v) == [i \in DOMAIN f \cup {h} |-> IF i = h THEN v ELSE f[i]]

Without(f, h) == [i \in DOMAIN f \ {h} |-> f[i]]

SetRegistry(r) == consumers' = r[1] /\ groupConsumer' = r[2]

\* What OpenConsumer and OpenConsumerGroup have in common: GroupCreated on first
\* use, the policy check, and the assignment that makes the handle the owner.
\* kept is the registry when no handle comes of it, installed when one does.
Install(kind, S, start, kept, installed) ==
    LET h == sessions + 1
        c == GroupCreated(start)
        g == IF group.created THEN group ELSE apply(group, c)
        d == IF group.created THEN stored ELSE apply(stored, c)
        e == Assignment(g, h, S, start)
    IN  \/ /\ ~group.created /\ AppendFails(group, stored, c)
           /\ SetRegistry(kept) /\ UNCHANGED <<sessions, handles, op>>
        \/ /\ g.mode # start
           /\ SetRegistry(kept) /\ UNCHANGED <<offsets, sessions, handles, op>>
        \/ /\ g.mode = start /\ AppendFails(g, d, e)
           /\ sessions' = h
           /\ SetRegistry(kept) /\ UNCHANGED <<handles, op>>
        \/ /\ g.mode = start /\ AppendOk(g, d, e)
           /\ sessions' = h
           /\ IF apply(g, e).corrupt
              THEN SetRegistry(kept) /\ UNCHANGED <<handles, op>>
              ELSE /\ SetRegistry(installed)
                   /\ handles' = With(handles, h, NewHandle(kind, g, S, start))
                   /\ op' = With(op, h, [k \in S |-> NoCall])

OpenConsumer(k, start) ==
    /\ sessions < MaxHandles /\ ~unavailable
    /\ Install("single", {k}, start, registry,
               <<[consumers EXCEPT ![k] = sessions + 1], groupConsumer>>)
    /\ UNCHANGED <<load, end, delivered, ackedNext>>

-----------------------------------------------------------------------------
(* Leases.                                                                 *)

Calling(h, k) == op[h][k].step # "none"

\* Consumer.operationActive, groupMember.inFlight.
InFlight(h, k) == op[h][k].step \in {"fetch", "ending"}

\* Mutant of Idle: a call that waits for store.mu does not count.
IdleUnlessActive(h, k) == k \in handles[h].lapsed /\ ~InFlight(h, k)

\* The lease of key k has run out with no operation to keep it: the deadline
\* has passed, and no pending call of the handle began before it.
Idle(h, k) ==
    /\ k \in handles[h].lapsed
    /\ ~InFlight(h, k)
    /\ \A j \in DOMAIN op[h] : k \notin op[h][j].before

\* A new deadline for key k: every pending call began before it.
Renewed(h, k) == [handles[h] EXCEPT !.lapsed = @ \ {k}]

Protected(calls, k) ==
    [j \in DOMAIN calls |-> IF calls[j].step = "none" THEN calls[j]
                            ELSE [calls[j] EXCEPT !.before = @ \cup {k}]]

\* Nobody looks at the deadlines of a snapshot that is not registered.
LeaseLapses(h, k) ==
    /\ h \in Opened /\ k \in DOMAIN op[h] \ handles[h].lapsed
    /\ ~handles[h].closed
    /\ handles[h].kind = "single" \/ groupConsumer = h
    /\ handles' = [handles EXCEPT ![h].lapsed = @ \cup {k}]
    /\ UNCHANGED <<load, end, sessions, offsets, registry, op, delivered, ackedNext>>

-----------------------------------------------------------------------------
(* The fence every operation passes.                                       *)

Registered(h, k) ==
    IF handles[h].kind = "single" THEN consumers[k] = h ELSE groupConsumer = h

\* Mutant of Owns: the generation is not compared.
OwnsKey(h, k) == k \in DOMAIN group.owner

\* The durable assignment is still the handle's.
Owns(h, k) ==
    /\ group.created
    /\ group.generation = handles[h].generation
    /\ k \in DOMAIN group.owner /\ group.owner[k] = h

\* activePartitionLocked.
SingleVerdict(h, k) ==
    IF handles[h].closed THEN "closed"
    ELSE IF handles[h].expired \/ Idle(h, k) THEN "expired"
    ELSE IF unavailable THEN "unavailable"
    ELSE IF Registered(h, k) /\ Owns(h, k) THEN "active" ELSE "lost"

\* activeCursorLocked.
GroupVerdict(h, k) ==
    IF handles[h].closed THEN "closed"
    ELSE IF unavailable THEN "unavailable"
    ELSE IF ~Registered(h, k) THEN "lost"
    ELSE IF \E j \in DOMAIN op[h] : Idle(h, j) THEN "expired"
    ELSE IF Owns(h, k) THEN "active" ELSE "lost"

Verdict(h, k) ==
    IF handles[h].kind = "single" THEN SingleVerdict(h, k) ELSE GroupVerdict(h, k)

\* The refusal withdraws an expired handle from the registry.  A single handle
\* takes out whatever is registered for its key.
Refused(h, k) ==
    IF Verdict(h, k) # "expired" THEN UNCHANGED <<registry, handles>>
    ELSE IF handles[h].kind = "single"
    THEN /\ consumers' = [consumers EXCEPT ![k] = None]
         /\ handles' = [handles EXCEPT ![h].expired = TRUE]
         /\ UNCHANGED groupConsumer
    ELSE groupConsumer' = None /\ UNCHANGED <<consumers, handles>>

-----------------------------------------------------------------------------
(* OpenConsumerGroup.                                                      *)

\* liveGroupConsumerLocked.
Live(h) ==
    /\ ~handles[h].closed
    /\ \A k \in DOMAIN op[h] : Owns(h, k)
    /\ DOMAIN group.owner = DOMAIN op[h]

\* An equivalent request returns the live snapshot and changes nothing.  One
\* found idle is withdrawn first.
OpenConsumerGroup(S, start) ==
    LET current == groupConsumer
        expired == /\ current # None
                   /\ ~handles[current].closed
                   /\ group.created /\ group.generation = handles[current].generation
                   /\ \E k \in DOMAIN op[current] : Idle(current, k)
        same    == /\ current # None /\ ~expired /\ Live(current)
                   /\ DOMAIN op[current] = S /\ group.mode = start
    IN  /\ sessions < MaxHandles /\ ~unavailable
        /\ ~same
        /\ Install("group", S, start,
                   <<consumers, IF expired THEN None ELSE current>>,
                   <<consumers, sessions + 1>>)
        /\ UNCHANGED <<load, end, delivered, ackedNext>>

-----------------------------------------------------------------------------
(* Poll.                                                                   *)

\* A call passes the operation mutex of its handle or cursor and registers
\* itself with the admission before it waits for store.mu.
BeginCall(h, k, step) ==
    /\ h \in Opened /\ k \in DOMAIN op[h]
    /\ ~handles[h].closed /\ ~Calling(h, k)
    /\ Cardinality({c \in Opened \X Keys :
         c[2] \in DOMAIN op[c[1]] /\ Calling(c[1], c[2])}) < load.maxCallers
    /\ op' = [op EXCEPT ![h][k] =
                [step |-> step, before |-> DOMAIN op[h] \ handles[h].lapsed]]
    /\ UNCHANGED <<load, end, sessions, offsets, registry, handles, delivered, ackedNext>>

Poll(h, k) == BeginCall(h, k, "poll")

\* Poll's first critical section: beginOperationLocked, beginCursorOperationLocked.
PollBegins(h, k) ==
    /\ h \in Opened /\ k \in DOMAIN op[h] /\ op[h][k].step = "poll"
    /\ IF Verdict(h, k) = "active"
       THEN /\ handles' = [handles EXCEPT ![h] = Renewed(h, k)]
            /\ op' = [op EXCEPT ![h] =
                        Protected([op[h] EXCEPT ![k].step = "fetch"], k)]
            /\ UNCHANGED registry
       ELSE Refused(h, k) /\ op' = [op EXCEPT ![h][k] = NoCall]
    /\ UNCHANGED <<load, end, sessions, offsets, delivered, ackedNext>>

\* partition.Fetch or waitForData fails; nothing is checked again.
FetchFails(h, k) ==
    /\ h \in Opened /\ k \in DOMAIN op[h] /\ op[h][k].step = "fetch"
    /\ op' = [op EXCEPT ![h][k].step = "ending"]
    /\ UNCHANGED <<load, end, sessions, offsets, registry, handles, delivered, ackedNext>>

\* Mutant of PollReturns: the fence is not checked again.
PollReturnsUnchecked(h, k, to) ==
    /\ h \in Opened /\ k \in DOMAIN op[h] /\ op[h][k].step = "fetch"
    /\ to \in handles[h].next[k]..end[k]
    /\ handles' = [handles EXCEPT ![h].next[k] = to]
    /\ delivered' = [delivered EXCEPT ![k] = @ \cup (handles[h].next[k]..(to - 1))]
    /\ op' = [op EXCEPT ![h][k].step = "ending"]
    /\ UNCHANGED <<load, end, sessions, offsets, registry, ackedNext>>

\* Fetch, after waiting for data or not, found the records below to.  It runs
\* without store.mu; as the log only grows, what it found earlier is still
\* there.  Poll's second critical section: the fence again, then the cursor.
PollReturns(h, k, to) ==
    /\ h \in Opened /\ k \in DOMAIN op[h] /\ op[h][k].step = "fetch"
    /\ to \in handles[h].next[k]..end[k]
    /\ IF Verdict(h, k) = "active"
       THEN /\ handles' = [handles EXCEPT ![h].next[k] = to]
            /\ delivered' = [delivered EXCEPT ![k] = @ \cup (handles[h].next[k]..(to - 1))]
            /\ UNCHANGED registry
       ELSE Refused(h, k) /\ UNCHANGED delivered
    /\ op' = [op EXCEPT ![h][k].step = "ending"]
    /\ UNCHANGED <<load, end, sessions, offsets, ackedNext>>

\* The deferred third one: endOperationLocked, endCursorOperationLocked.
PollEnds(h, k) ==
    /\ h \in Opened /\ k \in DOMAIN op[h] /\ op[h][k].step = "ending"
    /\ handles' = IF ~handles[h].closed /\ Registered(h, k)
                  THEN [handles EXCEPT ![h] = Renewed(h, k)] ELSE handles
    /\ op' = [op EXCEPT ![h] =
                IF ~handles[h].closed /\ Registered(h, k)
                THEN Protected([@ EXCEPT ![k] = NoCall], k) ELSE [@ EXCEPT ![k] = NoCall]]
    /\ UNCHANGED <<load, end, sessions, offsets, registry, delivered, ackedNext>>

-----------------------------------------------------------------------------
(* Commit.                                                                 *)

Commit(h, k) == BeginCall(h, k, "commit")

\* Mutant of CommitAllowed: the delivered prefix is not looked at.
CommitAllowedToEnd(h, k, next) ==
    latestNext(group.progress[k]) <= next /\ next <= end[k]

\* The position lies between the durable one and what the handle delivered.
CommitAllowed(h, k, next) ==
    /\ latestNext(group.progress[k]) <= next
    /\ next <= handles[h].next[k]
    /\ next <= end[k]

\* Commit's critical section, its append included.
CommitRuns(h, k, next) ==
    LET p == group.progress[k]
        e == OffsetCommitted(handles[h].generation, h, k, p, next)
        acknowledged == ackedNext' = [ackedNext EXCEPT ![k] = Max({@, next})]
    IN  /\ h \in Opened /\ k \in DOMAIN op[h] /\ op[h][k].step = "commit"
        /\ IF Verdict(h, k) # "active"
           THEN /\ Refused(h, k) /\ op' = [op EXCEPT ![h][k] = NoCall]
                /\ UNCHANGED <<offsets, ackedNext>>
           ELSE /\ handles' = [handles EXCEPT ![h] = Renewed(h, k)]
                /\ op' = [op EXCEPT ![h] = Protected([@ EXCEPT ![k] = NoCall], k)]
                /\ UNCHANGED registry
                /\ \/ /\ ~CommitAllowed(h, k, next)
                      /\ UNCHANGED <<offsets, ackedNext>>
                   \/ /\ CommitAllowed(h, k, next)
                      /\ p.hasCommit /\ next = latestNext(p)
                      /\ acknowledged /\ UNCHANGED offsets
                   \/ /\ CommitAllowed(h, k, next)
                      /\ ~(p.hasCommit /\ next = latestNext(p))
                      /\ \/ AppendFails(group, stored, e) /\ UNCHANGED ackedNext
                         \/ /\ AppendOk(group, stored, e)
                            /\ IF apply(group, e).corrupt THEN UNCHANGED ackedNext
                               ELSE acknowledged
        /\ UNCHANGED <<load, end, sessions, delivered>>

-----------------------------------------------------------------------------
(* Close, and the store going down.                                        *)

\* Mutant of Withdraw: the closed handle stays registered.
WithdrawNothing(h) == UNCHANGED registry

\* The registry without handle h.
Withdraw(h) ==
    /\ consumers' = [k \in Keys |-> IF consumers[k] = h THEN None ELSE consumers[k]]
    /\ groupConsumer' = IF groupConsumer = h THEN None ELSE groupConsumer

\* Consumer.Close waits for the handle's call; GroupConsumer.Close does not.
\* The assignment is revoked when it is still the handle's.  A closed handle
\* answers ErrClosed to everything, and is dropped once it has no call.
Close(h) ==
    LET e == EmptyAssignment(group.generation)
        registered == \E k \in DOMAIN op[h] : Registered(h, k)
        owned == IF handles[h].kind = "single" THEN \A k \in DOMAIN op[h] : Owns(h, k)
                 ELSE group.created /\ group.generation = handles[h].generation
    IN  /\ h \in Opened /\ ~handles[h].closed
        /\ handles[h].kind = "single" => \A k \in DOMAIN op[h] : ~Calling(h, k)
        /\ IF \A k \in DOMAIN op[h] : ~Calling(h, k)
           THEN handles' = Without(handles, h) /\ op' = Without(op, h)
           ELSE handles' = [handles EXCEPT ![h].closed = TRUE] /\ UNCHANGED op
        /\ Withdraw(h)
        /\ \/ ~(registered /\ ~unavailable /\ owned) /\ UNCHANGED offsets
           \/ /\ registered /\ ~unavailable /\ owned
              /\ AppendOk(group, stored, e) \/ AppendFails(group, stored, e)
        /\ UNCHANGED <<load, end, sessions, delivered, ackedNext>>

\* The store goes down in any way and is opened again: its handles are dead,
\* and the projection is what the log replays to.
Restart ==
    /\ "restart" \in Faults /\ ~stored.corrupt
    /\ group' = stored /\ unavailable' = FALSE
    /\ consumers' = [k \in Keys |-> None] /\ groupConsumer' = None
    /\ handles' = << >> /\ op' = << >>
    /\ UNCHANGED <<load, end, sessions, stored, delivered, ackedNext>>

\* A record becomes readable in a partition.
AppendRecord(k) ==
    /\ end[k] < load.maxEnd[k]
    /\ end' = [end EXCEPT ![k] = @ + 1]
    /\ UNCHANGED <<load, sessions, offsets, registry, handles, op, delivered, ackedNext>>

CallStep(h, k) ==
    \/ Poll(h, k) \/ PollBegins(h, k) \/ FetchFails(h, k) \/ PollEnds(h, k)
    \/ \E to \in 0..load.maxEnd[k] : PollReturns(h, k, to)
    \/ Commit(h, k) \/ \E next \in 0..load.maxEnd[k] : CommitRuns(h, k, next)
    \/ LeaseLapses(h, k)

Next ==
    \/ \E start \in load.starts :
         \/ \E k \in load.singles : OpenConsumer(k, start)
         \/ \E S \in load.snapshots : OpenConsumerGroup(S, start)
    \/ \E h \in Handles : Close(h) \/ \E k \in Keys : CallStep(h, k)
    \/ Restart
    \/ \E k \in Keys : AppendRecord(k)

Spec == Init /\ [][Next]_vars

-----------------------------------------------------------------------------
(* Properties.                                                             *)

Positions == 0..Max({load.maxEnd[k] : k \in Keys})

GroupOK(g) ==
    /\ g.created \in BOOLEAN /\ g.corrupt \in BOOLEAN
    /\ g.mode \in load.starts \cup {"none"}
    /\ g.generation \in 0..(2 * MaxHandles)
    /\ DOMAIN g.owner \subseteq Keys /\ DOMAIN g.progress \subseteq Keys
    /\ \A k \in DOMAIN g.owner : g.owner[k] \in 1..sessions
    /\ \A k \in DOMAIN g.progress :
         g.progress[k] \in [initial : Positions, hasCommit : BOOLEAN, committed : Positions]

\* The types; the registry names handles that were opened and not closed.
TypeOK ==
    /\ \A k \in Keys : end[k] \in 0..load.maxEnd[k]
    /\ GroupOK(group) /\ GroupOK(stored) /\ unavailable \in BOOLEAN
    /\ sessions \in 0..MaxHandles /\ Opened \subseteq 1..sessions
    /\ \A k \in Keys : consumers[k] # None => consumers[k] \in Opened /\
         handles[consumers[k]].kind = "single" /\ ~handles[consumers[k]].closed
    /\ groupConsumer # None => groupConsumer \in Opened /\
         handles[groupConsumer].kind = "group" /\ ~handles[groupConsumer].closed
    /\ \A h \in Opened : \A k \in DOMAIN op[h] :
         /\ op[h][k].step \in {"none", "poll", "fetch", "ending", "commit"}
         /\ op[h][k].before \subseteq DOMAIN op[h]
         /\ handles[h].next[k] \in 0..end[k]

\* Unless the offsets subsystem is fenced, the projection in memory is what the
\* log would replay to, and replay accepts every event ever appended: no stale
\* handle and no failed append leaves an event the next open calls corrupt.
ProjectionMatchesLog == ~stored.corrupt /\ (group = stored \/ unavailable)

\* At-least-once delivery: the durable position of a key never passes a record
\* that no Poll returned, whatever handles were replaced, expired or crashed.
CommittedWasDelivered ==
    \A k \in DOMAIN stored.progress :
        LET p == stored.progress[k]
        IN  p.initial..(latestNext(p) - 1) \subseteq delivered[k]

\* A position Commit acknowledged is never taken back: every later handle
\* resumes at or after it.
AckedCommitSurvives ==
    \A k \in Keys : ackedNext[k] > 0 =>
        k \in DOMAIN stored.progress /\ ackedNext[k] <= latestNext(stored.progress[k])

\* A handle that was replaced delivers nothing and commits nothing any more: a
\* Poll returns records, and durable progress moves, only for the handle the
\* log names as the owner in its current generation.
OnlyOwnerProgresses ==
    [][\A h \in Opened \cap Opened' : \A k \in DOMAIN op[h] :
         (handles'[h].next[k] # handles[h].next[k]
            \/ (op[h][k].step = "commit" /\ op'[h][k] = NoCall /\ ackedNext' # ackedNext))
         => /\ k \in DOMAIN stored.owner /\ stored.owner[k] = h
            /\ stored.generation = handles[h].generation]_vars

\* "An admitted poll or commit renews/protects its member lease": while a call
\* that began before the deadlines of its handle waits for the store lock or for
\* data, nothing expires the handle.
AdmittedCallKeepsLease ==
    [][\A h \in Opened \cap Opened' : \A k \in DOMAIN op[h] :
         (op[h][k].before = DOMAIN op[h] /\ ~handles[h].expired /\ ~handles'[h].closed)
         => /\ ~handles'[h].expired
            /\ groupConsumer = h => groupConsumer' # None]_vars

\* A handle leaves the registry only by its own Close or expiry, by a later
\* open, or with the store: a stale handle does not unregister its replacement.
ReplacementStaysRegistered ==
    [][\A k \in Keys : LET h == consumers[k] IN
         (h # None /\ consumers'[k] = None)
         => h \notin Opened' \/ handles'[h].closed \/ handles'[h].expired]_vars

=============================================================================
