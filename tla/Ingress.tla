------------------------------- MODULE Ingress -------------------------------
(***************************************************************************)
(* The concurrent half of a partition's write path: Partition.Append, the  *)
(* admission counters under queueMu, the ingress ring and its single       *)
(* processor, writeRequests, and closeWriter.                              *)
(*                                                                         *)
(* A request is one call of Append.  Each action is one critical section   *)
(* of queueMu or p.mu, or one step of the ring; every Append, the          *)
(* processor and every closer run concurrently.  What appendEncodedLocked  *)
(* does to the files is PartitionLog's; here it is one step with one of    *)
(* its four results.  A channel that is closed to wake its waiters is the  *)
(* set of waiters that captured it before (woken).                         *)
(***************************************************************************)
EXTENDS Integers, Sequences, FiniteSets, FiniteSetsExt, Functions

CONSTANTS
    Requests,          \* calls of Append
    Closers,           \* calls of Close
    Charge,            \* request -> bytes charged (requestCharge)
    InFlightRecords,   \* PartitionOptions.InFlightRecords
    InFlightBytes,     \* PartitionOptions.InFlightBytes
    AdmissionWaiters,  \* PartitionOptions.AdmissionWaiters
    BatchRecords,      \* PartitionOptions.BatchRecords
    Cancellable,       \* requests whose context may be cancelled
    Faults             \* which errors, and Store.Close, may happen

\* The largest window a partition may be configured with.
maxInFlightRecords == 65536

ASSUME IngressAssumption ==
    /\ IsFiniteSet(Requests) /\ "none" \notin Requests /\ IsFiniteSet(Closers)
    /\ Charge \in [Requests -> Nat \ {0}]
    /\ InFlightRecords \in 1..maxInFlightRecords
    /\ InFlightBytes \in Nat \ {0}
    /\ AdmissionWaiters \in Nat \ {0}
    /\ BatchRecords \in Nat \ {0}
    /\ Cancellable \subseteq Requests
    /\ Faults \subseteq {"diskPressure", "unavailable", "unknown", "tooLarge", "readError",
                        "storeClose"}

\* Mutant of Capacity: no room for the range being handled.
CapacityOfWindow == Min({2^k : k \in {j \in 0..17 : InFlightRecords <= 2^j}})

\* ingressCapacity: "active handler range plus the next admitted window",
\* rounded up to a power of two.
Capacity == Min({2^k : k \in {j \in 0..17 : 2 * InFlightRecords <= 2^j}})

VARIABLES
    pc,                \* request -> where its Append is
    result,            \* request -> what Append returned
    ctxDone,           \* requests whose context is cancelled
    woken,             \* waiting requests whose spaceWake has been closed
    admittedRecords, admittedBytes, publicationCredits, publishing, waiting,
    claims,            \* requests in the order of their ring sequences
    slots,             \* ring slot -> request stored in the event
    published,         \* sequences that are published
    processed,         \* processor.Sequence()
    handler,           \* the processor goroutine
    completed,         \* request -> resultVal, once complete has run
    log,               \* requests in the order of their offsets
    doubt,             \* requests in a batch whose write or sync failed
    unavailable, writerUnavailable, closing, closed,
    queueClosing, queueClosed, ringClosed, storeClosing,
    closer,            \* closer -> where its Close is
    reserved           \* requests holding a disk reservation

counters == <<admittedRecords, admittedBytes, publicationCredits, publishing, waiting>>
ring     == <<claims, slots, published, processed, ringClosed>>
data     == <<log, doubt>>
fence    == <<unavailable, writerUnavailable>>
shutdown == <<closing, closed, queueClosing, queueClosed, closer>>
calls    == <<pc, result, ctxDone, woken>>
vars == <<calls, counters, ring, handler, completed, data, fence, shutdown,
          storeClosing, reserved>>

None == "none"

HandlerIdle == [step |-> "wait", at |-> 0, end |-> 0, requests |-> << >>,
                group |-> << >>, outcome |-> None]

Slot(s) == (s - 1) % Capacity

Init ==
    /\ pc = [r \in Requests |-> "idle"] /\ result = [r \in Requests |-> None]
    /\ ctxDone = {} /\ woken = {}
    /\ admittedRecords = 0 /\ admittedBytes = 0 /\ publicationCredits = 0
    /\ publishing = 0 /\ waiting = 0
    /\ claims = << >> /\ slots = [i \in 0..(Capacity - 1) |-> None]
    /\ published = {} /\ processed = 0
    /\ handler = HandlerIdle
    /\ completed = [r \in Requests |-> None]
    /\ log = << >> /\ doubt = {}
    /\ unavailable = FALSE /\ writerUnavailable = FALSE
    /\ closing = FALSE /\ closed = FALSE
    /\ queueClosing = FALSE /\ queueClosed = FALSE /\ ringClosed = FALSE
    /\ storeClosing = FALSE
    /\ closer = [c \in Closers |-> "idle"]
    /\ reserved = {}

-----------------------------------------------------------------------------
(* Helpers.                                                                *)

Goto(r, step) == pc' = [pc EXCEPT ![r] = step]

Return(r, value) ==
    /\ pc' = [pc EXCEPT ![r] = "done"]
    /\ result' = [result EXCEPT ![r] = value]

\* signalSpaceLocked: close the channel every waiter holds.
signalSpaceLocked == woken' = woken \cup {r \in Requests : pc[r] = "waiting"}

\* Mutant of releaseAdmissionLocked: nobody is told about the space.
releaseAdmissionSilently(r) ==
    /\ admittedBytes' = IF Charge[r] <= admittedBytes THEN admittedBytes - Charge[r] ELSE 0
    /\ admittedRecords' = IF admittedRecords > 0 THEN admittedRecords - 1 ELSE 0
    /\ UNCHANGED woken

releaseAdmissionLocked(r) ==
    /\ admittedBytes' = IF Charge[r] <= admittedBytes THEN admittedBytes - Charge[r] ELSE 0
    /\ admittedRecords' = IF admittedRecords > 0 THEN admittedRecords - 1 ELSE 0
    /\ signalSpaceLocked

releasePublicationLocked ==
    publicationCredits' = IF publicationCredits > 0 THEN publicationCredits - 1 ELSE 0

\* Mutant of releaseReservationLocked: the ring credit is kept.
releaseReservationPartly(r) ==
    /\ UNCHANGED publicationCredits
    /\ releaseAdmissionLocked(r)

releaseReservationLocked(r) ==
    /\ releasePublicationLocked
    /\ releaseAdmissionLocked(r)

\* markIngressUnavailable: fence the partition and wake the waiters to see it.
markIngressUnavailable ==
    /\ unavailable' = TRUE /\ writerUnavailable' = TRUE
    /\ signalSpaceLocked

-----------------------------------------------------------------------------
(* Append up to the ring.                                                  *)

\* The checks before admission: context, store closing, disk reservation.
AppendCall(r) ==
    /\ pc[r] = "idle"
    /\ \/ /\ r \in ctxDone /\ Return(r, "cancelled") /\ UNCHANGED reserved
       \/ /\ r \notin ctxDone /\ storeClosing
          /\ Return(r, "closing") /\ UNCHANGED reserved
       \/ /\ r \notin ctxDone /\ ~storeClosing /\ "diskPressure" \in Faults
          /\ Return(r, "diskPressure") /\ UNCHANGED reserved
       \/ /\ r \notin ctxDone /\ ~storeClosing
          /\ Goto(r, "admit") /\ reserved' = reserved \cup {r}
          /\ UNCHANGED result
    /\ UNCHANGED <<ctxDone, woken, counters, ring, handler, completed, data, fence,
                   shutdown, storeClosing>>

HasSpace(r) ==
    /\ admittedRecords < InFlightRecords
    /\ admittedBytes <= InFlightBytes - Charge[r]
    /\ publicationCredits < Capacity

\* Why admit refuses the request, in the order of its checks.
AdmitRefusal(r) ==
    IF storeClosing THEN "closing"
    ELSE IF queueClosed THEN "closed"
    ELSE IF writerUnavailable THEN "unavailable"
    ELSE IF queueClosing THEN "closing"
    ELSE IF Charge[r] > InFlightBytes THEN "resourceLimit"
    ELSE IF ~HasSpace(r) /\ waiting >= AdmissionWaiters THEN "backpressure"
    ELSE None

\* One turn of admit's loop under queueMu.
admit(r) ==
    /\ pc[r] = "admit"
    /\ \/ /\ AdmitRefusal(r) # None
          /\ Return(r, AdmitRefusal(r)) /\ reserved' = reserved \ {r}
          /\ UNCHANGED counters
       \/ /\ AdmitRefusal(r) = None /\ HasSpace(r)
          /\ admittedBytes' = admittedBytes + Charge[r]
          /\ admittedRecords' = admittedRecords + 1
          /\ publicationCredits' = publicationCredits + 1
          /\ Goto(r, "admitted")
          /\ UNCHANGED <<publishing, waiting, result, reserved>>
       \/ /\ AdmitRefusal(r) = None /\ ~HasSpace(r)
          /\ waiting' = waiting + 1
          /\ Goto(r, "waiting")
          /\ UNCHANGED <<admittedBytes, admittedRecords, publicationCredits, publishing,
                         result, reserved>>
    /\ UNCHANGED <<ctxDone, woken, ring, handler, completed, data, fence, shutdown,
                   storeClosing>>

\* admit's select: cancelled, space, or closing, whichever is ready.
admitWakes(r) ==
    /\ pc[r] = "waiting"
    /\ waiting' = IF waiting > 0 THEN waiting - 1 ELSE 0
    /\ woken' = woken \ {r}
    /\ \/ /\ r \in ctxDone /\ Return(r, "cancelled") /\ reserved' = reserved \ {r}
       \/ /\ r \in woken /\ Goto(r, "admit") /\ UNCHANGED <<result, reserved>>
       \/ /\ queueClosing /\ Return(r, IF queueClosed THEN "closed" ELSE "closing")
          /\ reserved' = reserved \ {r}
    /\ UNCHANGED <<ctxDone, admittedBytes, admittedRecords, publicationCredits, publishing,
                   ring, handler, completed, data, fence, shutdown, storeClosing>>

\* The last look at the context before the input is copied.
CheckContext(r) ==
    /\ pc[r] = "admitted"
    /\ \/ /\ r \in ctxDone
          /\ releaseReservationLocked(r)
          /\ Return(r, "cancelled") /\ reserved' = reserved \ {r}
       \/ /\ r \notin ctxDone
          /\ Goto(r, "enqueue")
          /\ UNCHANGED <<admittedBytes, admittedRecords, publicationCredits, woken, result,
                         reserved>>
    /\ UNCHANGED <<ctxDone, publishing, waiting, ring, handler, completed, data, fence,
                   shutdown, storeClosing>>

\* Why enqueue refuses the request; sealed is set together with queueClosing,
\* or just before the ring is closed.
EnqueueRefusal ==
    IF queueClosed THEN "closed"
    ELSE IF writerUnavailable THEN "unavailable"
    ELSE IF queueClosing \/ ringClosed THEN "closing"
    ELSE None

enqueue(r) ==
    /\ pc[r] = "enqueue"
    /\ \/ /\ EnqueueRefusal # None
          /\ releaseReservationLocked(r)
          /\ Return(r, EnqueueRefusal) /\ reserved' = reserved \ {r}
          /\ UNCHANGED publishing
       \/ /\ EnqueueRefusal = None
          /\ publishing' = publishing + 1
          /\ Goto(r, "publish")
          /\ UNCHANGED <<admittedBytes, admittedRecords, publicationCredits, woken, result,
                         reserved>>
    /\ UNCHANGED <<ctxDone, waiting, ring, handler, completed, data, fence, shutdown,
                   storeClosing>>

-----------------------------------------------------------------------------
(* The ring.  lib-disruptor: a claim waits for the gating sequence, and    *)
(* fails when the context is cancelled or the ring is closed.              *)

RingHasRoom == Len(claims) - processed < Capacity

\* ring.Next.
ClaimSlot(r) ==
    /\ pc[r] = "publish" /\ RingHasRoom /\ ~ringClosed
    /\ claims' = Append(claims, r)
    /\ Goto(r, "claimed")
    /\ UNCHANGED <<result, ctxDone, woken, counters, slots, published, processed, ringClosed,
                   handler, completed, data, fence, shutdown, storeClosing, reserved>>

\* ring.Next fails: enqueue gives the reservation back; a closed ring also
\* fences the partition.
ClaimFails(r) ==
    /\ pc[r] = "publish"
    /\ \/ /\ r \in ctxDone
          /\ result' = [result EXCEPT ![r] = "cancelled"] /\ UNCHANGED fence
       \/ /\ ringClosed
          /\ result' = [result EXCEPT ![r] = "unavailable"]
          /\ unavailable' = TRUE /\ writerUnavailable' = TRUE
    /\ releaseReservationLocked(r)
    /\ Goto(r, "finishFailed")
    /\ UNCHANGED <<ctxDone, publishing, waiting, ring, handler, completed, data, shutdown,
                   storeClosing, reserved>>

\* The event is filled and the sequence published, in that order.
PublishSequence(r) ==
    /\ pc[r] = "claimed"
    /\ LET s == CHOOSE i \in DOMAIN claims : claims[i] = r
       IN  /\ slots' = [slots EXCEPT ![Slot(s)] = r]
           /\ published' = published \cup {s}
    /\ Goto(r, "finishPublished")
    /\ UNCHANGED <<result, ctxDone, woken, counters, claims, processed, ringClosed, handler,
                   completed, data, fence, shutdown, storeClosing, reserved>>

\* Mutant of finishPublisher: a failed publication stays counted.
finishPublisherUnlessFailed(r) ==
    /\ \/ /\ pc[r] = "finishPublished" /\ Goto(r, "await") /\ UNCHANGED reserved
          /\ publishing' = publishing - 1
       \/ /\ pc[r] = "finishFailed" /\ Goto(r, "done") /\ reserved' = reserved \ {r}
          /\ UNCHANGED publishing
    /\ UNCHANGED <<result, ctxDone, woken, admittedBytes, admittedRecords,
                   publicationCredits, waiting, ring, handler, completed, data, fence,
                   shutdown, storeClosing>>

finishPublisher(r) ==
    /\ publishing' = IF publishing > 0 THEN publishing - 1 ELSE 0
    /\ \/ /\ pc[r] = "finishPublished" /\ Goto(r, "await") /\ UNCHANGED reserved
       \/ /\ pc[r] = "finishFailed" /\ Goto(r, "done") /\ reserved' = reserved \ {r}
    /\ UNCHANGED <<result, ctxDone, woken, admittedBytes, admittedRecords,
                   publicationCredits, waiting, ring, handler, completed, data, fence,
                   shutdown, storeClosing>>

\* Mutant of waitResult: cancellation after publication looks like no write.
waitResultCancelled(r) ==
    /\ pc[r] = "await"
    /\ \/ completed[r] # None /\ Return(r, completed[r])
       \/ completed[r] = None /\ r \in ctxDone /\ Return(r, "cancelled")
    /\ UNCHANGED <<ctxDone, woken, counters, ring, handler, completed, data, fence, shutdown,
                   storeClosing, reserved>>

\* waitResult: the result, or an unknown outcome when the context is cancelled
\* before the request is complete.
waitResult(r) ==
    /\ pc[r] = "await"
    /\ \/ completed[r] # None /\ Return(r, completed[r])
       \/ completed[r] = None /\ r \in ctxDone /\ Return(r, "unknown")
    /\ UNCHANGED <<ctxDone, woken, counters, ring, handler, completed, data, fence, shutdown,
                   storeClosing, reserved>>

-----------------------------------------------------------------------------
(* The processor goroutine.                                                *)

\* complete(request, result).
complete(r, value) ==
    IF completed[r] # None
    THEN UNCHANGED <<completed, admittedBytes, admittedRecords, woken, reserved>>
    ELSE /\ completed' = [completed EXCEPT ![r] = value]
         /\ releaseAdmissionLocked(r)
         /\ reserved' = reserved \ {r}

\* Mutant of Available: a gap left by a slower publisher is not seen.
AvailableWithGaps == {s \in published : s > processed}

\* The published sequences after processed, without a gap.
Available ==
    {s \in published : s > processed /\ (processed + 1)..s \subseteq published}

\* The barrier hands out everything available as one range.
TakeRange ==
    /\ handler.step = "wait" /\ Available # {}
    /\ handler' = [handler EXCEPT !.step = "handle", !.at = processed, !.end = Max(Available)]
    /\ UNCHANGED <<calls, counters, ring, completed, data, fence, shutdown, storeClosing,
                   reserved>>

\* Mutant of Handle: the range is collected last first.
HandleReversed ==
    /\ handler.step = "handle"
    /\ LET s == handler.at + 1
           r == slots[Slot(s)]
       IN  /\ slots' = [slots EXCEPT ![Slot(s)] = None]
           /\ handler' = [handler EXCEPT !.at = s, !.requests = <<r>> \o @,
                            !.step = IF s = handler.end THEN "write" ELSE "handle"]
    /\ releasePublicationLocked
    /\ UNCHANGED <<calls, admittedBytes, admittedRecords, publishing, waiting, claims,
                   published, processed, ringClosed, completed, data, fence, shutdown,
                   storeClosing, reserved>>

\* Handle: take the request out of the event and return its ring credit.  The
\* last event of the range starts the writing.
Handle ==
    /\ handler.step = "handle"
    /\ LET s == handler.at + 1
           r == slots[Slot(s)]
       IN  /\ slots' = [slots EXCEPT ![Slot(s)] = None]
           /\ handler' = [handler EXCEPT !.at = s, !.requests = Append(@, r),
                            !.step = IF s = handler.end THEN "write" ELSE "handle"]
    /\ releasePublicationLocked
    /\ UNCHANGED <<calls, admittedBytes, admittedRecords, publishing, waiting, claims,
                   published, processed, ringClosed, completed, data, fence, shutdown,
                   storeClosing, reserved>>

\* writeRequests under p.mu, on the next batch writeIngressBatches forms: at
\* most BatchRecords requests, fewer where the byte limit cuts.
writeRequests(k) ==
    /\ handler.step = "write" /\ k <= Len(handler.requests) /\ k <= BatchRecords
    /\ LET group == SubSeq(handler.requests, 1, k)
           rest  == SubSeq(handler.requests, k + 1, Len(handler.requests))
           Ends(outcome) ==
               handler' = [handler EXCEPT !.group = group, !.requests = rest,
                             !.outcome = outcome,
                             !.step = IF outcome \in {"unavailable", "unknown"}
                                      THEN "mark" ELSE "complete"]
       IN  \/ /\ unavailable \/ closed
              /\ Ends(IF unavailable THEN "unavailable" ELSE "closed")
              /\ UNCHANGED <<data, unavailable>>
           \/ /\ ~unavailable /\ ~closed /\ Ends("ok")
              /\ log' = log \o group /\ UNCHANGED <<doubt, unavailable>>
           \/ \E e \in Faults \cap {"unavailable", "unknown", "tooLarge"} :
              /\ ~unavailable /\ ~closed /\ Ends(e)
              /\ doubt' = IF e = "unknown" THEN doubt \cup Range(group) ELSE doubt
              /\ unavailable' = (e # "tooLarge")
              /\ UNCHANGED log
    /\ UNCHANGED <<calls, counters, ring, completed, writerUnavailable, shutdown,
                   storeClosing, reserved>>

\* writeRequests after an error that fences the partition.
MarkUnavailable ==
    /\ handler.step = "mark"
    /\ markIngressUnavailable
    /\ handler' = [handler EXCEPT !.step = "complete"]
    /\ UNCHANGED <<pc, result, ctxDone, counters, ring, completed, data, shutdown,
                   storeClosing, reserved>>

\* writeRequests completes its requests one by one, then the next batch.
CompleteRequest ==
    /\ handler.step = "complete"
    /\ complete(Head(handler.group), handler.outcome)
    /\ handler' = [handler EXCEPT !.group = Tail(@),
                     !.step = IF Len(handler.group) > 1 THEN "complete"
                              ELSE IF handler.requests # << >> THEN "write" ELSE "advance"]
    /\ UNCHANGED <<pc, result, ctxDone, publicationCredits, publishing, waiting, ring, data,
                   fence, shutdown, storeClosing>>

\* The handler has returned for the whole range: the gate moves.
AdvanceSequence ==
    /\ handler.step = "advance"
    /\ processed' = handler.end
    /\ handler' = HandlerIdle
    /\ UNCHANGED <<calls, counters, claims, slots, published, ringClosed, completed, data,
                   fence, shutdown, storeClosing, reserved>>

\* processor.Run returns ErrClosed between two ranges, whether or not published
\* events are left.
ProcessorExits ==
    /\ handler.step = "wait" /\ ringClosed
    /\ handler' = [HandlerIdle EXCEPT !.step = "exit"]
    /\ UNCHANGED <<calls, counters, ring, completed, data, fence, shutdown, storeClosing,
                   reserved>>

-----------------------------------------------------------------------------
(* closeWriter.                                                            *)

Step(c, step) == closer' = [closer EXCEPT ![c] = step]

\* The first caller closes; later ones wait for it or return at once.
closeWriter(c) ==
    /\ closer[c] = "idle"
    /\ \/ /\ queueClosed /\ Step(c, "returned") /\ UNCHANGED <<queueClosing, woken>>
       \/ /\ ~queueClosed /\ queueClosing /\ Step(c, "wait")
          /\ UNCHANGED <<queueClosing, woken>>
       \/ /\ ~queueClosing /\ queueClosing' = TRUE
          /\ signalSpaceLocked
          /\ Step(c, "publishers")
    /\ UNCHANGED <<pc, result, ctxDone, counters, ring, handler, completed, data, fence,
                   closing, closed, queueClosed, storeClosing, reserved>>

\* Mutant of StopReads: publishers are not waited for.
StopReadsAtOnce(c) ==
    /\ closer[c] = "publishers"
    /\ closing' = TRUE
    /\ Step(c, "ring")
    /\ UNCHANGED <<calls, counters, ring, handler, completed, data, fence, closed,
                   queueClosing, queueClosed, storeClosing, reserved>>

\* waitForPublishersLocked, then p.closing under p.mu.
StopReads(c) ==
    /\ closer[c] = "publishers" /\ publishing = 0
    /\ closing' = TRUE
    /\ Step(c, "ring")
    /\ UNCHANGED <<calls, counters, ring, handler, completed, data, fence, closed,
                   queueClosing, queueClosed, storeClosing, reserved>>

CloseRing(c) ==
    /\ closer[c] = "ring"
    /\ ringClosed' = TRUE
    /\ Step(c, "join")
    /\ UNCHANGED <<calls, counters, claims, slots, published, processed, handler, completed,
                   data, fence, closing, closed, queueClosing, queueClosed, storeClosing,
                   reserved>>

\* <-ingress.done.
JoinProcessor(c) ==
    /\ closer[c] = "join" /\ handler.step = "exit"
    /\ Step(c, "drain")
    /\ UNCHANGED <<calls, counters, ring, handler, completed, data, fence, closing, closed,
                   queueClosing, queueClosed, storeClosing, reserved>>

\* What the processor left in the ring.
Undrained == {s \in (processed + 1)..Len(claims) : slots[Slot(s)] # None}

\* drainPending: one event.  Its requests were not handed to the writer, but
\* are reported as unknown.
drainPending(c) ==
    /\ closer[c] = "drain" /\ Undrained # {}
    /\ LET s == Min(Undrained)
       IN  /\ slots' = [slots EXCEPT ![Slot(s)] = None]
           /\ complete(slots[Slot(s)], "unknown")
    /\ releasePublicationLocked
    /\ UNCHANGED <<pc, result, ctxDone, publishing, waiting, claims, published, processed,
                   ringClosed, handler, data, fence, shutdown, storeClosing>>

\* The files are closed, then the closed state is published.
FinishClose(c) ==
    /\ closer[c] = "drain" /\ Undrained = {}
    /\ closed' = TRUE /\ queueClosed' = TRUE
    /\ Step(c, "returned")
    /\ UNCHANGED <<calls, counters, ring, handler, completed, data, fence, closing,
                   queueClosing, storeClosing, reserved>>

\* A later caller returns when closeDone is closed.
CloseReturns(c) ==
    /\ closer[c] = "wait" /\ queueClosed
    /\ Step(c, "returned")
    /\ UNCHANGED <<calls, counters, ring, handler, completed, data, fence, closing, closed,
                   queueClosing, queueClosed, storeClosing, reserved>>

-----------------------------------------------------------------------------
(* The environment.                                                        *)

Cancel(r) ==
    /\ r \in Cancellable \ ctxDone /\ pc[r] # "done"
    /\ ctxDone' = ctxDone \cup {r}
    /\ UNCHANGED <<pc, result, woken, counters, ring, handler, completed, data, fence,
                   shutdown, storeClosing, reserved>>

\* Store.Close raises the flag Append looks at, before it closes partitions.
StoreCloses ==
    /\ ~storeClosing /\ "storeClose" \in Faults
    /\ storeClosing' = TRUE
    /\ UNCHANGED <<calls, counters, ring, handler, completed, data, fence, shutdown, reserved>>

\* A Fetch meets an I/O or decode error.
FetchFences ==
    /\ "readError" \in Faults /\ ~writerUnavailable
    /\ markIngressUnavailable
    /\ UNCHANGED <<pc, result, ctxDone, counters, ring, handler, completed, data, shutdown,
                   storeClosing, reserved>>

RequestStep(r) ==
    \/ admit(r) \/ admitWakes(r) \/ CheckContext(r) \/ enqueue(r)
    \/ ClaimSlot(r) \/ ClaimFails(r) \/ PublishSequence(r) \/ finishPublisher(r)
    \/ waitResult(r)

ProcessorStep ==
    \/ TakeRange \/ Handle \/ MarkUnavailable \/ CompleteRequest \/ AdvanceSequence
    \/ ProcessorExits
    \/ \E k \in 1..BatchRecords : writeRequests(k)

CloserStep(c) ==
    \/ StopReads(c) \/ CloseRing(c) \/ JoinProcessor(c) \/ drainPending(c)
    \/ FinishClose(c) \/ CloseReturns(c)

Next ==
    \/ \E r \in Requests : AppendCall(r) \/ RequestStep(r) \/ Cancel(r)
    \/ ProcessorStep
    \/ \E c \in Closers : closeWriter(c) \/ CloserStep(c)
    \/ StoreCloses \/ FetchFences

Spec == Init /\ [][Next]_vars

\* Every goroutine that can take a step takes one.  No call has to be made, no
\* context cancelled and no Close issued.
Fairness ==
    /\ \A r \in Requests : WF_vars(RequestStep(r))
    /\ WF_vars(ProcessorStep)
    /\ \A c \in Closers : WF_vars(CloserStep(c))

FairSpec == Spec /\ Fairness

-----------------------------------------------------------------------------
(* Properties.                                                             *)

Refusals == {"cancelled", "closing", "closed", "resourceLimit", "backpressure",
             "diskPressure", "unavailable", "tooLarge"}

Reserving(r) == pc[r] \in {"admitted", "enqueue", "publish", "claimed"}

InFlight == {r \in Requests : \/ Reserving(r)
                              \/ pc[r] # "claimed" /\ r \in Range(claims) /\ completed[r] = None}

\* The four counters queueMu guards and the disk reservations are exactly what
\* the requests in each stage hold: no path of admit, enqueue, complete or
\* drainPending forgets to give something back or gives it back twice, and what
\* is held stays within the configured limits.
Accounting ==
    /\ admittedRecords = Cardinality(InFlight)
    /\ admittedBytes = MapThenSumSet(LAMBDA r : Charge[r], InFlight)
    /\ publicationCredits =
         Cardinality({r \in Requests : Reserving(r) \/ r \in Range(slots)})
    /\ publishing = Cardinality({r \in Requests :
         pc[r] \in {"publish", "claimed", "finishPublished", "finishFailed"}})
    /\ waiting = Cardinality({r \in Requests : pc[r] = "waiting"})
    /\ reserved = InFlight \cup {r \in Requests : pc[r] \in {"admit", "waiting", "finishFailed"}}
    /\ admittedRecords <= InFlightRecords /\ admittedBytes <= InFlightBytes
    /\ publicationCredits <= Capacity /\ waiting <= AdmissionWaiters

\* A request that passed admission never waits for a ring slot, although the
\* slots of a range are given back only after its requests have completed and
\* new ones were admitted.
RingNeverBlocks == \A r \in Requests : pc[r] = "publish" => RingHasRoom

\* The processor is never handed an event without a request (Handle would stop
\* the ingress for good).
HandlerFindsRequest ==
    handler.step = "handle" => slots[Slot(handler.at + 1)] # None

\* What Append reports is true: success means the record is in the log, and an
\* error other than the unknown outcome means it is not and never will be.
OutcomeIsTrue ==
    \A r \in Requests :
        /\ result[r] = "ok" => r \in Range(log)
        /\ result[r] \in Refusals => /\ r \notin Range(log) \cup doubt
                                     /\ r \in Range(claims) => completed[r] = result[r]

\* Records get their offsets in the order of their ring sequences, and none
\* gets two.
LogFollowsClaims ==
    \A i, j \in DOMAIN log : i < j =>
        \E m, n \in DOMAIN claims : m < n /\ claims[m] = log[i] /\ claims[n] = log[j]

\* When Close returns, every request that reached the ring has its result.
ClosedIsDrained ==
    (\E c \in Closers : closer[c] = "returned") =>
        \A r \in Range(claims) : completed[r] # None /\ r \notin Range(slots)

\* Every Append returns, whoever else cancels, fails or closes.
AppendReturns == \A r \in Requests : pc[r] = "admit" ~> pc[r] = "done"

\* Every Close returns.
CloseTerminates == \A c \in Closers : closer[c] # "idle" ~> closer[c] = "returned"

=============================================================================
