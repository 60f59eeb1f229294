---------------------------- MODULE PartitionTail ----------------------------
(***************************************************************************)
(* partitionTail: the bounded cache of batches that were just appended,    *)
(* and tailBudget, what the tails of a store may hold together.  The ring  *)
(* of slots is the sequence of its batches, the oldest first.  Both locks  *)
(* are only tried, so an offer or a lookup may miss at any time: the       *)
(* actions that use this module have that choice.                          *)
(***************************************************************************)
EXTENDS Integers, SequencesExt, FiniteSetsExt

CONSTANTS
    TailSlots, TailBytes,  \* limits of one tail
    StoreTailBytes         \* limit of the budget

ASSUME TailAssumption == {TailSlots, TailBytes, StoreTailBytes} \subseteq Nat \ {0}

\* A record counts one; deliveredBatch.bytes.
DeliveredBytes(batch) == batch.end - batch.base

BytesOf(slots) == FoldLeft(LAMBDA sum, b : sum + DeliveredBytes(b), 0, slots)

EmptyTail == [slots |-> <<>>, bytes |-> 0, closed |-> FALSE]

\* evictionPlan: the fewest oldest batches to drop for this one to fit.
EvictionPlan(tail, batch) ==
    Min({n \in 0 .. Len(tail.slots) :
           /\ Len(tail.slots) - n < TailSlots
           /\ tail.bytes - BytesOf(SubSeq(tail.slots, 1, n)) <= TailBytes - DeliveredBytes(batch)})

\* The tail an offer leaves and what the budget has in use; an offer that is
\* refused changes nothing.
OfferIf(open, tail, used, batch) ==
    LET evicted == EvictionPlan(tail, batch)
        removed == BytesOf(SubSeq(tail.slots, 1, evicted))
        after == used - removed + DeliveredBytes(batch)
    IN  IF \/ ~open
           \/ DeliveredBytes(batch) > TailBytes
           \/ removed > used \/ after > StoreTailBytes
        THEN [tail |-> tail, used |-> used]
        ELSE [tail |-> [tail EXCEPT
                          !.slots = Append(SubSeq(@, evicted + 1, Len(@)), batch),
                          !.bytes = @ - removed + DeliveredBytes(batch)],
              used |-> after]

OfferAnyway(tail, used, batch) == OfferIf(TRUE, tail, used, batch)

\* offer looks at closed under the tail's lock.
Offer(tail, used, batch) == OfferIf(~tail.closed, tail, used, batch)

\* tailBudget.release.
Returned(used, bytes) == IF bytes >= used THEN 0 ELSE used - bytes

\* clear and close both hand everything back to the budget.
ClearTail(tail) == [tail EXCEPT !.slots = <<>>, !.bytes = 0]

CloseTail(tail) == [ClearTail(tail) EXCEPT !.closed = TRUE]

\* validDeliveredBatch: the batches a fetch may be served from.
Valid(batch, offset, durableEnd) ==
    /\ batch.base <= offset /\ offset < batch.end
    /\ batch.end <= batch.durableEnd /\ batch.durableEnd <= durableEnd

Hits(tail, offset, durableEnd) ==
    {b \in ToSet(tail.slots) : ~tail.closed /\ Valid(b, offset, durableEnd)}

=============================================================================
