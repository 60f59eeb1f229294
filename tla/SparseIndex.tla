----------------------------- MODULE SparseIndex -----------------------------
(***************************************************************************)
(* The sampled offset index of a segment: which batches it names, which    *)
(* sidecar files recovery accepts, and where a scan may start.  A batch is *)
(* [base, position, bytes, records]; positions count from the end of the   *)
(* segment header.                                                         *)
(***************************************************************************)
EXTENDS Integers, SequencesExt

CONSTANT IndexStride

ASSUME IndexStrideAssumption == IndexStride \in Nat \ {0}

\* sampleBatchIndexes: the first batch, and then one per IndexStride bytes.
SampleBatchIndexes(batches) ==
    LET Visit(index, b) ==
            IF index = <<>> \/ b.position - Last(index).position >= IndexStride
            THEN Append(index, b) ELSE index
    IN  FoldLeft(Visit, <<>>, batches)

\* validateOffsetIndex: entries that each describe a batch of the segment, in
\* order.  A sidecar may be older than the segment or sampled otherwise.
ValidOffsetIndex(index, batches) ==
    /\ ToSet(index) \subseteq ToSet(batches)
    /\ \A i \in 1 .. Len(index) - 1 :
           index[i].base < index[i + 1].base /\ index[i].position < index[i + 1].position

HintPastOffset(index, offset) ==
    LET below == SelectSeq(index, LAMBDA e : e.base <= offset + 1)
    IN  IF below = <<>> THEN 0 ELSE Last(below).position

\* The position of the last entry at or below the offset.
Hint(index, offset) ==
    LET below == SelectSeq(index, LAMBDA e : e.base <= offset)
    IN  IF below = <<>> THEN 0 ELSE Last(below).position

Offsets(batch) == [i \in 1 .. batch.records |-> batch.base + i - 1]

\* The records from offset on that a scan of the segment meets.
Scan(batches, index, offset) ==
    LET visited == SelectSeq(batches, LAMBDA b : b.position >= Hint(index, offset))
    IN  SelectSeq(FlattenSeq([i \in DOMAIN visited |-> Offsets(visited[i])]),
                  LAMBDA o : o >= offset)

=============================================================================
