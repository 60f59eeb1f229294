---------------------------- MODULE RetentionPlan ----------------------------
(***************************************************************************)
(* planRetentionLocked: which whole segments a pass gives up, and whether  *)
(* it first rolls the active one so that it can be given up too.  A        *)
(* segment is [base, end, size, time], with time its newest timestamp.     *)
(***************************************************************************)
EXTENDS Integers, Sequences, FiniteSetsExt

CONSTANTS
    RetentionMask,    \* subset of {"time", "size"}
    RetentionBytes,   \* size bound of the retained log
    RetentionMillis,  \* age at which a segment expires
    MaxSegmentAge,    \* age at which the active segment is rolled
    HeaderBytes,      \* size of an empty segment
    MaxRetired        \* maxRetiredSegmentsPerEvent

NoTime == -1000  \* the maxTime of a segment without records

Bytes(segs, from) == MapThenSumSet(LAMBDA i : segs[i].size, from..Len(segs))

\* elapsedAtLeast: never for a segment without records or from the future.
ElapsedAtLeast(now, time, duration) ==
    time # NoTime /\ time <= now /\ now - time >= duration

RetentionNeedsRoll(segs, now) ==
    LET active == segs[Len(segs)]
    IN  /\ active.base # active.end
        /\ \/ "size" \in RetentionMask /\ Bytes(segs, 1) > RetentionBytes
           \/ "time" \in RetentionMask /\ ElapsedAtLeast(now, active.time, MaxSegmentAge)

\* A segment is eligible when it expired, or while the log from it on is too big.
Eligible(segs, i, now) ==
    \/ "time" \in RetentionMask /\ ElapsedAtLeast(now, segs[i].time, RetentionMillis)
    \/ "size" \in RetentionMask /\ Bytes(segs, i) > RetentionBytes

\* The number of segments to retire: the longest eligible prefix that spares
\* the active segment and fits one catalog event.
RetiredCount(segs, now) ==
    Max({n \in 0..(Len(segs) - 1) : n <= MaxRetired /\ \A i \in 1..n : Eligible(segs, i, now)})

=============================================================================
