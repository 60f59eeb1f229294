--------------------------- MODULE MCTopicStorage ---------------------------
(***************************************************************************)
(* TopicStorage for TLC.                                                   *)
(***************************************************************************)
EXTENDS TopicStorage

CONSTANTS a, b

TwoTopics == {a, b}

OnePartition == <<"0">>

\* Records go to one partition.  The one at offset 1 is from the future, so
\* it blocks expiry behind it.
MCTimestamps == [k \in Keys |-> IF k = <<a, "0">> THEN <<0, 2>> ELSE <<>>]

=============================================================================
