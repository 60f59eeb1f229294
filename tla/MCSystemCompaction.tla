------------------------- MODULE MCSystemCompaction -------------------------
(* SystemCompaction for TLC: two SaveSnapshots callers, interchangeable. *)
EXTENDS SystemCompaction, TLC

CONSTANTS s1, s2

TwoSnapshotters == {s1, s2}
Interchangeable == Permutations(TwoSnapshotters)
AllFaults == FaultKinds

=============================================================================
