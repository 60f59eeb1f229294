--------------------------- MODULE MCPartitionLog ---------------------------
(***************************************************************************)
(* PartitionLog for TLC.                                                   *)
(***************************************************************************)
EXTENDS PartitionLog

AllFaults == FaultKinds

\* A process crash followed, later, by a power loss.
MixedFaults == {"processCrash", "powerLoss"}

NoFaults == {}

=============================================================================
