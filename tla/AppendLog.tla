------------------------------ MODULE AppendLog ------------------------------
(***************************************************************************)
(* What a partition promises its callers: an append-only sequence of whole *)
(* batches.  At most one batch is being appended.  It either joins the log *)
(* and is acknowledged, or is given up; a batch that was given up may      *)
(* still turn out to be in the log when the partition comes up again, and  *)
(* nothing else ever changes.                                              *)
(***************************************************************************)
EXTENDS Integers, FiniteSetsExt

CONSTANTS InitialOffset, MaxOffset, MaxAppends, BatchRecords

VARIABLES
    log,      \* offset -> append attempt
    pending,  \* the batch being appended or left in doubt; n = 0 for none
    acked     \* attempts acknowledged to their caller

avars == <<log, pending, acked>>

None == [id |-> 0, n |-> 0]

End == IF DOMAIN log = {} THEN InitialOffset ELSE Max(DOMAIN log) + 1

Joined ==
    [o \in DOMAIN log \cup End..(End + pending.n - 1) |->
        IF o \in DOMAIN log THEN log[o] ELSE pending.id]

AInit ==
    /\ log = [o \in {} |-> 0]
    /\ pending = None
    /\ acked = {}

Start ==
    /\ pending = None
    /\ pending' \in [id : 1..MaxAppends, n : 1..BatchRecords]
    /\ UNCHANGED <<log, acked>>

Acknowledge ==
    /\ pending # None
    /\ log' = Joined
    /\ acked' = acked \cup {pending.id}
    /\ pending' = None

Resolve ==
    /\ pending # None
    /\ log' \in {log, Joined}
    /\ pending' = None
    /\ UNCHANGED acked

ANext == Start \/ Acknowledge \/ Resolve

ASpec == AInit /\ [][ANext]_avars

=============================================================================
