----------------------------- MODULE MCConsumers -----------------------------
(***************************************************************************)
(* Consumers for TLC.                                                      *)
(***************************************************************************)
EXTENDS Consumers

CONSTANTS k1, k2

TwoKeys == {k1, k2}

\* Single handles and snapshots of one key, with two calls at a time.
Contended == [singles |-> {k1}, snapshots |-> {{k1}}, starts |-> {"earliest"}, maxCallers |-> 2,
              maxEnd |-> [k \in TwoKeys |-> IF k = k1 THEN 2 ELSE 0]]

\* Single handles of one key compete with snapshots of two.
Overlapping == [singles |-> {k1}, snapshots |-> {TwoKeys}, starts |-> {"earliest", "latest"},
                maxCallers |-> 1, maxEnd |-> [k \in TwoKeys |-> IF k = k1 THEN 1 ELSE 0]]

\* Two single handles of one key.
Replaced == [Contended EXCEPT !.snapshots = {}, !.maxCallers = 1]

BothWorkloads == {Contended, Overlapping}

OneWorkload == {Replaced}

=============================================================================
