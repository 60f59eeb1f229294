------------------------------ MODULE MCIngress ------------------------------
(***************************************************************************)
(* Ingress for TLC: three appends, the first twice as large as the others. *)
(***************************************************************************)
EXTENDS Ingress, TLC

CONSTANTS r1, r2, r3, c1, c2

MCRequests == {r1, r2, r3}

MCCharge == [r \in MCRequests |-> IF r = r1 THEN 2 ELSE 1]

TwoClosers == {c1, c2}

\* The two small appends, and the two calls of Close.
Interchangeable == Permutations({r2, r3}) \cup Permutations(TwoClosers)

=============================================================================
