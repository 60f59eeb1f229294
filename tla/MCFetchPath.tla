---------------------------- MODULE MCFetchPath ----------------------------
(***************************************************************************)
(* FetchPath for TLC.                                                      *)
(***************************************************************************)
EXTENDS FetchPath, TLC

CONSTANTS d, q, r1, r2

Amount(bytes, inodes) == [x \in Resources |-> IF x = "bytes" THEN bytes ELSE inodes]

MCSafety == Amount(1, 1)
MCUserStop == Amount(2, 2)
MCResume == Amount(4, 3)
MCCapacity == Amount(10, 9)

OneDirect == {d}
OneQueued == {q}
TwoReaders == {r1, r2}

Interchangeable == Permutations(TwoReaders)

\* Two appends at a time and a retention pass around the disk ledger.
Admission == [recovered |-> <<<<1, 1>>>>, callers |-> {d, q}, readers |-> {}, limits |-> {},
              maxOffset |-> 5, maxProbes |-> 5, maxPasses |-> 1,
              faults |-> {"probeError"}, maxFaults |-> 1]

\* The ledger alone: five reservations without retention.
Growth == [Admission EXCEPT !.maxPasses = 0, !.maxProbes = 6]

\* Two readers share the descriptors of two sealed segments with a pass.
Sharing == [recovered |-> <<<<1>>, <<1>>, <<1>>>>, callers |-> {}, readers |-> {r1, r2},
            limits |-> {1, 2}, maxOffset |-> 3, maxProbes |-> 2, maxPasses |-> 1,
            faults |-> {"readError"}, maxFaults |-> 1]

\* Two readers wait at the end of the log for one of two appends.
Polling == [Sharing EXCEPT !.recovered = <<<<1>>>>, !.callers = {d, q}, !.maxOffset = 2,
                            !.maxProbes = 3, !.maxPasses = 0, !.faults = {"writeError"}]

\* One reader among two appends and a pass, with any fault.
Following == [recovered |-> <<<<1, 1>>>>, callers |-> {q}, readers |-> {r1},
              limits |-> {0, 1, 3}, maxOffset |-> 4, maxProbes |-> 4, maxPasses |-> 1,
              faults |-> FaultKinds, maxFaults |-> 1]

AllWorkloads == {Admission, Growth, Sharing, Polling, Following}

=============================================================================
