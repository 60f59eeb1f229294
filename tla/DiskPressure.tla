---------------------------- MODULE DiskPressure ----------------------------
(***************************************************************************)
(* diskPressureLedger: the store-wide admission of growth against the free *)
(* space of the file system.  A reservation takes three steps, as reserve  *)
(* drops the ledger's mutex around the probe: BeginProbe, the probe itself *)
(* (whatever is free when it runs), then ApplyProbe and Decide in one      *)
(* critical section.                                                       *)
(*                                                                         *)
(* Bytes and inodes obey the same rules, so amounts are functions on       *)
(* Resources; a file system that cannot count inodes measures bytes only.  *)
(***************************************************************************)
EXTENDS Integers, FiniteSets

Resources == {"bytes", "inodes"}

CONSTANTS
    Measured,   \* the resources the probe can see
    Safety,     \* floor of control growth, per resource
    UserStop,   \* floor of user growth
    Resume      \* where a pressured ledger admits users again

ASSUME FloorsAssumption ==
    /\ "bytes" \in Measured /\ Measured \subseteq Resources
    /\ {Safety, UserStop, Resume} \subseteq [Resources -> Nat]
    /\ \A x \in Resources : Safety[x] < UserStop[x] /\ UserStop[x] < Resume[x]

Nothing == [x \in Resources |-> 0]

\* remainingDiskCapacity: subtraction that stops at zero.
Remaining(available, debit) ==
    [x \in Resources |-> IF debit[x] >= available[x] THEN 0 ELSE available[x] - debit[x]]

Plus(f, g) == [x \in Resources |-> f[x] + g[x]]

Below(amount, floor) == \E x \in Measured : amount[x] < floor[x]

\* newDiskPressureLedger: the first reservation, of nothing, leaves an
\* observation behind, so hasObservation holds from then on.
NewLedger(available) ==
    [nextProbe |-> 1, appliedProbe |-> 1, available |-> available,
     reserved |-> Nothing, pressured |-> FALSE, probeFailed |-> FALSE]

BeginProbe(ledger) == [ledger EXCEPT !.nextProbe = @ + 1]

ApplyProbeAlways(ledger, id, available) ==
    [ledger EXCEPT !.appliedProbe = id, !.available = available, !.probeFailed = FALSE]

\* An answer counts only if no later probe has answered before it.
ApplyProbe(ledger, id, available) ==
    IF id >= ledger.appliedProbe
    THEN [ledger EXCEPT !.appliedProbe = id, !.available = available, !.probeFailed = FALSE]
    ELSE ledger

\* A failed probe refuses its caller and stops user growth.
FailProbe(ledger, id) ==
    IF id >= ledger.appliedProbe
    THEN [ledger EXCEPT !.appliedProbe = id, !.pressured = TRUE, !.probeFailed = TRUE]
    ELSE ledger

Current(ledger) == Remaining(ledger.available, ledger.reserved)

\* Below the user-stop floor the ledger becomes pressured, and it stays so up
\* to the resume floor.
Pressured(ledger) ==
    /\ ledger.pressured \/ Below(Current(ledger), UserStop)
    /\ Below(Current(ledger), Resume)

Granted(ledger, kind, growth) ==
    LET after == Remaining(Current(ledger), growth) IN
    IF kind = "user"
    THEN ~Pressured(ledger) /\ ~Below(after, UserStop)
    ELSE ~Below(after, Safety)

DecideLate(ledger, kind, growth) ==
    [ledger EXCEPT !.pressured = Pressured(ledger), !.reserved = Plus(@, growth)]

Decide(ledger, kind, growth) ==
    [ledger EXCEPT !.pressured = Pressured(ledger),
                   !.reserved = IF Granted(ledger, kind, growth) THEN Plus(@, growth) ELSE @]

\* diskReservation.release; sync.Once makes it happen once.
Release(ledger, growth) ==
    [ledger EXCEPT !.reserved = Remaining(@, growth)]

=============================================================================
