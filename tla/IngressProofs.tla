--------------------------- MODULE IngressProofs ----------------------------
(***************************************************************************)
(* Proofs about Ingress, for any finite set of requests with any charges,  *)
(* any number of callers of close, any window, any batch size, and any of  *)
(* the faults: the accounts, and the theorems.                             *)
(***************************************************************************)
EXTENDS IngressSteps, SetFacts

\* Claims are distinct: a set that contains those of an interval has at least
\* as many members as the interval.
LEMMA RangeIntoSet ==
  ASSUME IInv, NEW T, IsFiniteSet(T), NEW a \in Nat, NEW b \in Nat, a <= b, b <= Len(claims),
         \A s \in (a + 1)..b : claims[s] \in T
  PROVE  b - a <= Cardinality(T)
<1> DEFINE S == (a + 1)..b
           f == [s \in S |-> claims[s]]
<1>1. \A s \in S : s \in DOMAIN claims
  BY DEF IInv, Types
<1>2. f \in [S -> T]
  OBVIOUS
<1>3. \A s, t \in S : f[s] = f[t] => s = t
  BY <1>1 DEF IInv, ClaimsOK
<1>4. f \in Injection(S, T)
  BY <1>2, <1>3 DEF Injection, IsInjective
<1>5. Cardinality(S) = b - a
  <2>1. a + 1 \in Int /\ b \in Int
    OBVIOUS
  <2>2. Cardinality(S) = IF a + 1 > b THEN 0 ELSE b - (a + 1) + 1
    BY <2>1, FS_Interval
  <2> QED BY <2>2
<1> HIDE DEF f, S
<1>6. Cardinality(S) <= Cardinality(T)
  BY <1>4, FS_Injection, Zenon
<1> QED BY <1>5, <1>6

\* The window bounds the requests in flight.
LEMMA InFlightBounded ==
  ASSUME IInv
  PROVE  /\ InFlight \subseteq Requests /\ IsFiniteSet(InFlight)
         /\ Cardinality(InFlight) \in Nat /\ Cardinality(InFlight) <= InFlightRecords
<1>1. InFlight \subseteq Requests
  BY DEF InFlight
<1>2. IsFiniteSet(InFlight)
  BY <1>1, IngressAssumption, FS_Subset
<1> QED BY <1>1, <1>2, FS_CardinalityType DEF IInv, Accounting

\* What the processor can take at once is in flight, so it fits the window.
LEMMA TakenRangeFits ==
  ASSUME IInv, handler.step = "wait", NEW e \in Nat, e > processed,
         (processed + 1)..e \subseteq published
  PROVE  1..e \subseteq published /\ e - processed <= InFlightRecords
<1>1. claims \in Seq(Requests) /\ processed \in Nat /\ published \subseteq 1..Len(claims)
  BY DEF IInv, Types
<1>2. 1..e \subseteq published
  <2>1. 1..processed \subseteq published
    BY DEF IInv, HandlerOK
  <2>2. \A i \in 1..e : i \in 1..processed \/ i \in (processed + 1)..e
    BY <1>1
  <2> QED BY <2>1, <2>2
<1>3. e <= Len(claims)
  BY <1>1, <1>2
<1>4. Finished = processed
  BY DEF Finished, Busy
<1>5. \A s \in (processed + 1)..e : claims[s] \in InFlight
  <2>1. \A s \in (processed + 1)..e : s \in DOMAIN claims /\ s > Finished
    BY <1>1, <1>3, <1>4
  <2>2. handler.step # "exit"
    OBVIOUS
  <2> QED BY <2>1, <2>2, UnfinishedInFlight
<1>6. e - processed <= Cardinality(InFlight)
  BY <1>1, <1>3, <1>5, InFlightBounded, RangeIntoSet
<1>7. InFlightRecords \in Nat
  BY WindowIsNatural
<1> QED BY <1>1, <1>2, <1>6, <1>7, InFlightBounded

\* The accounts give what the other steps need of them.
LEMMA AccountedFor == IInv => Accounted
<1> SUFFICES ASSUME IInv PROVE Accounted
  OBVIOUS
<1>1. ASSUME publishing = 0, NEW r \in Requests PROVE pc[r] \notin Publishing
  <2> DEFINE P == {q \in Requests : pc[q] \in Publishing}
  <2>1. P \subseteq Requests
    OBVIOUS
  <2>2. Cardinality(P) = 0
    BY <1>1 DEF IInv, Accounting, Publishing
  <2> HIDE DEF P
  <2>3. P = {}
    BY <2>1, <2>2, IngressAssumption, FS_Subset, FS_EmptySet
  <2> QED BY <2>3 DEF P
<1>2. ASSUME handler.step = "wait", NEW e \in Nat, e > processed,
             (processed + 1)..e \subseteq published
      PROVE  e - processed <= InFlightRecords
  BY <1>2, TakenRangeFits
<1> QED BY <1>1, <1>2 DEF Accounted

\* The sets the counters count: the calls and slots that hold a ring credit, the
\* publishers, the waiters, and the calls outside the window that still hold a
\* disk reservation.
Credits == {r \in Requests : Reserving(r) \/ r \in Range(slots)}

Publishers == {r \in Requests : pc[r] \in Publishing}

Waiters == {r \in Requests : pc[r] = "waiting"}

Pending == {r \in Requests : pc[r] \in {"admit", "waiting", "finishFailed"}}

\* Accounting, one part for each set that something counts.
AdmittedOK ==
    /\ admittedRecords = Cardinality(InFlight) /\ admittedBytes = SumOver(Charge, InFlight)
    /\ admittedRecords <= InFlightRecords /\ admittedBytes <= InFlightBytes

\* publicationCredits counts the calls and slots that hold a ring credit.
CreditsOK == publicationCredits = Cardinality(Credits) /\ publicationCredits <= Capacity

\* publishing counts the publishers.
PublishersOK == publishing = Cardinality(Publishers)

\* waiting counts the waiters of admit.
WaitersOK == waiting = Cardinality(Waiters) /\ waiting <= AdmissionWaiters

\* A disk reservation is held by the requests in flight and the calls pending.
ReservedOK == reserved = InFlight \cup Pending

\* The parts together.
Accounts == AdmittedOK /\ CreditsOK /\ PublishersOK /\ WaitersOK /\ ReservedOK

\* Accounting is the conjunction of its parts.
LEMMA AccountingOfSets == (Accounting <=> Accounts) /\ (Accounting' <=> Accounts')
<1>1. Accounting <=> Accounts
  BY Zenon DEF Accounting, Accounts, AdmittedOK, CreditsOK, PublishersOK, WaitersOK, ReservedOK,
     SumOver, Credits, Publishers, Publishing, Waiters, Pending
<1>2. Accounting' <=> Accounts'
  BY Zenon DEF Accounting, Accounts, AdmittedOK, CreditsOK, PublishersOK, WaitersOK, ReservedOK,
     SumOver, Credits, Publishers, Publishing, Waiters, Pending
<1> QED BY <1>1, <1>2

\* What one request adds to the count and to the sum of a set of requests.
LEMMA Counting ==
  ASSUME NEW S, S \subseteq Requests, NEW r \in Requests
  PROVE  /\ Cardinality(S) \in Nat /\ SumOver(Charge, S) \in Nat /\ Charge[r] \in Nat
         /\ r \in S => /\ Cardinality(S) > 0 /\ Cardinality(S \ {r}) = Cardinality(S) - 1
                       /\ SumOver(Charge, S) = Charge[r] + SumOver(Charge, S \ {r})
                       /\ SumOver(Charge, S \ {r}) \in Nat
         /\ r \notin S => /\ Cardinality(S \cup {r}) = Cardinality(S) + 1
                          /\ SumOver(Charge, S \cup {r}) = Charge[r] + SumOver(Charge, S)
<1>1. IsFiniteSet(S) /\ IsFiniteSet(S \ {r}) /\ IsFiniteSet(S \cup {r})
  <2>1. IsFiniteSet(S)
    BY IngressAssumption, FS_Subset
  <2> QED BY <2>1, FS_AddElement, FS_RemoveElement
<1>2. Charge \in [Requests -> Nat] /\ Charge[r] \in Nat
  BY IngressAssumption
<1>3. \A T \in SUBSET Requests : Charge \in [Requests -> Nat] /\ \A q \in T : Charge[q] \in Nat
  BY <1>2
<1>4. Cardinality(S) \in Nat /\ Cardinality(S \ {r}) \in Nat
  BY <1>1, FS_CardinalityType
<1>5. r \in S => Cardinality(S \ {r}) = Cardinality(S) - 1
  BY <1>1, FS_RemoveElement
<1>6. r \notin S => Cardinality(S \cup {r}) = Cardinality(S) + 1
  BY <1>1, FS_AddElement
<1>7. SumOver(Charge, S) \in Nat /\ SumOver(Charge, S \ {r}) \in Nat
  BY <1>1, <1>3, SumNat
<1>8. r \in S => SumOver(Charge, S) = Charge[r] + SumOver(Charge, S \ {r})
  BY <1>1, <1>3, SumRemove
<1>9. r \notin S => SumOver(Charge, S \cup {r}) = Charge[r] + SumOver(Charge, S)
  BY <1>1, <1>2, <1>3, SumAdd
<1> QED BY <1>2, <1>4, <1>5, <1>6, <1>7, <1>8, <1>9

\* A call before its claim has neither a sequence nor a slot.
LEMMA NotClaimed ==
  ASSUME IInv, NEW r \in Requests, pc[r] \notin Entered \cup {"done"}
  PROVE  r \notin Range(claims) /\ r \notin Range(slots)
<1>1. \A i \in DOMAIN claims : claims[i] # r
  BY DEF IInv, ClaimsOK
<1>2. \A x \in DOMAIN slots : slots[x] # r
  <2>1. r # None
    BY IngressAssumption DEF None
  <2> QED BY <1>1, <2>1 DEF IInv, SlotsOK, Types
<1> QED BY <1>1, <1>2 DEF Range

\* A sequence in the ring is the only one whose request is in its slot.
LEMMA SlotHolder ==
  ASSUME IInv, NEW s \in DOMAIN claims, InRing(s)
  PROVE  /\ claims[s] \in Range(slots) /\ Slot(s) \in DOMAIN slots
         /\ \A y \in DOMAIN slots : slots[y] = claims[s] => y = Slot(s)
         /\ ~Reserving(claims[s]) /\ claims[s] \in Requests
<1>1. claims[s] \in Requests /\ s \in Nat \ {0} /\ s \in published
  BY ClaimsTyped DEF InRing
<1>2. slots[Slot(s)] = claims[s] /\ Slot(s) \in DOMAIN slots
  BY <1>1, SlotIn DEF IInv, SlotsOK, Types
<1>3. claims[s] # None
  BY <1>1, IngressAssumption DEF None
<1>4. ASSUME NEW y \in DOMAIN slots, slots[y] = claims[s] PROVE y = Slot(s)
  <2>1. PICK t \in published : InRing(t) /\ Slot(t) = y /\ slots[y] = claims[t]
    BY <1>3, <1>4 DEF IInv, SlotsOK
  <2>2. t = s
    BY <1>1, <1>4, <2>1 DEF IInv, ClaimsOK, Types
  <2> QED BY <2>1, <2>2
<1>5. ~Reserving(claims[s])
  BY <1>1 DEF IInv, ClaimsOK, Reserving, Entered
<1> QED BY <1>1, <1>2, <1>4, <1>5 DEF Range

\* The slot of a sequence claimed and not published is empty.
LEMMA FreeSlot ==
  ASSUME IInv, NEW s \in DOMAIN claims, s \notin published
  PROVE  slots[Slot(s)] = None /\ Slot(s) \in DOMAIN slots
<1>1. claims \in Seq(Requests) /\ s \in Nat \ {0} /\ published \subseteq DOMAIN claims
      /\ processed \in Nat
  BY DEF IInv, Types
<1>2. Slot(s) \in DOMAIN slots
  BY <1>1, SlotIn DEF IInv, Types
<1>3. s > processed
  <2>1. s \notin 1..processed
    BY DEF IInv, HandlerOK
  <2> QED BY <1>1, <2>1
<1>4. ASSUME slots[Slot(s)] # None PROVE FALSE
  <2>1. PICK t \in published : InRing(t) /\ Slot(t) = Slot(s)
    BY <1>2, <1>4 DEF IInv, SlotsOK
  <2>2. t > processed /\ t \in DOMAIN claims
    BY <1>1, <2>1, Borders DEF InRing
  <2>3. t = s
    BY <1>3, <2>1, <2>2, InRingInjective
  <2> QED BY <2>3
<1> QED BY <1>2, <1>4

\* What a call that moves does to the sets behind the counters.
LEMMA StageSets ==
  ASSUME IInv, NEW r \in Requests, NEW x \in Stages, pc' = [pc EXCEPT ![r] = x],
         UNCHANGED <<claims, completed, slots>>
  PROVE  /\ Publishers' = IF x \in Publishing THEN Publishers \cup {r} ELSE Publishers \ {r}
         /\ Waiters' = IF x = "waiting" THEN Waiters \cup {r} ELSE Waiters \ {r}
         /\ Pending' = IF x \in {"admit", "waiting", "finishFailed"}
                       THEN Pending \cup {r} ELSE Pending \ {r}
         /\ Credits' = IF x \in {"admitted", "enqueue", "publish", "claimed"}
                          \/ r \in Range(slots)
                       THEN Credits \cup {r} ELSE Credits \ {r}
         /\ InFlight' = IF \/ x \in {"admitted", "enqueue", "publish", "claimed"}
                           \/ r \in Range(claims) /\ completed[r] = None
                        THEN InFlight \cup {r} ELSE InFlight \ {r}
<1>1. \A q \in Requests : pc'[q] = IF q = r THEN x ELSE pc[q]
  BY DEF IInv, Types
<1>2. Publishers' = IF x \in Publishing THEN Publishers \cup {r} ELSE Publishers \ {r}
  BY <1>1 DEF Publishers
<1>3. Waiters' = IF x = "waiting" THEN Waiters \cup {r} ELSE Waiters \ {r}
  BY <1>1 DEF Waiters
<1>4. Pending' = IF x \in {"admit", "waiting", "finishFailed"}
                 THEN Pending \cup {r} ELSE Pending \ {r}
  BY <1>1 DEF Pending
<1>5. Credits' = IF x \in {"admitted", "enqueue", "publish", "claimed"} \/ r \in Range(slots)
                 THEN Credits \cup {r} ELSE Credits \ {r}
  BY <1>1 DEF Credits, Reserving
<1>6. InFlight' = IF \/ x \in {"admitted", "enqueue", "publish", "claimed"}
                     \/ r \in Range(claims) /\ completed[r] = None
                  THEN InFlight \cup {r} ELSE InFlight \ {r}
  BY <1>1 DEF InFlight, Reserving
<1> QED BY <1>2, <1>3, <1>4, <1>5, <1>6

\* Where a call stands in the sets behind the counters.
LEMMA StandsIn ==
  ASSUME IInv, NEW r \in Requests
  PROVE  /\ r \in Publishers <=> pc[r] \in Publishing
         /\ r \in Waiters <=> pc[r] = "waiting"
         /\ r \in Pending <=> pc[r] \in {"admit", "waiting", "finishFailed"}
         /\ r \in Credits <=> \/ pc[r] \in {"admitted", "enqueue", "publish", "claimed"}
                              \/ r \in Range(slots)
         /\ r \in InFlight <=> \/ pc[r] \in {"admitted", "enqueue", "publish", "claimed"}
                               \/ r \in Range(claims) /\ completed[r] = None
BY DEF Publishers, Waiters, Pending, Credits, InFlight, Reserving

\* The counted sets are sets of requests.
LEMMA SetsOfRequests ==
  /\ Publishers \subseteq Requests /\ Waiters \subseteq Requests /\ Pending \subseteq Requests
  /\ Credits \subseteq Requests /\ InFlight \subseteq Requests
BY DEF Publishers, Waiters, Pending, Credits, InFlight

\* releaseAdmissionLocked returns what one request in flight took.
LEMMA Released ==
  ASSUME Accounts, NEW r \in InFlight, releaseAdmissionLocked(r), InFlight' = InFlight \ {r}
  PROVE  AdmittedOK'
<1>1. r \in Requests /\ InFlight \subseteq Requests
  BY SetsOfRequests
<1>2. /\ Cardinality(InFlight) \in Nat /\ Cardinality(InFlight) > 0
      /\ Cardinality(InFlight \ {r}) = Cardinality(InFlight) - 1
      /\ SumOver(Charge, InFlight) = Charge[r] + SumOver(Charge, InFlight \ {r})
      /\ SumOver(Charge, InFlight \ {r}) \in Nat /\ Charge[r] \in Nat
  BY <1>1, Counting
<1>3. admittedRecords' = admittedRecords - 1 /\ admittedBytes' = admittedBytes - Charge[r]
  BY <1>2 DEF releaseAdmissionLocked, Accounts, AdmittedOK
<1>4. InFlightRecords \in Nat /\ InFlightBytes \in Nat
  BY IngressAssumption, WindowIsNatural
<1> QED BY <1>2, <1>3, <1>4 DEF Accounts, AdmittedOK

\* releasePublicationLocked returns one ring credit.
LEMMA CreditReleased ==
  ASSUME Accounts, NEW r \in Credits, releasePublicationLocked, Credits' = Credits \ {r}
  PROVE  CreditsOK'
<1>1. r \in Requests /\ Credits \subseteq Requests
  BY SetsOfRequests
<1>2. /\ Cardinality(Credits) \in Nat /\ Cardinality(Credits) > 0
      /\ Cardinality(Credits \ {r}) = Cardinality(Credits) - 1
  BY <1>1, Counting
<1> QED BY <1>2, CapacityFits DEF releasePublicationLocked, Accounts, CreditsOK

\* A counted set that stays, with its counter, stays counted.
LEMMA Kept ==
  ASSUME Accounts
  PROVE  /\ InFlight' = InFlight /\ UNCHANGED <<admittedRecords, admittedBytes>> => AdmittedOK'
         /\ Credits' = Credits /\ UNCHANGED publicationCredits => CreditsOK'
         /\ Publishers' = Publishers /\ UNCHANGED publishing => PublishersOK'
         /\ Waiters' = Waiters /\ UNCHANGED waiting => WaitersOK'
         /\ InFlight' \cup Pending' = InFlight \cup Pending /\ UNCHANGED reserved => ReservedOK'
BY DEF Accounts, AdmittedOK, CreditsOK, PublishersOK, WaitersOK, ReservedOK

\* The counted sets depend on the stages, the claims, the results and the slots.
LEMMA KeptOutside ==
  ASSUME IInv, [Next]_vars, UNCHANGED <<pc, claims, completed, slots>>
  PROVE  /\ InFlight' = InFlight /\ Credits' = Credits /\ Publishers' = Publishers
         /\ Waiters' = Waiters /\ Pending' = Pending
BY DEF InFlight, Credits, Publishers, Waiters, Pending, Reserving

\* A call gives its reservation back before it has a ring sequence.
LEMMA ReservationReturned ==
  ASSUME IInv, NEW r \in Requests, NEW x \in Stages, pc' = [pc EXCEPT ![r] = x],
         pc[r] \in {"admitted", "enqueue", "publish"}, x \in {"done", "finishFailed"},
         UNCHANGED <<claims, completed, slots>>, releaseReservationLocked(r)
  PROVE  /\ AdmittedOK' /\ CreditsOK' /\ Waiters' = Waiters
         /\ x = "finishFailed" => InFlight' \cup Pending' = InFlight \cup Pending
         /\ x = "done" => InFlight' \cup Pending' = (InFlight \cup Pending) \ {r}
<1>0. Accounts
  BY AccountingOfSets DEF IInv
<1>1. r \notin Range(claims) /\ r \notin Range(slots)
  BY NotClaimed DEF Entered
<1>2. /\ Waiters' = Waiters \ {r} /\ Credits' = Credits \ {r} /\ InFlight' = InFlight \ {r}
      /\ Pending' = IF x = "finishFailed" THEN Pending \cup {r} ELSE Pending \ {r}
  <2>1. x \notin {"admitted", "enqueue", "publish", "claimed"} /\ x # "waiting" /\ x # "admit"
    OBVIOUS
  <2> QED BY <1>1, <2>1, StageSets
<1>3. r \in InFlight /\ r \in Credits /\ r \notin Waiters /\ r \notin Pending
  BY StandsIn
<1>4. AdmittedOK' /\ CreditsOK'
  BY <1>0, <1>2, <1>3, Released, CreditReleased DEF releaseReservationLocked
<1> QED BY <1>2, <1>3, <1>4

\* Append reserves disk before it asks for admission.
LEMMA AccountsAppend ==
  ASSUME IInv, NEW r \in Requests, AppendCall(r)
  PROVE  Accounts'
<1>0. Accounts
  BY AccountingOfSets DEF IInv
<1>1. /\ UNCHANGED <<claims, completed, slots, counters>> /\ pc[r] = "idle"
      /\ \/ pc' = [pc EXCEPT ![r] = "done"] /\ reserved' = reserved
         \/ pc' = [pc EXCEPT ![r] = "admit"] /\ reserved' = reserved \cup {r}
  BY DEF AppendCall, Return, Goto, ring
<1>2. r \notin Range(claims) /\ r \notin Range(slots)
  BY <1>1, NotClaimed DEF Entered
<1>3. r \notin InFlight /\ r \notin Credits /\ r \notin Publishers /\ r \notin Waiters
      /\ r \notin Pending
  BY <1>1, <1>2, StandsIn DEF Publishing
<1>4. /\ Publishers' = Publishers \ {r} /\ Waiters' = Waiters \ {r}
      /\ Credits' = Credits \ {r} /\ InFlight' = InFlight \ {r}
      /\ pc' = [pc EXCEPT ![r] = "done"] => Pending' = Pending \ {r}
      /\ pc' = [pc EXCEPT ![r] = "admit"] => Pending' = Pending \cup {r}
  <2>1. "done" \in Stages /\ "admit" \in Stages
    BY DEF Stages
  <2> QED BY <1>1, <1>2, <2>1, StageSets DEF Publishing
<1>5. /\ Publishers' = Publishers /\ Waiters' = Waiters /\ Credits' = Credits
      /\ InFlight' = InFlight
  BY <1>3, <1>4
<1>6. AdmittedOK' /\ CreditsOK' /\ PublishersOK' /\ WaitersOK'
  BY <1>0, <1>1, <1>5, Kept DEF counters
<1>7. ReservedOK'
  BY <1>0, <1>1, <1>3, <1>4, <1>5 DEF Accounts, ReservedOK
<1> QED BY <1>6, <1>7 DEF Accounts

\* admit takes a place in the window and a ring credit, waits or refuses.
LEMMA AccountsAdmit ==
  ASSUME IInv, NEW r \in Requests, admit(r)
  PROVE  Accounts'
<1>0. Accounts
  BY AccountingOfSets DEF IInv
<1>1. /\ UNCHANGED <<claims, completed, slots, publishing>> /\ pc[r] = "admit"
  BY DEF admit, ring, counters
<1>2. r \notin Range(claims) /\ r \notin Range(slots)
  BY <1>1, NotClaimed DEF Entered
<1>3. r \notin InFlight /\ r \notin Credits /\ r \notin Publishers /\ r \notin Waiters
      /\ r \in Pending
  BY <1>1, <1>2, StandsIn DEF Publishing
<1>4. CASE pc' = [pc EXCEPT ![r] = "done"] /\ reserved' = reserved \ {r} /\ UNCHANGED counters
  <2>1. /\ Publishers' = Publishers \ {r} /\ Waiters' = Waiters \ {r}
        /\ Credits' = Credits \ {r} /\ InFlight' = InFlight \ {r} /\ Pending' = Pending \ {r}
    <3>1. "done" \in Stages
      BY DEF Stages
    <3> QED BY <1>1, <1>2, <1>4, <3>1, StageSets DEF Publishing
  <2>2. /\ Publishers' = Publishers /\ Waiters' = Waiters /\ Credits' = Credits
        /\ InFlight' = InFlight
    BY <1>3, <2>1
  <2>3. AdmittedOK' /\ CreditsOK' /\ PublishersOK' /\ WaitersOK'
    BY <1>0, <1>4, <2>2, Kept DEF counters
  <2>4. ReservedOK'
    BY <1>0, <1>3, <1>4, <2>1, <2>2 DEF Accounts, ReservedOK
  <2> QED BY <2>3, <2>4 DEF Accounts
<1>5. CASE /\ pc' = [pc EXCEPT ![r] = "admitted"] /\ HasSpace(r)
           /\ admittedBytes' = admittedBytes + Charge[r]
           /\ admittedRecords' = admittedRecords + 1
           /\ publicationCredits' = publicationCredits + 1
           /\ UNCHANGED <<waiting, reserved>>
  <2>1. /\ Publishers' = Publishers \ {r} /\ Waiters' = Waiters \ {r}
        /\ Credits' = Credits \cup {r} /\ InFlight' = InFlight \cup {r}
        /\ Pending' = Pending \ {r}
    <3>1. "admitted" \in Stages
      BY DEF Stages
    <3> QED BY <1>1, <1>2, <1>5, <3>1, StageSets DEF Publishing
  <2>2. /\ Cardinality(InFlight \cup {r}) = Cardinality(InFlight) + 1
        /\ SumOver(Charge, InFlight \cup {r}) = Charge[r] + SumOver(Charge, InFlight)
        /\ Cardinality(Credits \cup {r}) = Cardinality(Credits) + 1
        /\ Cardinality(InFlight) \in Nat /\ SumOver(Charge, InFlight) \in Nat
        /\ Cardinality(Credits) \in Nat /\ Charge[r] \in Nat
    BY <1>3, SetsOfRequests, Counting
  <2>3. InFlightRecords \in Nat /\ InFlightBytes \in Nat /\ Capacity \in Nat
    BY IngressAssumption, WindowIsNatural, CapacityFits
  <2>4. AdmittedOK'
    BY <1>0, <1>5, <2>1, <2>2, <2>3 DEF Accounts, AdmittedOK, HasSpace
  <2>5. CreditsOK'
    BY <1>0, <1>5, <2>1, <2>2, <2>3 DEF Accounts, CreditsOK, HasSpace
  <2>6. PublishersOK' /\ WaitersOK'
    <3>1. Publishers' = Publishers /\ Waiters' = Waiters
      BY <1>3, <2>1
    <3> QED BY <1>0, <1>1, <1>5, <3>1, Kept
  <2>7. ReservedOK'
    BY <1>0, <1>3, <1>5, <2>1 DEF Accounts, ReservedOK
  <2> QED BY <2>4, <2>5, <2>6, <2>7 DEF Accounts
<1>6. CASE /\ pc' = [pc EXCEPT ![r] = "waiting"] /\ ~HasSpace(r) /\ AdmitRefusal(r) = None
           /\ waiting' = waiting + 1
           /\ UNCHANGED <<admittedBytes, admittedRecords, publicationCredits, reserved>>
  <2>1. /\ Publishers' = Publishers \ {r} /\ Waiters' = Waiters \cup {r}
        /\ Credits' = Credits \ {r} /\ InFlight' = InFlight \ {r}
        /\ Pending' = Pending \cup {r}
    <3>1. "waiting" \in Stages
      BY DEF Stages
    <3> QED BY <1>1, <1>2, <1>6, <3>1, StageSets DEF Publishing
  <2>2. /\ Publishers' = Publishers /\ Credits' = Credits /\ InFlight' = InFlight
        /\ Pending' = Pending
    BY <1>3, <2>1
  <2>3. /\ Cardinality(Waiters \cup {r}) = Cardinality(Waiters) + 1
        /\ Cardinality(Waiters) \in Nat
    BY <1>3, SetsOfRequests, Counting
  <2>4. ~(waiting >= AdmissionWaiters)
    BY <1>6 DEF AdmitRefusal, None
  <2>5. WaitersOK'
    <3>1. AdmissionWaiters \in Nat
      BY IngressAssumption
    <3> QED BY <1>0, <1>6, <2>1, <2>3, <2>4, <3>1 DEF Accounts, WaitersOK
  <2>6. AdmittedOK' /\ CreditsOK' /\ PublishersOK' /\ ReservedOK'
    BY <1>0, <1>1, <1>6, <2>2, Kept
  <2> QED BY <2>5, <2>6 DEF Accounts
<1>7. \/ pc' = [pc EXCEPT ![r] = "done"] /\ reserved' = reserved \ {r} /\ UNCHANGED counters
      \/ /\ pc' = [pc EXCEPT ![r] = "admitted"] /\ HasSpace(r)
         /\ admittedBytes' = admittedBytes + Charge[r]
         /\ admittedRecords' = admittedRecords + 1
         /\ publicationCredits' = publicationCredits + 1
         /\ UNCHANGED <<waiting, reserved>>
      \/ /\ pc' = [pc EXCEPT ![r] = "waiting"] /\ ~HasSpace(r) /\ AdmitRefusal(r) = None
         /\ waiting' = waiting + 1
         /\ UNCHANGED <<admittedBytes, admittedRecords, publicationCredits, reserved>>
  BY DEF admit, Return, Goto
<1> QED BY <1>4, <1>5, <1>6, <1>7

\* A woken waiter leaves the waiters.
LEMMA AccountsWake ==
  ASSUME IInv, NEW r \in Requests, admitWakes(r)
  PROVE  Accounts'
<1>0. Accounts
  BY AccountingOfSets DEF IInv
<1>1. /\ UNCHANGED <<claims, completed, slots, publishing, admittedBytes, admittedRecords,
                     publicationCredits>>
      /\ pc[r] = "waiting" /\ waiting' = IF waiting > 0 THEN waiting - 1 ELSE 0
      /\ \/ pc' = [pc EXCEPT ![r] = "done"] /\ reserved' = reserved \ {r}
         \/ pc' = [pc EXCEPT ![r] = "admit"] /\ reserved' = reserved
  BY DEF admitWakes, Return, Goto, ring
<1>2. r \notin Range(claims) /\ r \notin Range(slots)
  BY <1>1, NotClaimed DEF Entered
<1>3. r \notin InFlight /\ r \notin Credits /\ r \notin Publishers /\ r \in Waiters
      /\ r \in Pending
  BY <1>1, <1>2, StandsIn DEF Publishing
<1>4. /\ Publishers' = Publishers \ {r} /\ Waiters' = Waiters \ {r}
      /\ Credits' = Credits \ {r} /\ InFlight' = InFlight \ {r}
      /\ pc' = [pc EXCEPT ![r] = "done"] => Pending' = Pending \ {r}
      /\ pc' = [pc EXCEPT ![r] = "admit"] => Pending' = Pending \cup {r}
  <2>1. "done" \in Stages /\ "admit" \in Stages
    BY DEF Stages
  <2> QED BY <1>1, <1>2, <2>1, StageSets DEF Publishing
<1>5. Publishers' = Publishers /\ Credits' = Credits /\ InFlight' = InFlight
  BY <1>3, <1>4
<1>6. AdmittedOK' /\ CreditsOK' /\ PublishersOK'
  BY <1>0, <1>1, <1>5, Kept
<1>7. WaitersOK'
  <2>1. /\ Cardinality(Waiters \ {r}) = Cardinality(Waiters) - 1
        /\ Cardinality(Waiters) \in Nat /\ Cardinality(Waiters) > 0
    BY <1>3, SetsOfRequests, Counting
  <2>2. AdmissionWaiters \in Nat
    BY IngressAssumption
  <2> QED BY <1>0, <1>1, <1>4, <2>1, <2>2 DEF Accounts, WaitersOK
<1>8. ReservedOK'
  BY <1>0, <1>1, <1>3, <1>4, <1>5 DEF Accounts, ReservedOK
<1> QED BY <1>6, <1>7, <1>8 DEF Accounts

\* A cancelled call gives everything back before it enqueues.
LEMMA AccountsCheck ==
  ASSUME IInv, NEW r \in Requests, CheckContext(r)
  PROVE  Accounts'
<1>0. Accounts
  BY AccountingOfSets DEF IInv
<1>1. /\ UNCHANGED <<claims, completed, slots, publishing, waiting>> /\ pc[r] = "admitted"
  BY DEF CheckContext, ring
<1>2. r \notin Range(claims) /\ r \notin Range(slots)
  BY <1>1, NotClaimed DEF Entered
<1>3. r \in InFlight /\ r \in Credits /\ r \notin Publishers /\ r \notin Waiters
      /\ r \notin Pending
  BY <1>1, <1>2, StandsIn DEF Publishing
<1>4. CASE /\ pc' = [pc EXCEPT ![r] = "done"] /\ reserved' = reserved \ {r}
           /\ releaseReservationLocked(r)
  <2>0. "done" \in Stages
    BY DEF Stages
  <2>1. Publishers' = Publishers
    <3>1. Publishers' = Publishers \ {r}
      BY <1>1, <1>4, <2>0, StageSets DEF Publishing
    <3> QED BY <1>3, <3>1
  <2>2. /\ AdmittedOK' /\ CreditsOK' /\ Waiters' = Waiters
        /\ InFlight' \cup Pending' = (InFlight \cup Pending) \ {r}
    BY <1>1, <1>4, <2>0, ReservationReturned
  <2>3. ReservedOK'
    BY <1>0, <1>4, <2>2 DEF Accounts, ReservedOK
  <2> QED BY <1>0, <1>1, <2>1, <2>2, <2>3, Kept DEF Accounts
<1>5. CASE /\ pc' = [pc EXCEPT ![r] = "enqueue"]
           /\ UNCHANGED <<admittedBytes, admittedRecords, publicationCredits, reserved>>
  <2>1. /\ Publishers' = Publishers \ {r} /\ Waiters' = Waiters \ {r}
        /\ Credits' = Credits \cup {r} /\ InFlight' = InFlight \cup {r}
        /\ Pending' = Pending \ {r}
    <3>1. "enqueue" \in Stages
      BY DEF Stages
    <3> QED BY <1>1, <1>5, <3>1, StageSets DEF Publishing
  <2>2. /\ Publishers' = Publishers /\ Waiters' = Waiters /\ Credits' = Credits
        /\ InFlight' = InFlight /\ Pending' = Pending
    BY <1>3, <2>1
  <2> QED BY <1>0, <1>1, <1>5, <2>2, Kept DEF Accounts
<1> QED BY <1>4, <1>5 DEF CheckContext, Return, Goto

\* enqueue registers a publisher or gives everything back.
LEMMA AccountsEnqueue ==
  ASSUME IInv, NEW r \in Requests, enqueue(r)
  PROVE  Accounts'
<1>0. Accounts
  BY AccountingOfSets DEF IInv
<1>1. /\ UNCHANGED <<claims, completed, slots, waiting>> /\ pc[r] = "enqueue"
  BY DEF enqueue, ring
<1>2. r \notin Range(claims) /\ r \notin Range(slots)
  BY <1>1, NotClaimed DEF Entered
<1>3. r \in InFlight /\ r \in Credits /\ r \notin Publishers /\ r \notin Waiters
      /\ r \notin Pending
  BY <1>1, <1>2, StandsIn DEF Publishing
<1>4. CASE /\ pc' = [pc EXCEPT ![r] = "done"] /\ reserved' = reserved \ {r}
           /\ releaseReservationLocked(r) /\ UNCHANGED publishing
  <2>0. "done" \in Stages
    BY DEF Stages
  <2>1. Publishers' = Publishers
    <3>1. Publishers' = Publishers \ {r}
      BY <1>1, <1>4, <2>0, StageSets DEF Publishing
    <3> QED BY <1>3, <3>1
  <2>2. /\ AdmittedOK' /\ CreditsOK' /\ Waiters' = Waiters
        /\ InFlight' \cup Pending' = (InFlight \cup Pending) \ {r}
    BY <1>1, <1>4, <2>0, ReservationReturned
  <2>3. ReservedOK'
    BY <1>0, <1>4, <2>2 DEF Accounts, ReservedOK
  <2> QED BY <1>0, <1>1, <1>4, <2>1, <2>2, <2>3, Kept DEF Accounts
<1>5. CASE /\ pc' = [pc EXCEPT ![r] = "publish"] /\ publishing' = publishing + 1
           /\ UNCHANGED <<admittedBytes, admittedRecords, publicationCredits, reserved>>
  <2>1. /\ Publishers' = Publishers \cup {r} /\ Waiters' = Waiters \ {r}
        /\ Credits' = Credits \cup {r} /\ InFlight' = InFlight \cup {r}
        /\ Pending' = Pending \ {r}
    <3>1. "publish" \in Stages
      BY DEF Stages
    <3> QED BY <1>1, <1>5, <3>1, StageSets DEF Publishing
  <2>2. /\ Waiters' = Waiters /\ Credits' = Credits
        /\ InFlight' = InFlight /\ Pending' = Pending
    BY <1>3, <2>1
  <2>3. PublishersOK'
    <3>1. Cardinality(Publishers \cup {r}) = Cardinality(Publishers) + 1
      BY <1>3, SetsOfRequests, Counting
    <3> QED BY <1>0, <1>5, <2>1, <3>1 DEF Accounts, PublishersOK
  <2> QED BY <1>0, <1>1, <1>5, <2>2, <2>3, Kept DEF Accounts
<1> QED BY <1>4, <1>5 DEF enqueue, Return, Goto

\* A published slot takes over the ring credit of its call.
LEMMA AccountsPublish ==
  ASSUME IInv, NEW r \in Requests, PublishSequence(r)
  PROVE  Accounts'
<1>0. Accounts
  BY AccountingOfSets DEF IInv
<1>1. PICK s \in DOMAIN claims :
          /\ claims[s] = r /\ s \in Nat \ {0} /\ s \notin published
          /\ slots' = [slots EXCEPT ![Slot(s)] = r] /\ published' = published \cup {s}
  BY PublishFacts
<1>2. /\ pc[r] = "claimed" /\ pc' = [pc EXCEPT ![r] = "finishPublished"]
      /\ UNCHANGED <<claims, completed, counters, reserved>>
  BY DEF PublishSequence, Goto
<1>3. \A q \in Requests : pc'[q] = IF q = r THEN "finishPublished" ELSE pc[q]
  BY <1>2 DEF IInv, Types
<1>4. slots[Slot(s)] = None /\ Slot(s) \in DOMAIN slots /\ None \notin Requests
  BY <1>1, FreeSlot, IngressAssumption DEF None
<1>5. \A q \in Requests : q \in Range(slots') <=> q \in Range(slots) \/ q = r
  <2>1. /\ DOMAIN slots' = DOMAIN slots
        /\ \A x \in DOMAIN slots : slots'[x] = IF x = Slot(s) THEN r ELSE slots[x]
    BY <1>1, <1>4 DEF IInv, Types
  <2> QED BY <1>4, <2>1 DEF Range
<1>6. r \in Range(claims) /\ completed[r] = None
  BY <1>1, <1>2 DEF Range, IInv, ClaimsOK
<1>7. InFlight' = InFlight
  BY <1>2, <1>3, <1>6 DEF InFlight, Reserving
<1>8. Credits' = Credits
  BY <1>2, <1>3, <1>5 DEF Credits, Reserving
<1>9. Publishers' = Publishers /\ Waiters' = Waiters /\ Pending' = Pending
  BY <1>2, <1>3 DEF Publishers, Waiters, Pending, Publishing
<1> QED BY <1>0, <1>2, <1>7, <1>8, <1>9, Kept DEF Accounts, counters

\* finishPublisher leaves the publishers; a failed one gives its disk
\* reservation back.
LEMMA AccountsFinish ==
  ASSUME IInv, NEW r \in Requests, finishPublisher(r)
  PROVE  Accounts'
<1>0. Accounts
  BY AccountingOfSets DEF IInv
<1>1. /\ UNCHANGED <<claims, completed, slots, waiting, admittedBytes, admittedRecords,
                     publicationCredits>>
      /\ publishing' = IF publishing > 0 THEN publishing - 1 ELSE 0
      /\ \/ /\ pc[r] = "finishPublished" /\ pc' = [pc EXCEPT ![r] = "await"]
            /\ reserved' = reserved
         \/ /\ pc[r] = "finishFailed" /\ pc' = [pc EXCEPT ![r] = "done"]
            /\ reserved' = reserved \ {r}
  BY DEF finishPublisher, Goto, ring
<1>2. PublishersOK'
  <2>1. r \in Publishers
    BY <1>1, StandsIn DEF Publishing
  <2>2. Publishers' = Publishers \ {r}
    <3>1. "await" \in Stages /\ "done" \in Stages
      BY DEF Stages
    <3> QED BY <1>1, <3>1, StageSets DEF Publishing
  <2>3. /\ Cardinality(Publishers \ {r}) = Cardinality(Publishers) - 1
        /\ Cardinality(Publishers) \in Nat /\ Cardinality(Publishers) > 0
    BY <2>1, SetsOfRequests, Counting
  <2> QED BY <1>0, <1>1, <2>2, <2>3 DEF Accounts, PublishersOK
<1>3. ~Reserving(r) /\ ~Reserving(r)' /\ pc'[r] # "claimed" /\ pc[r] # "claimed"
      /\ \A q \in Requests : q # r => pc'[q] = pc[q]
  BY <1>1 DEF IInv, Types, Reserving
<1>4. InFlight' = InFlight /\ Credits' = Credits
  BY <1>1, <1>3 DEF InFlight, Credits, Reserving
<1>5. Waiters' = Waiters
  BY <1>1 DEF IInv, Types, Waiters
<1>6. AdmittedOK' /\ CreditsOK' /\ WaitersOK'
  BY <1>0, <1>1, <1>4, <1>5, Kept
<1>7. ReservedOK'
  <2>1. CASE pc[r] = "finishPublished" /\ pc' = [pc EXCEPT ![r] = "await"] /\ reserved' = reserved
    <3>1. Pending' = Pending
      BY <2>1 DEF Pending, IInv, Types
    <3> QED BY <1>0, <1>4, <2>1, <3>1, Kept
  <2>2. CASE /\ pc[r] = "finishFailed" /\ pc' = [pc EXCEPT ![r] = "done"]
             /\ reserved' = reserved \ {r}
    <3>1. Pending' = Pending \ {r}
      BY <2>2 DEF Pending, IInv, Types
    <3>2. r \notin Range(claims)
      BY <2>2, NotClaimed DEF Entered
    <3>3. r \notin InFlight
      BY <2>2, <3>2, StandsIn
    <3> QED BY <1>0, <1>4, <2>2, <3>1, <3>3 DEF Accounts, ReservedOK
  <2> QED BY <1>1, <2>1, <2>2
<1> QED BY <1>2, <1>6, <1>7 DEF Accounts

\* Every step keeps the accounts balanced.
LEMMA AccountingStep == IInv /\ [Next]_vars => Accounting'
<1> SUFFICES ASSUME IInv, [Next]_vars PROVE Accounts'
  BY AccountingOfSets
<1>0. Accounts
  BY AccountingOfSets DEF IInv
<1>1. ASSUME UNCHANGED <<pc, claims, completed, slots, counters, reserved>>
      PROVE  Accounts'
  BY <1>0, <1>1, Kept, KeptOutside DEF counters, Accounts
<1>2. ASSUME NEW r \in Requests, AppendCall(r) PROVE Accounts'
  BY <1>2, AccountsAppend
<1>3. ASSUME NEW r \in Requests, admit(r) PROVE Accounts'
  BY <1>3, AccountsAdmit
<1>4. ASSUME NEW r \in Requests, admitWakes(r) PROVE Accounts'
  BY <1>4, AccountsWake
<1>5. ASSUME NEW r \in Requests, CheckContext(r) PROVE Accounts'
  BY <1>5, AccountsCheck
<1>6. ASSUME NEW r \in Requests, enqueue(r) PROVE Accounts'
  BY <1>6, AccountsEnqueue
<1>7. ASSUME NEW r \in Requests, ClaimSlot(r) PROVE Accounts'
  <2>1. /\ pc[r] = "publish" /\ pc' = [pc EXCEPT ![r] = "claimed"]
        /\ UNCHANGED <<completed, slots, counters, reserved>>
    BY <1>7 DEF ClaimSlot, Goto
  <2>2. Range(claims') = Range(claims) \cup {r}
    BY <1>7, ClaimFacts
  <2>3. \A q \in Requests : pc'[q] = IF q = r THEN "claimed" ELSE pc[q]
    BY <2>1 DEF IInv, Types
  <2>4. InFlight' = InFlight
    BY <2>1, <2>2, <2>3 DEF InFlight, Reserving
  <2>5. /\ Credits' = Credits /\ Publishers' = Publishers /\ Waiters' = Waiters
        /\ Pending' = Pending
    BY <2>1, <2>3 DEF Credits, Publishers, Waiters, Pending, Reserving, Publishing
  <2> QED BY <1>0, <2>1, <2>4, <2>5, Kept DEF Accounts, counters
<1>8. ASSUME NEW r \in Requests, ClaimFails(r) PROVE Accounts'
  <2>1. /\ UNCHANGED <<claims, completed, slots, publishing, waiting, reserved>>
        /\ pc[r] = "publish" /\ pc' = [pc EXCEPT ![r] = "finishFailed"]
        /\ releaseReservationLocked(r)
    BY <1>8 DEF ClaimFails, Goto, ring
  <2>2. "finishFailed" \in Stages
    BY DEF Stages
  <2>3. Publishers' = Publishers
    <3>1. r \in Publishers
      BY <2>1, StandsIn DEF Publishing
    <3>2. Publishers' = Publishers \cup {r}
      BY <2>1, <2>2, StageSets DEF Publishing
    <3> QED BY <3>1, <3>2
  <2>4. /\ AdmittedOK' /\ CreditsOK' /\ Waiters' = Waiters
        /\ InFlight' \cup Pending' = InFlight \cup Pending
    BY <2>1, <2>2, ReservationReturned
  <2> QED BY <1>0, <2>1, <2>3, <2>4, Kept DEF Accounts
<1>9. ASSUME NEW r \in Requests, PublishSequence(r) PROVE Accounts'
  BY <1>9, AccountsPublish
<1>10. ASSUME NEW r \in Requests, finishPublisher(r) PROVE Accounts'
  BY <1>10, AccountsFinish
<1>11. ASSUME NEW r \in Requests, waitResult(r) PROVE Accounts'
  <2>1. /\ UNCHANGED <<claims, completed, slots, counters, reserved>>
        /\ pc[r] = "await" /\ pc' = [pc EXCEPT ![r] = "done"]
    BY <1>11 DEF waitResult, Return, ring
  <2>2. \A q \in Requests : pc'[q] = IF q = r THEN "done" ELSE pc[q]
    BY <2>1 DEF IInv, Types
  <2>3. InFlight' = InFlight /\ Credits' = Credits
    BY <2>1, <2>2 DEF InFlight, Credits, Reserving
  <2>4. Publishers' = Publishers /\ Waiters' = Waiters /\ Pending' = Pending
    BY <2>1, <2>2 DEF Publishers, Waiters, Pending, Publishing
  <2> QED BY <1>0, <2>1, <2>3, <2>4, Kept DEF Accounts, counters
\* A slot of the ring is emptied: its request no longer holds a ring credit.
<1>12. ASSUME NEW s \in DOMAIN claims, InRing(s), slots' = [slots EXCEPT ![Slot(s)] = None],
              pc' = pc, releasePublicationLocked
       PROVE  CreditsOK'
  <2>1. /\ claims[s] \in Range(slots) /\ Slot(s) \in DOMAIN slots
        /\ \A y \in DOMAIN slots : slots[y] = claims[s] => y = Slot(s)
        /\ ~Reserving(claims[s]) /\ claims[s] \in Requests
    BY <1>12, SlotHolder
  <2>2. slots[Slot(s)] = claims[s] /\ None \notin Requests
    BY <1>12, IngressAssumption DEF InRing, None, IInv, SlotsOK
  <2>3. /\ DOMAIN slots' = DOMAIN slots
        /\ \A x \in DOMAIN slots : slots'[x] = IF x = Slot(s) THEN None ELSE slots[x]
    BY <1>12, <2>1 DEF IInv, Types
  <2>4. \A q \in Requests : q \in Range(slots') <=> q \in Range(slots) /\ q # claims[s]
    BY <2>1, <2>2, <2>3 DEF Range
  <2>5. Credits' = Credits \ {claims[s]}
    BY <1>12, <2>1, <2>4 DEF Credits, Reserving
  <2>6. claims[s] \in Credits
    BY <2>1 DEF Credits
  <2> QED BY <1>0, <1>12, <2>5, <2>6, CreditReleased
\* A request in the ring or behind it gets its result.
<1>13. ASSUME NEW s \in published, NEW v, v # None, completed[claims[s]] = None,
              completed' = [completed EXCEPT ![claims[s]] = v],
              releaseAdmissionLocked(claims[s]), reserved' = reserved \ {claims[s]},
              UNCHANGED <<pc, claims, publishing, waiting>>
       PROVE  AdmittedOK' /\ PublishersOK' /\ WaitersOK' /\ ReservedOK'
  <2> DEFINE r == claims[s]
  <2>1. /\ r \in Requests /\ r \in Range(claims) /\ pc[r] # "claimed"
        /\ pc[r] \in Entered \cup {"done"}
    <3>1. r \in Requests /\ r \in Range(claims) /\ s \in DOMAIN claims
      BY ClaimsTyped
    <3>2. ClaimsOK
      BY DEF IInv
    <3> QED BY <3>1, <3>2 DEF ClaimsOK
  <2>2. ~Reserving(r) /\ r \notin Pending
    BY <2>1 DEF Reserving, Entered, Pending
  <2>3. \A q \in Requests : completed'[q] = IF q = r THEN v ELSE completed[q]
    BY <1>13 DEF IInv, Types
  <2>4. r \in InFlight
    BY <1>13, <2>1 DEF InFlight
  <2>5. InFlight' = InFlight \ {r}
    BY <1>13, <2>1, <2>2, <2>3 DEF InFlight, Reserving
  <2>6. AdmittedOK'
    BY <1>0, <1>13, <2>4, <2>5, Released
  <2>7. Publishers' = Publishers /\ Waiters' = Waiters /\ Pending' = Pending
    BY <1>13 DEF Publishers, Waiters, Pending
  <2>8. ReservedOK'
    BY <1>0, <1>13, <2>2, <2>5, <2>7 DEF Accounts, ReservedOK
  <2> QED BY <1>0, <1>13, <2>6, <2>7, <2>8, Kept
<1>14. CASE Handle
  <2>1. /\ handler.step = "handle" /\ slots' = [slots EXCEPT ![Slot(handler.at + 1)] = None]
        /\ releasePublicationLocked
        /\ UNCHANGED <<pc, claims, completed, admittedBytes, admittedRecords, publishing, waiting,
                       reserved>>
    BY <1>14 DEF Handle, calls
  <2>2. InRing(handler.at + 1) /\ handler.at + 1 \in DOMAIN claims
    <3>1. Taken = handler.at /\ handler.at \in Nat
      BY <2>1, HandlerFields DEF Taken, Busy, IInv, Types
    <3>2. handler.at + 1 > Taken
      BY <3>1
    <3> QED BY <2>1, <3>2, NextRequest DEF InRing, IInv, Types
  <2>3. CreditsOK'
    BY <1>12, <2>1, <2>2
  <2>4. InFlight' = InFlight /\ Publishers' = Publishers /\ Waiters' = Waiters /\ Pending' = Pending
    BY <2>1 DEF InFlight, Publishers, Waiters, Pending, Reserving
  <2> QED BY <1>0, <2>1, <2>3, <2>4, Kept DEF Accounts
<1>15. CASE CompleteRequest
  <2>1. /\ Finished + 1 \in DOMAIN claims /\ completed[claims[Finished + 1]] = None
        /\ handler.outcome \in Outcomes
        /\ completed' = [completed EXCEPT ![claims[Finished + 1]] = handler.outcome]
        /\ releaseAdmissionLocked(claims[Finished + 1])
        /\ reserved' = reserved \ {claims[Finished + 1]}
    BY <1>15, CompleteFacts
  <2>2. UNCHANGED <<pc, claims, slots, publishing, waiting, publicationCredits>>
    BY <1>15 DEF CompleteRequest, ring
  <2>3. Finished + 1 \in published
    BY <1>15, FinishedNext
  <2>4. handler.outcome # None
    BY <2>1 DEF Outcomes, None
  <2>5. AdmittedOK' /\ PublishersOK' /\ WaitersOK' /\ ReservedOK'
    BY <1>13, <2>1, <2>2, <2>3, <2>4
  <2>6. Credits' = Credits
    BY <2>2 DEF Credits, Reserving
  <2> QED BY <1>0, <2>2, <2>5, <2>6, Kept DEF Accounts
<1>16. ASSUME NEW c \in Closers, drainPending(c) PROVE Accounts'
  <2>1. PICK s \in DOMAIN claims :
           /\ InRing(s) /\ slots' = [slots EXCEPT ![Slot(s)] = None]
           /\ completed[claims[s]] = None
           /\ completed' = [completed EXCEPT ![claims[s]] = "unknown"]
           /\ releaseAdmissionLocked(claims[s]) /\ reserved' = reserved \ {claims[s]}
    BY <1>16, DrainFacts
  <2>2. /\ releasePublicationLocked /\ UNCHANGED <<pc, claims, publishing, waiting>>
    BY <1>16 DEF drainPending
  <2>3. "unknown" # None /\ s \in published
    BY <2>1 DEF None, InRing
  <2>4. AdmittedOK' /\ PublishersOK' /\ WaitersOK' /\ ReservedOK'
    BY <1>13, <2>1, <2>2, <2>3
  <2>5. CreditsOK'
    BY <1>12, <2>1, <2>2
  <2> QED BY <2>4, <2>5 DEF Accounts
<1>17. CASE ProcessorStep /\ ~Handle /\ ~CompleteRequest
  BY <1>1, <1>17 DEF ProcessorStep, TakeRange, MarkUnavailable, AdvanceSequence, ProcessorExits,
     writeRequests, calls, ring
<1>18. ASSUME NEW c \in Closers, CloserStep(c) \/ closeWriter(c), ~drainPending(c)
       PROVE  Accounts'
  BY <1>1, <1>18 DEF CloserStep, closeWriter, StopReads, CloseRing, JoinProcessor, FinishClose,
     CloseReturns, calls, ring
<1>19. CASE StoreCloses \/ FetchFences \/ UNCHANGED vars \/ \E r \in Requests : Cancel(r)
  BY <1>1, <1>19 DEF StoreCloses, FetchFences, Cancel, vars, calls, ring
<1> QED BY <1>2, <1>3, <1>4, <1>5, <1>6, <1>7, <1>8, <1>9, <1>10, <1>11, <1>14, <1>15, <1>16,
           <1>17, <1>18, <1>19 DEF Next, RequestStep

-----------------------------------------------------------------------------
(* The theorems.                                                           *)

\* The invariant holds initially.
LEMMA InvInit == Init => IInv
<1> SUFFICES ASSUME Init PROVE IInv
  OBVIOUS
<1>1. /\ handler.step = "wait" /\ handler.requests = << >> /\ handler.group = << >>
      /\ handler \in HandlerRecord
  <2>1. << >> \in Seq(Requests)
    OBVIOUS
  <2> QED BY <2>1 DEF Init, HandlerIdle, HandlerRecord, HandlerSteps
<1>2. Types
  <2>1. << >> \in Seq(Requests) /\ DOMAIN << >> = {}
    OBVIOUS
  <2> QED BY <1>1, <2>1 DEF Init, Types, Stages, CloserSteps
<1>3. DOMAIN claims = {} /\ Len(claims) = 0 /\ claims = << >> /\ log = << >> /\ DOMAIN log = {}
      /\ processed = 0 /\ published = {} /\ doubt = {}
  BY DEF Init
<1>4. ~Busy /\ Finished = 0 /\ Written = 0 /\ Taken = 0
  BY <1>1, <1>3 DEF Busy, Finished, Written, Taken
<1>5. \A r \in Requests : pc[r] = "idle" /\ completed[r] = None /\ result[r] = None
  BY DEF Init
<1>6. Range(claims) = {} /\ Range(log) = {}
  BY <1>3 DEF Range
<1>7. ClaimsOK
  BY <1>3, <1>5 DEF ClaimsOK, Entered
<1>8. HandlerOK
  BY <1>1, <1>3, <1>4 DEF HandlerOK
<1>9. SlotsOK
  <2>1. \A x \in DOMAIN slots : slots[x] = None
    BY DEF Init
  <2>2. Len(claims) - processed <= Capacity
    BY <1>3, CapacityFits
  <2> QED BY <1>3, <2>1, <2>2 DEF SlotsOK
<1>10. LogOK
  <2>1. None # "ok" /\ None \notin Refusals
    BY DEF None, Refusals
  <2> QED BY <1>1, <1>3, <1>5, <1>6, <2>1 DEF LogOK, LogFollowsClaims
<1>11. ResultsOK
  <2>1. None # "ok" /\ None \notin Refusals
    BY DEF None, Refusals
  <2> QED BY <1>5, <2>1 DEF ResultsOK
<1>12. ShutdownOK
  BY <1>1 DEF Init, ShutdownOK, ActiveSteps
<1>13. Accounting
  <2>1. /\ InFlight = {} /\ Publishers = {} /\ Waiters = {} /\ Pending = {}
    BY <1>5, <1>6 DEF InFlight, Publishers, Waiters, Pending, Reserving, Publishing
  <2>2. Credits = {}
    <3>1. \A r \in Requests : r \notin Range(slots)
      <4>1. \A x \in DOMAIN slots : slots[x] = None
        BY DEF Init
      <4>2. None \notin Requests
        BY IngressAssumption DEF None
      <4> QED BY <4>1, <4>2 DEF Range
    <3> QED BY <1>5, <3>1 DEF Credits, Reserving
  <2>3. Cardinality({}) = 0 /\ SumOver(Charge, {}) = 0
    BY FS_EmptySet, SumEmpty
  <2>4. /\ InFlightRecords \in Nat /\ InFlightBytes \in Nat /\ Capacity \in Nat
        /\ AdmissionWaiters \in Nat
    BY IngressAssumption, WindowIsNatural, CapacityFits
  <2>5. /\ admittedRecords = 0 /\ admittedBytes = 0 /\ publicationCredits = 0
        /\ publishing = 0 /\ waiting = 0 /\ reserved = {}
    BY DEF Init
  <2>6. Accounts
    BY <2>1, <2>2, <2>3, <2>4, <2>5
       DEF Accounts, AdmittedOK, CreditsOK, PublishersOK, WaitersOK, ReservedOK
  <2> QED BY <2>6, AccountingOfSets
<1> QED BY <1>2, <1>7, <1>8, <1>9, <1>10, <1>11, <1>12, <1>13 DEF IInv

\* The inductive invariant holds in every reachable state, for any set of
\* requests, any charges, any window and any faults.
THEOREM IInvHolds == Spec => []IInv
<1>1. Init => IInv
  BY InvInit
<1>2. IInv /\ [Next]_vars => IInv'
  <2> SUFFICES ASSUME IInv, [Next]_vars PROVE IInv'
    OBVIOUS
  <2>1. Types' /\ ClaimsOK' /\ HandlerOK' /\ SlotsOK' /\ LogOK' /\ ResultsOK' /\ ShutdownOK'
        /\ Accounting'
    BY AccountedFor, TypesStep, ClaimsStep, HandlerStep, SlotsStep, LogStep, ResultsStep, ShutdownStep,
       AccountingStep
  <2> QED BY <2>1 DEF IInv
<1> QED BY <1>1, <1>2, PTL DEF Spec

\* The counters that queueMu guards and the disk reservations are exactly what
\* the requests hold: admit, enqueue, complete, drainPending and every refusal
\* return each credit once and never twice.
THEOREM AccountingHolds == Spec => []Accounting
<1>1. IInv => Accounting
  BY DEF IInv
<1> QED BY <1>1, IInvHolds, PTL

\* An admitted call always finds room in the ring, so ring.Next never waits for
\* the processor.
THEOREM RingNeverBlocksHolds == Spec => []RingNeverBlocks
<1>1. IInv => RingNeverBlocks
  <2> SUFFICES ASSUME IInv, NEW r \in Requests, pc[r] = "publish"
               PROVE  Len(claims) - processed < Capacity
    BY DEF RingNeverBlocks, RingHasRoom
  <2>1. handler.step # "exit"
    BY DEF IInv, ShutdownOK, Publishing
  <2>2. r \notin Range(claims) /\ r \in InFlight
    BY NotClaimed, StandsIn DEF Entered
  <2>3. \A s \in (Finished + 1)..Len(claims) : claims[s] \in InFlight \ {r}
    <3>1. ASSUME NEW s \in (Finished + 1)..Len(claims) PROVE claims[s] \in InFlight \ {r}
      <4>1. s \in DOMAIN claims /\ s > Finished
        BY ClaimsTyped, Borders
      <4>2. claims[s] \in InFlight
        BY <2>1, <4>1, UnfinishedInFlight
      <4>3. claims[s] # r
        BY <2>2, <4>1 DEF Range
      <4> QED BY <4>2, <4>3
    <3> QED BY <3>1
  <2>4. /\ IsFiniteSet(InFlight \ {r}) /\ Cardinality(InFlight \ {r}) = Cardinality(InFlight) - 1
        /\ Cardinality(InFlight) \in Nat /\ Cardinality(InFlight) <= InFlightRecords
    BY <2>2, InFlightBounded, FS_RemoveElement
  <2>5. Finished \in Nat /\ Len(claims) \in Nat /\ Finished <= Len(claims) /\ processed \in Nat
        /\ processed <= Finished
    BY ClaimsTyped, Borders
  <2>6. Len(claims) - Finished <= Cardinality(InFlight \ {r})
    <3>1. Len(claims) <= Len(claims)
      BY <2>5
    <3> QED BY <2>3, <2>4, <2>5, <3>1, RangeIntoSet, Zenon
  <2>7. Finished - processed <= InFlightRecords
    <3>1. CASE Busy
      <4>1. /\ handler.at <= handler.end /\ handler.end - processed <= InFlightRecords
            /\ Taken = handler.at /\ handler.at \in Nat /\ handler.end \in Nat
        BY <3>1, HandlerFields DEF IInv, HandlerOK, Taken, Types
      <4> QED BY <2>5, <4>1, Borders, WindowIsNatural
    <3>2. CASE ~Busy
      BY <2>5, <3>2, WindowIsNatural DEF Finished
    <3> QED BY <3>1, <3>2
  <2> QED BY <2>4, <2>5, <2>6, <2>7, WindowIsNatural, CapacityFits
<1> QED BY <1>1, IInvHolds, PTL

\* The handler finds a request in every slot of the range it was given.
THEOREM HandlerFindsRequestHolds == Spec => []HandlerFindsRequest
<1>1. IInv => HandlerFindsRequest
  <2> SUFFICES ASSUME IInv, handler.step = "handle"
               PROVE  slots[Slot(handler.at + 1)] # None
    BY DEF HandlerFindsRequest
  <2>1. slots[Slot(handler.at + 1)] \in Requests
    BY NextRequest
  <2> QED BY <2>1, IngressAssumption DEF None
<1> QED BY <1>1, IInvHolds, PTL

\* An Append that returned success is in the log; one that was refused is
\* neither in the log nor in doubt.
THEOREM OutcomeIsTrueHolds == Spec => []OutcomeIsTrue
<1>1. IInv => OutcomeIsTrue
  <2> SUFFICES ASSUME IInv, NEW r \in Requests
               PROVE  /\ result[r] = "ok" => r \in Range(log)
                      /\ result[r] \in Refusals => /\ r \notin Range(log) \cup doubt
                                                   /\ r \in Range(claims) => completed[r] = result[r]
    BY DEF OutcomeIsTrue
  <2>1. result[r] = "ok" => r \in Range(log)
    BY DEF IInv, ResultsOK, LogOK
  <2>2. result[r] \in Refusals /\ r \in Range(claims) => completed[r] = result[r]
    BY DEF IInv, ResultsOK
  <2>3. r \in Range(log) \cup doubt => r \in Range(claims)
    <3>1. r \in Range(log) \cup doubt => \E m \in 1..Written : claims[m] = r
      BY DEF IInv, LogOK
    <3>2. \A m \in 1..Written : m \in DOMAIN claims
      <4>1. Written \in Nat /\ Written <= Len(claims)
        BY Borders
      <4> QED BY <4>1, ClaimsTyped
    <3> QED BY <3>1, <3>2 DEF Range
  <2>4. completed[r] \in Refusals => r \notin Range(log) \cup doubt
    BY DEF IInv, LogOK
  <2> QED BY <2>1, <2>2, <2>3, <2>4
<1> QED BY <1>1, IInvHolds, PTL

\* The log has the requests in the order in which they claimed their sequences.
THEOREM LogFollowsClaimsHolds == Spec => []LogFollowsClaims
<1>1. IInv => LogFollowsClaims
  BY DEF IInv, LogOK
<1> QED BY <1>1, IInvHolds, PTL

\* When close returns every request that entered the ring has a result and no
\* slot holds one.
THEOREM ClosedIsDrainedHolds == Spec => []ClosedIsDrained
<1>1. IInv => ClosedIsDrained
  <2> SUFFICES ASSUME IInv, NEW c \in Closers, closer[c] = "returned", NEW r \in Range(claims)
               PROVE  completed[r] # None /\ r \notin Range(slots)
    BY DEF ClosedIsDrained
  <2>1. PICK i \in DOMAIN claims : claims[i] = r
    BY DEF Range
  <2>2. completed[r] # None
    BY <2>1 DEF IInv, ShutdownOK
  <2>3. ASSUME NEW x \in DOMAIN slots, slots[x] = r PROVE FALSE
    <3>1. r # None
      BY <2>1, ClaimsTyped, IngressAssumption DEF None
    <3>2. PICK s \in published : InRing(s) /\ slots[x] = claims[s]
      BY <2>3, <3>1 DEF IInv, SlotsOK
    <3> QED BY <2>2, <2>3, <3>2 DEF InRing
  <2> QED BY <2>2, <2>3 DEF Range
<1> QED BY <1>1, IInvHolds, PTL
=============================================================================
