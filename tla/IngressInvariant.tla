-------------------------- MODULE IngressInvariant --------------------------
(***************************************************************************)
(* The inductive invariant of Ingress, and the proofs that steps keep its  *)
(* first three parts.  IngressSteps and IngressProofs prove the others.    *)
(*                                                                         *)
(* None of the properties of Ingress is inductive alone.  That the log has *)
(* the order of the claims needs to know which claims the processor holds  *)
(* (HandlerOK); that its range is filled needs the slots (SlotsOK); that no *)
(* slot is overwritten needs the window to be at most half of the ring,    *)
(* which is Accounting; that a counter may be decremented needs each slot  *)
(* to belong to one claim; and that close leaves nothing behind needs the  *)
(* order of its steps (ShutdownOK).                                        *)
(***************************************************************************)
EXTENDS Ingress, WellFoundedInduction, TLAPS

\* The stages of an Append call, the results and the steps of the other threads.
Stages == {"idle", "admit", "waiting", "admitted", "enqueue", "publish", "claimed",
           "finishPublished", "finishFailed", "await", "done"}

\* The stages of a call that holds a ring sequence and has not returned.
Entered == {"claimed", "finishPublished", "await"}

\* What complete may publish as the result of a request.
Outcomes == {"ok", "unavailable", "unknown", "tooLarge", "closed"}

HandlerSteps == {"wait", "handle", "write", "mark", "complete", "advance", "exit"}

CloserSteps == {"idle", "wait", "publishers", "ring", "join", "drain", "returned"}

\* What the processor goroutine holds: its range and its requests.
HandlerRecord == [step : HandlerSteps, at : Nat, end : Nat, requests : Seq(Requests),
                  group : Seq(Requests), outcome : Outcomes \cup {None}]

\* Every variable has its type.
Types ==
    /\ pc \in [Requests -> Stages]
    /\ result \in [Requests -> Refusals \cup {"ok", "unknown", None}]
    /\ claims \in Seq(Requests) /\ published \subseteq DOMAIN claims
    /\ slots \in [0..(Capacity - 1) -> Requests \cup {None}]
    /\ processed \in Nat
    /\ handler \in HandlerRecord
    /\ completed \in [Requests -> Outcomes \cup {None}]
    /\ log \in Seq(Requests) /\ doubt \subseteq Requests
    /\ closer \in [Closers -> CloserSteps]
    /\ {unavailable, closing, closed, queueClosing, queueClosed, ringClosed} \subseteq BOOLEAN

\* The ring sequences are those of the calls that have claimed one.
ClaimsOK ==
    /\ \A i, j \in DOMAIN claims : claims[i] = claims[j] => i = j
    /\ \A i \in DOMAIN claims : pc[claims[i]] \in Entered \cup {"done"}
    /\ \A r \in Requests : pc[r] \in Entered => r \in Range(claims)
    /\ published = {i \in DOMAIN claims : pc[claims[i]] # "claimed"}
    /\ \A r \in Requests : completed[r] # None => r \in Range(claims) /\ pc[r] # "claimed"

\* The processor is inside handle.
Busy == handler.step \notin {"wait", "exit"}

\* The borders of the handler's range: sequences taken off the ring, written to
\* the log, completed.  Outside handle all three stand at processed.
Taken == IF Busy THEN handler.at ELSE processed
Written == IF Busy THEN handler.at - Len(handler.requests) ELSE processed
Finished == IF Busy THEN handler.at - Len(handler.requests) - Len(handler.group) ELSE processed

\* The handler works on published sequences, in claim order, within one window
\* of records; its requests and its group are the claims between the borders,
\* and the completed requests are those below the last border, unless the
\* processor is gone.
HandlerOK ==
    /\ 1..processed \subseteq published
    /\ Busy => /\ processed <= Finished /\ handler.at <= handler.end
               /\ 1..handler.end \subseteq published
               /\ handler.end - processed <= InFlightRecords
               /\ \A i \in 1..Len(handler.requests) : handler.requests[i] = claims[Written + i]
               /\ \A i \in 1..Len(handler.group) : handler.group[i] = claims[Finished + i]
    /\ handler.step = "handle" => /\ handler.at < handler.end /\ Finished = processed
                                  /\ handler.group = << >>
    /\ handler.step \in {"write", "mark", "complete", "advance"} => handler.at = handler.end
    /\ handler.step = "write" => handler.requests # << >> /\ handler.group = << >>
    /\ handler.step \in {"mark", "complete"} => handler.group # << >>
    /\ handler.step \in {"wait", "advance"} =>
         handler.requests = << >> /\ handler.group = << >>
    /\ \A i \in 1..Finished : completed[claims[i]] # None
    /\ \A i \in DOMAIN claims : i > Finished /\ completed[claims[i]] # None =>
                                  handler.step = "exit"

\* Sequence s waits in the ring.
InRing(s) == s \in published /\ s > Taken /\ completed[claims[s]] = None

\* The ring is not overrun, and a slot holds a request exactly when a sequence
\* of that slot waits in the ring.
SlotsOK ==
    /\ Len(claims) - processed <= Capacity
    /\ \A x \in DOMAIN slots : slots[x] # None =>
         \E s \in published : InRing(s) /\ Slot(s) = x /\ slots[x] = claims[s]
    /\ \A s \in published : InRing(s) => slots[Slot(s)] = claims[s]

\* Only written requests are in the log or in doubt, the log has the order of
\* the claims, and the results agree with the log, those of the group in hand
\* included.
LogOK ==
    /\ \A r \in Range(log) \cup doubt : \E m \in 1..Written : claims[m] = r
    /\ LogFollowsClaims
    /\ \A r \in Requests : /\ completed[r] = "ok" => r \in Range(log)
                           /\ completed[r] \in Refusals => r \notin Range(log) \cup doubt
    /\ handler.step \in {"mark", "complete"} =>
         /\ handler.outcome # None
         /\ handler.outcome = "ok" => Range(handler.group) \subseteq Range(log)
         /\ handler.outcome \in Refusals =>
              Range(handler.group) \cap (Range(log) \cup doubt) = {}

\* What a call returned is what its request was completed with.
ResultsOK ==
    \A r \in Requests :
        /\ result[r] # None => pc[r] \in {"done", "finishFailed"}
        /\ result[r] = "ok" => completed[r] = "ok"
        /\ result[r] \in Refusals /\ r \in Range(claims) => completed[r] = result[r]

\* The stages close waits for: the calls counted in publishing.
Publishing == {"publish", "claimed", "finishPublished", "finishFailed"}

\* The steps of the one caller of close that runs the shutdown.
ActiveSteps == {"publishers", "ring", "join", "drain"}

\* One caller of close runs the shutdown; each of its steps leaves behind what
\* the next relies on.
ShutdownOK ==
    /\ \A c \in Closers : closer[c] # "idle" => queueClosing
    /\ \A c, d \in Closers : closer[c] \in ActiveSteps /\ closer[d] \in ActiveSteps => c = d
    /\ \A c \in Closers : /\ closer[c] \in {"ring", "join", "drain"} => closing
                          /\ closer[c] \in {"join", "drain"} => ringClosed
                          /\ closer[c] = "drain" => handler.step = "exit"
                          /\ closer[c] = "returned" => queueClosed
                          /\ closer[c] \in ActiveSteps => ~queueClosed
    /\ closing => queueClosing /\ \A r \in Requests : pc[r] \notin Publishing
    /\ ringClosed => closing
    /\ handler.step = "exit" => ringClosed
    /\ queueClosed => /\ queueClosing /\ closing /\ handler.step = "exit"
                      /\ \A i \in DOMAIN claims : completed[claims[i]] # None

\* The inductive invariant.
IInv == /\ Types /\ ClaimsOK /\ HandlerOK /\ SlotsOK /\ LogOK /\ ResultsOK /\ ShutdownOK
        /\ Accounting

\* What the other steps need of the accounts.
Accounted ==
    /\ publishing = 0 => \A r \in Requests : pc[r] \notin Publishing
    /\ handler.step = "wait" =>
         \A e \in Nat : e > processed /\ (processed + 1)..e \subseteq published =>
                          e - processed <= InFlightRecords

-----------------------------------------------------------------------------
(* Least and greatest elements, and the ring.                              *)

\* A nonempty set of naturals has a least element.
LEMMA LeastNatural ==
  ASSUME NEW T \in SUBSET Nat, T # {}
  PROVE  \E n \in T : \A m \in T : n <= m
<1> DEFINE R == OpToRel(<, Nat)
<1>1. PICK n \in T : \A m \in T : ~(<<m, n>> \in R)
  <2> HIDE DEF R
  <2>1. IsWellFoundedOn(R, Nat)
    BY NatLessThanWellFounded DEF R
  <2> QED BY <2>1, WFMin, Zenon
<1>2. \A m \in T : ~(m < n)
  BY <1>1, Zenon DEF OpToRel
<1> QED BY <1>2

\* Max of a bounded nonempty set of naturals.
LEMMA MaxIsGreatest ==
  ASSUME NEW S, NEW a \in Nat, NEW b \in Nat, S \subseteq a..b, S # {}
  PROVE  Max(S) \in S /\ \A y \in S : y <= Max(S)
<1> DEFINE T == {b - x : x \in S}
<1>1. T \in SUBSET Nat /\ T # {}
  OBVIOUS
<1>2. PICK t \in T : \A u \in T : t <= u
  <2> HIDE DEF T
  <2> QED BY <1>1, LeastNatural
<1>3. PICK x \in S : t = b - x
  OBVIOUS
<1>4. \A y \in S : x >= y
  BY <1>2, <1>3
<1> QED BY <1>4 DEF Max

\* Min of a nonempty set of naturals.
LEMMA MinIsLeast ==
  ASSUME NEW S \in SUBSET Nat, S # {}
  PROVE  Min(S) \in S /\ \A y \in S : Min(S) <= y
BY LeastNatural, Zenon DEF Min

-----------------------------------------------------------------------------
(* The ring.                                                               *)

\* The capacities NewIngress may choose are positive.
LEMMA PowersArePositive == ASSUME NEW k \in 0..17 PROVE 2^k \in Nat \ {0}
<1> DEFINE Powers == {2^0, 2^1, 2^2, 2^3, 2^4, 2^5, 2^6, 2^7, 2^8, 2^9, 2^10, 2^11, 2^12,
                      2^13, 2^14, 2^15, 2^16, 2^17}
<1>1. \/ k = 0 \/ k = 1 \/ k = 2 \/ k = 3 \/ k = 4 \/ k = 5 \/ k = 6 \/ k = 7 \/ k = 8
      \/ k = 9 \/ k = 10 \/ k = 11 \/ k = 12 \/ k = 13 \/ k = 14 \/ k = 15 \/ k = 16
      \/ k = 17
  BY SMT
<1>2. 2^k \in Powers
  BY <1>1, Zenon
<1>3. Powers \subseteq Nat \ {0}
  BY SMT
<1> HIDE DEF Powers
<1> QED BY <1>2, <1>3

\* The window of records is positive.
LEMMA WindowIsNatural == InFlightRecords \in Nat \ {0}
<1>1. maxInFlightRecords \in Nat
  BY SMT DEF maxInFlightRecords
<1> QED BY <1>1, IngressAssumption, SMT

\* The capacity of the ring is at least twice the window of records.
LEMMA CapacityFits == Capacity \in Nat \ {0} /\ 2 * InFlightRecords <= Capacity
<1> DEFINE K == {j \in 0..17 : 2 * InFlightRecords <= 2^j}
           P == {2^k : k \in K}
<1>1. \A k \in 0..17 : 2^k \in Nat \ {0}
  BY PowersArePositive, Zenon
<1>2. 17 \in K
  <2> DEFINE p == 2^17
  <2>1. 2 * maxInFlightRecords <= p /\ maxInFlightRecords \in Nat
    BY SMT DEF maxInFlightRecords
  <2>2. p \in Nat
    BY SMT
  <2> HIDE DEF p
  <2>3. 2 * InFlightRecords <= p
    BY <2>1, <2>2, IngressAssumption, SMT
  <2>4. 17 \in 0..17
    BY SMT
  <2> QED BY <2>3, <2>4, Zenon DEF p
<1>3. P \in SUBSET Nat /\ P # {}
  BY <1>1, <1>2, Zenon
<1>4. PICK n \in P : \A m \in P : n <= m
  <2> HIDE DEF P
  <2> QED BY <1>3, LeastNatural
<1>5. Capacity \in P
  <2>1. Capacity = Min(P)
    BY DEF Capacity
  <2> HIDE DEF P
  <2> QED BY <1>4, <2>1 DEF Min
<1> QED BY <1>1, <1>5, Zenon

\* A sequence has a slot of the ring.
LEMMA SlotIn == ASSUME NEW s \in Nat \ {0} PROVE Slot(s) \in 0..(Capacity - 1)
BY CapacityFits DEF Slot

\* Two sequences less than a capacity apart have different slots.
LEMMA SlotInjective ==
  ASSUME NEW s \in Nat \ {0}, NEW t \in Nat \ {0}, s <= t, t - s < Capacity,
         Slot(s) = Slot(t)
  PROVE  s = t
<1> DEFINE C == Capacity
           a == s - 1
           b == t - 1
<1>1. C \in Nat \ {0} /\ a \in Nat /\ b \in Nat
  BY CapacityFits
<1>2. a % C = b % C
  BY DEF Slot
<1> HIDE DEF C, a, b
<1>3. a = (a \div C) * C + (a % C) /\ b = (b \div C) * C + (b % C)
  BY <1>1
<1>4. a \div C \in Int /\ b \div C \in Int
  BY <1>1
<1> DEFINE q == (b \div C) - (a \div C)
<1>5. q \in Int
  BY <1>4
<1>6. b - a = q * C
  <2> DEFINE x == a \div C
             y == b \div C
             m == a % C
  <2>1. m \in Int /\ x \in Int /\ y \in Int
    BY <1>1, <1>4
  <2>2. a = x * C + m /\ b = y * C + m
    BY <1>2, <1>3
  <2> HIDE DEF x, y, m
  <2>3. (y - x) * C = y * C - x * C
    BY <1>1, <2>1
  <2>4. b - a = (y - x) * C
    BY <1>1, <2>1, <2>2, <2>3
  <2> QED BY <2>4 DEF x, y
<1>7. b - a < C /\ b - a >= 0
  BY <1>1 DEF a, b, C
<1> HIDE DEF q
<1>8. q = 0
  <2>1. q >= 1 => q * C >= C
    BY <1>1, <1>5
  <2>2. q <= -1 => q * C < 0
    BY <1>1, <1>5
  <2> QED BY <1>1, <1>5, <1>6, <1>7, <2>1, <2>2
<1>9. b - a = 0
  BY <1>1, <1>6, <1>8
<1> QED BY <1>9 DEF a, b

\* The sequences and the requests they carry.
LEMMA ClaimsTyped ==
  ASSUME IInv
  PROVE  /\ claims \in Seq(Requests) /\ Len(claims) \in Nat /\ DOMAIN claims = 1..Len(claims)
         /\ processed \in Nat /\ published \subseteq DOMAIN claims
         /\ \A i \in DOMAIN claims : /\ i \in Nat \ {0} /\ claims[i] \in Requests
                                    /\ claims[i] \in Range(claims)
<1>1. Types
  BY DEF IInv
<1>2. claims \in Seq(Requests) /\ processed \in Nat /\ published \subseteq DOMAIN claims
  BY <1>1 DEF Types
<1>3. Len(claims) \in Nat /\ DOMAIN claims = 1..Len(claims)
  BY <1>2
<1>4. \A i \in DOMAIN claims : i \in Nat \ {0} /\ claims[i] \in Requests
  BY <1>2, <1>3
<1>5. \A i \in DOMAIN claims : claims[i] \in Range(claims)
  BY DEF Range
<1> QED BY <1>2, <1>3, <1>4, <1>5

-----------------------------------------------------------------------------
(* What the actions do, in a state of the invariant.                       *)

-----------------------------------------------------------------------------
(* Types.                                                                  *)

\* What the processor finds in the ring.
LEMMA NextRequest ==
  ASSUME IInv, handler.step = "handle"
  PROVE  /\ handler.at + 1 \in published /\ handler.at + 1 <= handler.end
         /\ slots[Slot(handler.at + 1)] = claims[handler.at + 1]
         /\ claims[handler.at + 1] \in Requests /\ completed[claims[handler.at + 1]] = None
<1> DEFINE s == handler.at + 1
<1>1. handler \in HandlerRecord /\ claims \in Seq(Requests)
  BY DEF IInv, Types
<1>2. handler.at \in Nat /\ handler.end \in Nat /\ Busy /\ Len(handler.requests) \in Nat
  BY <1>1 DEF HandlerRecord, Busy
<1>3. s \in 1..handler.end /\ 1..handler.end \subseteq published
  BY <1>2 DEF IInv, HandlerOK
<1>4. s \in DOMAIN claims /\ claims[s] \in Requests
  BY <1>1, <1>3 DEF IInv, Types
<1>5. s > Finished
  BY <1>1, <1>2 DEF IInv, HandlerOK, Finished, HandlerRecord
<1>6. completed[claims[s]] = None
  BY <1>4, <1>5 DEF IInv, HandlerOK
<1>7. InRing(s)
  BY <1>2, <1>3, <1>6 DEF InRing, Taken
<1> QED BY <1>2, <1>3, <1>4, <1>6, <1>7 DEF IInv, SlotsOK

\* What handle does with the next request.
LEMMA HandleRecords ==
  ASSUME IInv, Handle
  PROVE  /\ handler' \in HandlerRecord /\ handler'.at = handler.at + 1
         /\ handler'.end = handler.end
         /\ handler'.requests = Append(handler.requests, slots[Slot(handler.at + 1)])
         /\ handler'.group = handler.group
         /\ handler'.step = IF handler.at + 1 = handler.end THEN "write" ELSE "handle"
<1> DEFINE s == handler.at + 1
           r == slots[Slot(s)]
<1>1. /\ handler.step = "handle"
      /\ handler' = [handler EXCEPT !.at = s, !.requests = Append(handler.requests, r),
                        !.step = IF s = handler.end THEN "write" ELSE "handle"]
  BY DEF Handle, IInv, Types, HandlerRecord
<1>2. r \in Requests
  BY <1>1, NextRequest
<1> HIDE DEF r
<1>3. handler \in HandlerRecord
  BY DEF IInv, Types
<1>4. Append(handler.requests, r) \in Seq(Requests) /\ s \in Nat
  BY <1>2, <1>3 DEF HandlerRecord
<1> HIDE DEF s
<1>5. handler' \in HandlerRecord
  BY <1>1, <1>3, <1>4 DEF HandlerRecord, HandlerSteps
<1>6. /\ handler'.at = s /\ handler'.end = handler.end
      /\ handler'.requests = Append(handler.requests, r)
      /\ handler'.group = handler.group
      /\ handler'.step = IF s = handler.end THEN "write" ELSE "handle"
  BY <1>1, <1>3 DEF HandlerRecord
<1> QED BY <1>5, <1>6 DEF r, s

\* The fields of the handler record.
LEMMA HandlerFields ==
  ASSUME handler \in HandlerRecord
  PROVE  /\ handler.step \in HandlerSteps /\ handler.at \in Nat /\ handler.end \in Nat
         /\ handler.requests \in Seq(Requests) /\ handler.group \in Seq(Requests)
         /\ Len(handler.requests) \in Nat /\ Len(handler.group) \in Nat
BY DEF HandlerRecord

\* The three borders of the handler's range.
LEMMA Borders ==
  ASSUME IInv
  PROVE  /\ Taken \in Nat /\ Written \in Nat /\ Finished \in Nat /\ processed \in Nat
         /\ processed <= Finished /\ Finished <= Written /\ Written <= Taken
         /\ Taken <= Len(claims) /\ processed <= Len(claims) /\ 1..Taken \subseteq published
<1>1. claims \in Seq(Requests) /\ processed \in Nat /\ published \subseteq 1..Len(claims)
  BY DEF IInv, Types
<1>2. processed <= Len(claims)
  <2>1. 1..processed \subseteq 1..Len(claims)
    BY <1>1 DEF IInv, HandlerOK
  <2> QED BY <1>1, <2>1
<1>3. CASE ~Busy
  BY <1>1, <1>2, <1>3 DEF Taken, Written, Finished, IInv, HandlerOK
<1>4. CASE Busy
  <2>1. /\ handler.at \in Nat /\ handler.end \in Nat
        /\ Len(handler.requests) \in Nat /\ Len(handler.group) \in Nat
    BY HandlerFields DEF IInv, Types
  <2>2. processed <= Finished /\ handler.at <= handler.end /\ 1..handler.end \subseteq published
    BY <1>4 DEF IInv, HandlerOK
  <2>3. handler.end <= Len(claims)
    <3>1. 1..handler.end \subseteq 1..Len(claims)
      BY <1>1, <2>2
    <3> QED BY <1>1, <2>1, <3>1
  <2>4. /\ Taken = handler.at /\ Written = handler.at - Len(handler.requests)
        /\ Finished = handler.at - Len(handler.requests) - Len(handler.group)
    BY <1>4 DEF Taken, Written, Finished
  <2>5. /\ Taken \in Nat /\ Written \in Nat /\ Finished \in Nat
        /\ Finished <= Written /\ Written <= Taken
    BY <1>1, <2>1, <2>2, <2>4
  <2>6. Taken <= Len(claims)
    BY <1>1, <2>1, <2>2, <2>3, <2>4
  <2>7. 1..Taken \subseteq published
    BY <2>1, <2>2, <2>4
  <2> QED BY <1>1, <1>2, <2>2, <2>5, <2>6, <2>7
<1> QED BY <1>3, <1>4

\* PublishSequence stores the request of the call at the sequence it claimed.
LEMMA PublishFacts ==
  ASSUME IInv, NEW r \in Requests, PublishSequence(r)
  PROVE  \E s \in DOMAIN claims :
            /\ claims[s] = r /\ s \in Nat \ {0} /\ s \notin published
            /\ slots' = [slots EXCEPT ![Slot(s)] = r] /\ published' = published \cup {s}
<1> DEFINE s == CHOOSE i \in DOMAIN claims : claims[i] = r
<1>1. pc[r] = "claimed"
  BY DEF PublishSequence
<1>2. \E i \in DOMAIN claims : claims[i] = r
  BY <1>1 DEF IInv, ClaimsOK, Entered, Range
<1>3. s \in DOMAIN claims /\ claims[s] = r
  BY <1>2
<1>4. slots' = [slots EXCEPT ![Slot(s)] = r] /\ published' = published \cup {s}
  BY DEF PublishSequence
<1> HIDE DEF s
<1>5. s \in Nat \ {0}
  BY <1>3 DEF IInv, Types
<1>6. s \notin published
  BY <1>1, <1>3 DEF IInv, ClaimsOK
<1> QED BY <1>3, <1>4, <1>5, <1>6

\* The processor takes a range of published sequences that starts after the
\* last processed one.
LEMMA TakeFacts ==
  ASSUME IInv, TakeRange
  PROVE  \E e \in Nat :
            /\ e > processed /\ (processed + 1)..e \subseteq published
            /\ handler' = [handler EXCEPT !.step = "handle", !.at = processed, !.end = e]
<1>1. claims \in Seq(Requests) /\ processed \in Nat /\ published \subseteq 1..Len(claims)
  BY DEF IInv, Types
<1>2. Available # {} /\ Available \subseteq 1..Len(claims)
  BY <1>1 DEF TakeRange, Available
<1>3. Max(Available) \in Available
  <2>1. 1 \in Nat /\ Len(claims) \in Nat
    BY <1>1
  <2> QED BY <1>2, <2>1, MaxIsGreatest, Zenon
<1>4. handler' = [handler EXCEPT !.step = "handle", !.at = processed, !.end = Max(Available)]
  BY DEF TakeRange
<1> DEFINE e == Max(Available)
<1>5. e \in Available
  BY <1>3
<1> HIDE DEF e
<1>6. e \in Nat /\ e > processed /\ (processed + 1)..e \subseteq published
  BY <1>1, <1>5 DEF Available
<1> QED BY <1>4, <1>6 DEF e

\* writeRequests cuts the first k requests off and says what became of them.
LEMMA WriteFacts ==
  ASSUME IInv, NEW k \in 1..BatchRecords, writeRequests(k)
  PROVE  /\ handler' \in HandlerRecord /\ k <= Len(handler.requests)
         /\ handler'.at = handler.at /\ handler'.end = handler.end
         /\ handler'.step \in {"mark", "complete"} /\ handler'.outcome \in Outcomes
         /\ Len(handler'.group) = k /\ Len(handler'.requests) = Len(handler.requests) - k
         /\ \A i \in 1..k : handler'.group[i] = handler.requests[i]
         /\ \A i \in 1..(Len(handler.requests) - k) :
              handler'.requests[i] = handler.requests[k + i]
         /\ \/ UNCHANGED data /\ handler'.outcome \in {"unavailable", "closed", "tooLarge"}
            \/ handler'.outcome = "ok" /\ log' = log \o handler'.group /\ doubt' = doubt
            \/ /\ handler'.outcome = "unknown" /\ log' = log
               /\ doubt' = doubt \cup Range(handler'.group)
            \/ UNCHANGED data /\ handler'.outcome \in {"unavailable", "tooLarge"}
<1> DEFINE group == SubSeq(handler.requests, 1, k)
           rest == SubSeq(handler.requests, k + 1, Len(handler.requests))
<1>1. handler.requests \in Seq(Requests) /\ handler \in HandlerRecord
  BY HandlerFields DEF IInv, Types
<1>2. k \in Nat /\ k >= 1 /\ k <= Len(handler.requests)
  <2>1. k <= Len(handler.requests)
    BY DEF writeRequests
  <2>2. BatchRecords \in Nat
    BY IngressAssumption
  <2> QED BY <2>1, <2>2
<1>3. /\ group \in Seq(Requests) /\ Len(group) = k
      /\ \A i \in 1..k : group[i] = handler.requests[i]
  BY <1>1, <1>2
<1>4. /\ rest \in Seq(Requests) /\ Len(rest) = Len(handler.requests) - k
      /\ \A i \in 1..(Len(handler.requests) - k) : rest[i] = handler.requests[k + i]
  BY <1>1, <1>2
<1>5. \E outcome \in Outcomes :
        /\ handler' = [handler EXCEPT !.group = group, !.requests = rest,
                         !.outcome = outcome,
                         !.step = IF outcome \in {"unavailable", "unknown"}
                                  THEN "mark" ELSE "complete"]
        /\ \/ UNCHANGED data /\ outcome \in {"unavailable", "closed", "tooLarge"}
           \/ outcome = "ok" /\ log' = log \o group /\ doubt' = doubt
           \/ outcome = "unknown" /\ log' = log /\ doubt' = doubt \cup Range(group)
  BY DEF writeRequests, Outcomes, data
<1> HIDE DEF group, rest
<1>6. PICK outcome \in Outcomes :
        /\ handler' = [handler EXCEPT !.group = group, !.requests = rest,
                         !.outcome = outcome,
                         !.step = IF outcome \in {"unavailable", "unknown"}
                                  THEN "mark" ELSE "complete"]
        /\ \/ UNCHANGED data /\ outcome \in {"unavailable", "closed", "tooLarge"}
           \/ outcome = "ok" /\ log' = log \o group /\ doubt' = doubt
           \/ outcome = "unknown" /\ log' = log /\ doubt' = doubt \cup Range(group)
  BY <1>5
<1>7. /\ handler'.group = group /\ handler'.requests = rest /\ handler'.outcome = outcome
      /\ handler'.at = handler.at /\ handler'.end = handler.end
      /\ handler'.step \in {"mark", "complete"} /\ handler' \in HandlerRecord
  BY <1>1, <1>3, <1>4, <1>6 DEF HandlerRecord, HandlerSteps
<1> QED BY <1>2, <1>3, <1>4, <1>6, <1>7

\* CompleteRequest completes the request after the last completed one, which
\* had no result.
LEMMA CompleteFacts ==
  ASSUME IInv, CompleteRequest
  PROVE  \E r \in Requests :
           /\ Finished + 1 \in DOMAIN claims /\ claims[Finished + 1] = r
           /\ r = Head(handler.group) /\ r \in Range(handler.group)
           /\ completed[r] = None /\ handler.outcome \in Outcomes
           /\ completed' = [completed EXCEPT ![r] = handler.outcome]
           /\ releaseAdmissionLocked(r) /\ reserved' = reserved \ {r}
<1> DEFINE r == Head(handler.group)
<1>1. /\ handler.at \in Nat /\ handler.end \in Nat /\ handler.step = "complete" /\ Busy
      /\ handler.group \in Seq(Requests) /\ handler.group # << >>
      /\ Len(handler.requests) \in Nat /\ Len(handler.group) \in Nat
  BY HandlerFields DEF IInv, Types, HandlerOK, CompleteRequest, Busy
<1>2. r \in Requests /\ r = handler.group[1] /\ 1 \in 1..Len(handler.group)
      /\ r \in Range(handler.group)
  BY <1>1 DEF Range
<1>3. r = claims[Finished + 1]
  BY <1>1, <1>2 DEF IInv, HandlerOK
<1>4. Finished \in Nat /\ Finished + 1 <= Taken /\ Taken <= Len(claims)
  BY <1>1, Borders DEF Finished, Written, Taken
<1>5. Finished + 1 \in DOMAIN claims
  BY <1>4, Borders DEF IInv, Types
<1>6. completed[r] = None
  BY <1>1, <1>3, <1>4, <1>5 DEF IInv, HandlerOK
<1>7. handler.outcome \in Outcomes
  BY <1>1 DEF IInv, LogOK, Types, HandlerRecord
<1>8. /\ completed' = [completed EXCEPT ![r] = handler.outcome]
      /\ releaseAdmissionLocked(r) /\ reserved' = reserved \ {r}
  BY <1>6 DEF CompleteRequest, complete
<1> HIDE DEF r
<1> QED BY <1>2, <1>3, <1>5, <1>6, <1>7, <1>8 DEF r

\* What CompleteRequest leaves in the handler.
LEMMA CompleteHandler ==
  ASSUME IInv, CompleteRequest
  PROVE  /\ handler' \in HandlerRecord /\ handler'.at = handler.at /\ handler'.end = handler.end
         /\ handler'.requests = handler.requests /\ handler'.outcome = handler.outcome
         /\ Len(handler'.group) = Len(handler.group) - 1
         /\ \A i \in 1..(Len(handler.group) - 1) : handler'.group[i] = handler.group[i + 1]
         /\ Len(handler.group) > 1 => handler'.step = "complete"
         /\ Len(handler.group) = 1 =>
              handler'.step = IF handler.requests # << >> THEN "write" ELSE "advance"
<1>1. /\ handler \in HandlerRecord /\ handler.group \in Seq(Requests) /\ handler.group # << >>
  BY HandlerFields DEF IInv, Types, HandlerOK, CompleteRequest
<1>2. /\ Tail(handler.group) \in Seq(Requests) /\ Len(Tail(handler.group)) = Len(handler.group) - 1
      /\ \A i \in 1..(Len(handler.group) - 1) : Tail(handler.group)[i] = handler.group[i + 1]
  BY <1>1
<1>3. handler' = [handler EXCEPT !.group = Tail(handler.group),
                     !.step = IF Len(handler.group) > 1 THEN "complete"
                              ELSE IF handler.requests # << >> THEN "write" ELSE "advance"]
  BY <1>1 DEF CompleteRequest, HandlerRecord
<1> DEFINE t == Tail(handler.group)
<1> HIDE DEF t
<1>4. /\ handler'.at = handler.at /\ handler'.end = handler.end
      /\ handler'.requests = handler.requests /\ handler'.outcome = handler.outcome
      /\ handler'.group = Tail(handler.group)
      /\ handler'.step = IF Len(handler.group) > 1 THEN "complete"
                         ELSE IF handler.requests # << >> THEN "write" ELSE "advance"
  BY <1>1, <1>3 DEF HandlerRecord
<1>5. handler' \in HandlerRecord
  <2>1. t \in Seq(Requests)
    BY <1>2 DEF t
  <2>2. handler' = [handler EXCEPT !.group = t,
                     !.step = IF Len(handler.group) > 1 THEN "complete"
                              ELSE IF handler.requests # << >> THEN "write" ELSE "advance"]
    BY <1>3 DEF t
  <2> QED BY <1>1, <2>1, <2>2 DEF HandlerRecord, HandlerSteps
<1>6. /\ Len(handler'.group) = Len(handler.group) - 1
      /\ \A i \in 1..(Len(handler.group) - 1) : handler'.group[i] = handler.group[i + 1]
  BY <1>2, <1>4
<1>7. Len(handler.group) \in Nat
  BY <1>1
<1>8. Len(handler.group) > 1 => handler'.step = "complete"
  BY <1>4
<1>9. Len(handler.group) = 1 =>
        handler'.step = IF handler.requests # << >> THEN "write" ELSE "advance"
  <2>1. ~(1 > 1)
    OBVIOUS
  <2> QED BY <1>4, <2>1, Zenon
<1> QED BY <1>4, <1>5, <1>6, <1>8, <1>9

\* drainPending completes a request that waits in the ring and had no result.
LEMMA DrainFacts ==
  ASSUME IInv, NEW c \in Closers, drainPending(c)
  PROVE  \E s \in DOMAIN claims :
           /\ s \in Nat \ {0} /\ InRing(s) /\ claims[s] \in Requests
           /\ slots' = [slots EXCEPT ![Slot(s)] = None]
           /\ completed[claims[s]] = None /\ handler.step = "exit"
           /\ completed' = [completed EXCEPT ![claims[s]] = "unknown"]
           /\ releaseAdmissionLocked(claims[s]) /\ reserved' = reserved \ {claims[s]}
<1> DEFINE u == Min(Undrained)
<1>1. claims \in Seq(Requests) /\ processed \in Nat
  BY DEF IInv, Types
<1>2. u \in Undrained
  <2>1. Undrained \in SUBSET Nat /\ Undrained # {}
    BY <1>1 DEF Undrained, drainPending
  <2> QED BY <2>1, MinIsLeast, Zenon
<1>3. /\ slots' = [slots EXCEPT ![Slot(u)] = None] /\ complete(slots[Slot(u)], "unknown")
      /\ closer[c] = "drain"
  BY DEF drainPending
<1> HIDE DEF u
<1>4. u \in Nat \ {0} /\ slots[Slot(u)] # None
  BY <1>1, <1>2 DEF Undrained
<1>5. Slot(u) \in DOMAIN slots
  BY <1>4, SlotIn DEF IInv, Types
<1>6. PICK s \in published : InRing(s) /\ Slot(s) = Slot(u) /\ slots[Slot(u)] = claims[s]
  BY <1>4, <1>5 DEF IInv, SlotsOK
<1>7. s \in DOMAIN claims /\ s \in Nat \ {0} /\ claims[s] \in Requests
  BY <1>1, <1>6 DEF IInv, Types
<1>8. completed[claims[s]] = None
  BY <1>6 DEF InRing
<1>9. handler.step = "exit"
  BY <1>3 DEF IInv, ShutdownOK
<1> QED BY <1>3, <1>6, <1>7, <1>8, <1>9 DEF complete

\* The processor keeps the types.
LEMMA TypesProcessor ==
  ASSUME IInv, ProcessorStep
  PROVE  Types'
<1>0. Types
  BY DEF IInv
<1>1. CASE TakeRange
  <2>1. PICK e \in Nat :
          handler' = [handler EXCEPT !.step = "handle", !.at = processed, !.end = e]
    BY <1>1, TakeFacts
  <2>2. handler' \in HandlerRecord
    BY <1>0, <2>1 DEF Types, HandlerRecord, HandlerSteps
  <2> QED BY <1>0, <1>1, <2>2 DEF Types, TakeRange, calls, ring, data, fence, shutdown
<1>2. CASE Handle
  <2> DEFINE s == handler.at + 1
  <2>1. /\ handler.step = "handle" /\ slots' = [slots EXCEPT ![Slot(s)] = None]
        /\ handler' = [handler EXCEPT !.at = s, !.requests = Append(@, slots[Slot(s)]),
                          !.step = IF s = handler.end THEN "write" ELSE "handle"]
    BY <1>2 DEF Handle
  <2>2. slots[Slot(s)] \in Requests
    BY <2>1, NextRequest
  <2>3. handler' \in HandlerRecord
    BY <1>2, HandleRecords
  <2>4. slots' \in [0..(Capacity - 1) -> Requests \cup {None}]
    BY <1>0, <2>1 DEF Types
  <2> QED BY <1>0, <1>2, <2>3, <2>4 DEF Types, Handle, calls, data, fence, shutdown
<1>3. CASE MarkUnavailable
  BY <1>0, <1>3 DEF Types, MarkUnavailable, markIngressUnavailable, HandlerRecord,
     HandlerSteps, ring, data, shutdown
<1>4. CASE CompleteRequest
  <2>1. handler' \in HandlerRecord
    BY <1>4, CompleteHandler
  <2>2. completed' \in [Requests -> Outcomes \cup {None}]
    BY <1>0, <1>4, CompleteFacts DEF Types
  <2> QED BY <1>0, <1>4, <2>1, <2>2 DEF Types, CompleteRequest, ring, data, fence, shutdown
<1>5. CASE AdvanceSequence
  BY <1>0, <1>5 DEF Types, AdvanceSequence, HandlerIdle, HandlerRecord, HandlerSteps, calls,
     data, fence, shutdown
<1>6. CASE ProcessorExits
  <2>1. handler' = [step |-> "exit", at |-> 0, end |-> 0, requests |-> << >>,
                    group |-> << >>, outcome |-> None]
    BY <1>6 DEF ProcessorExits, HandlerIdle
  <2>2. << >> \in Seq(Requests)
    OBVIOUS
  <2>3. handler' \in HandlerRecord
    BY <2>1, <2>2 DEF HandlerRecord, HandlerSteps
  <2> QED BY <1>0, <1>6, <2>3 DEF Types, ProcessorExits, calls, ring, data, fence, shutdown
<1>7. ASSUME NEW k \in 1..BatchRecords, writeRequests(k)
      PROVE  Types'
  <2>1. handler' \in HandlerRecord /\ handler'.group \in Seq(Requests)
    BY <1>7, WriteFacts DEF HandlerRecord
  <2>2. log' \in Seq(Requests) /\ doubt' \subseteq Requests
    <3> DEFINE g == handler'.group
    <3>1. g \in Seq(Requests)
      BY <2>1
    <3>2. \/ log' = log /\ doubt' = doubt
          \/ log' = log \o g /\ doubt' = doubt
          \/ log' = log /\ doubt' = doubt \cup Range(g)
      BY <1>7, WriteFacts DEF data
    <3> HIDE DEF g
    <3>3. Range(g) \subseteq Requests /\ log \o g \in Seq(Requests)
      BY <1>0, <3>1 DEF Types, Range
    <3> QED BY <1>0, <3>2, <3>3 DEF Types
  <2> QED BY <1>0, <1>7, <2>1, <2>2 DEF Types, writeRequests, calls, ring, shutdown
<1> QED BY <1>1, <1>2, <1>3, <1>4, <1>5, <1>6, <1>7 DEF ProcessorStep

\* An Append call keeps the types.
LEMMA TypesRequest ==
  ASSUME IInv, NEW r \in Requests, RequestStep(r)
  PROVE  Types'
<1> DEFINE outside == <<claims, published, slots, processed, handler, completed, log, doubt, closer,
                        unavailable, closing, closed, queueClosing, queueClosed, ringClosed>>
<1>0. Types
  BY DEF IInv
<1>a. /\ pc \in [Requests -> Stages] /\ result \in [Requests -> Refusals \cup {"ok", "unknown", None}]
      /\ completed[r] \in Outcomes \cup {None}
  BY <1>0 DEF Types
<1>b. ASSUME pc' \in [Requests -> Stages], UNCHANGED outside,
             result' \in [Requests -> Refusals \cup {"ok", "unknown", None}]
      PROVE  Types'
  BY <1>0, <1>b DEF Types
<1>1. CASE admit(r)
  <2>1. pc' \in [Requests -> Stages] /\ result' \in [Requests -> Refusals \cup {"ok", "unknown", None}]
    BY <1>a, <1>1 DEF admit, Return, Goto, ring, data, fence, shutdown, AdmitRefusal, Stages, Refusals, None
  <2>2. UNCHANGED outside
    BY <1>1 DEF admit, Return, Goto, ring, data, fence, shutdown
  <2> QED BY <1>b, <2>1, <2>2
<1>2. CASE admitWakes(r)
  <2>1. pc' \in [Requests -> Stages] /\ result' \in [Requests -> Refusals \cup {"ok", "unknown", None}]
    BY <1>a, <1>2 DEF admitWakes, Return, Goto, ring, data, fence, shutdown, Stages, Refusals
  <2>2. UNCHANGED outside
    BY <1>2 DEF admitWakes, Return, Goto, ring, data, fence, shutdown
  <2> QED BY <1>b, <2>1, <2>2
<1>3. CASE CheckContext(r)
  <2>1. pc' \in [Requests -> Stages] /\ result' \in [Requests -> Refusals \cup {"ok", "unknown", None}]
    BY <1>a, <1>3 DEF CheckContext, Return, Goto, ring, data, fence, shutdown, Stages, Refusals
  <2>2. UNCHANGED outside
    BY <1>3 DEF CheckContext, Return, Goto, ring, data, fence, shutdown
  <2> QED BY <1>b, <2>1, <2>2
<1>9. CASE enqueue(r)
  <2>1. pc' \in [Requests -> Stages] /\ result' \in [Requests -> Refusals \cup {"ok", "unknown", None}]
    BY <1>a, <1>9 DEF enqueue, Return, Goto, ring, data, fence, shutdown, EnqueueRefusal, Stages, Refusals, None
  <2>2. UNCHANGED outside
    BY <1>9 DEF enqueue, Return, Goto, ring, data, fence, shutdown
  <2> QED BY <1>b, <2>1, <2>2
<1>4. CASE ClaimSlot(r)
  <2>1. claims \in Seq(Requests) /\ published \subseteq DOMAIN claims
    BY <1>0 DEF Types
  <2>2. claims' = Append(claims, r) /\ published' = published
    BY <1>4 DEF ClaimSlot
  <2>3. claims' \in Seq(Requests) /\ published' \subseteq DOMAIN claims'
    BY <2>1, <2>2
  <2>4. pc' \in [Requests -> Stages]
    BY <1>0, <1>4 DEF Types, ClaimSlot, Goto, Stages
  <2>5. UNCHANGED <<result, slots, processed, handler, completed, log, doubt, closer, unavailable,
                    closing, closed, queueClosing, queueClosed, ringClosed>>
    BY <1>4 DEF ClaimSlot, data, fence, shutdown
  <2> QED BY <1>0, <2>3, <2>4, <2>5 DEF Types
<1>5. CASE ClaimFails(r)
  <2>1. pc' \in [Requests -> Stages] /\ result' \in [Requests -> Refusals \cup {"ok", "unknown", None}]
    BY <1>a, <1>5 DEF ClaimFails, Goto, fence, Stages, Refusals
  <2>2. {unavailable'} \subseteq BOOLEAN
    BY <1>0, <1>5 DEF Types, ClaimFails, fence
  <2>3. UNCHANGED <<claims, published, slots, processed, handler, completed, log, doubt, closer,
                    closing, closed, queueClosing, queueClosed, ringClosed>>
    BY <1>5 DEF ClaimFails, ring, data, shutdown
  <2> QED BY <1>0, <2>1, <2>2, <2>3 DEF Types
<1>6. CASE PublishSequence(r)
  <2>1. PICK s \in DOMAIN claims :
          /\ claims[s] = r /\ s \in Nat \ {0} /\ s \notin published
          /\ slots' = [slots EXCEPT ![Slot(s)] = r] /\ published' = published \cup {s}
    BY <1>6, PublishFacts
  <2>2. slots' \in [0..(Capacity - 1) -> Requests \cup {None}]
    BY <1>0, <2>1, SlotIn DEF Types
  <2> QED BY <1>0, <1>6, <2>1, <2>2 DEF Types, PublishSequence, Goto, Stages, data, fence,
             shutdown
<1>7. CASE finishPublisher(r)
  <2>1. pc' \in [Requests -> Stages] /\ result' \in [Requests -> Refusals \cup {"ok", "unknown", None}]
    BY <1>a, <1>7 DEF finishPublisher, Goto, ring, data, fence, shutdown, Stages
  <2>2. UNCHANGED outside
    BY <1>7 DEF finishPublisher, Goto, ring, data, fence, shutdown
  <2> QED BY <1>b, <2>1, <2>2
<1>8. CASE waitResult(r)
  <2>1. pc' \in [Requests -> Stages] /\ result' \in [Requests -> Refusals \cup {"ok", "unknown", None}]
    BY <1>a, <1>8 DEF waitResult, Return, ring, data, fence, shutdown, Outcomes, Stages, Refusals
  <2>2. UNCHANGED outside
    BY <1>8 DEF waitResult, Return, ring, data, fence, shutdown
  <2> QED BY <1>b, <2>1, <2>2
<1> QED BY <1>1, <1>2, <1>3, <1>4, <1>5, <1>6, <1>7, <1>8, <1>9 DEF RequestStep

\* Every step keeps the types.
LEMMA TypesStep == IInv /\ [Next]_vars => Types'
<1> SUFFICES ASSUME IInv, [Next]_vars PROVE Types'
  OBVIOUS
<1>0. Types
  BY DEF IInv
<1>1. ASSUME NEW r \in Requests, AppendCall(r) \/ Cancel(r)
      PROVE  Types'
  BY <1>0, <1>1 DEF Types, AppendCall, Cancel, Return, Goto, Stages, Refusals, ring, data,
     fence, shutdown
<1>2. ASSUME NEW r \in Requests, RequestStep(r)
      PROVE  Types'
  BY <1>2, TypesRequest
<1>3. ASSUME ProcessorStep
      PROVE  Types'
  BY <1>3, TypesProcessor
<1>4. ASSUME NEW c \in Closers, closeWriter(c) \/ CloserStep(c)
      PROVE  Types'
  <2>1. CASE closeWriter(c)
    BY <1>0, <2>1 DEF Types, closeWriter, Step, CloserSteps, ring, data, fence
  <2>2. CASE StopReads(c) \/ CloseRing(c) \/ JoinProcessor(c) \/ CloseReturns(c)
    BY <1>0, <2>2 DEF Types, StopReads, CloseRing, JoinProcessor, CloseReturns, Step,
       CloserSteps, calls, ring, data, fence
  <2>3. CASE drainPending(c)
    <3>1. PICK s \in DOMAIN claims :
            /\ claims[s] \in Requests /\ slots' = [slots EXCEPT ![Slot(s)] = None]
            /\ completed' = [completed EXCEPT ![claims[s]] = "unknown"]
      BY <2>3, DrainFacts
    <3>2. completed' \in [Requests -> Outcomes \cup {None}]
      BY <1>0, <3>1 DEF Types, Outcomes
    <3>3. slots' \in [0..(Capacity - 1) -> Requests \cup {None}]
      BY <1>0, <3>1 DEF Types
    <3> QED BY <1>0, <2>3, <3>2, <3>3 DEF Types, drainPending, data, fence, shutdown
  <2>4. CASE FinishClose(c)
    BY <1>0, <2>4 DEF Types, FinishClose, Step, CloserSteps, calls, ring, data, fence
  <2> QED BY <1>4, <2>1, <2>2, <2>3, <2>4 DEF CloserStep
<1>5. CASE StoreCloses \/ FetchFences
  BY <1>0, <1>5 DEF Types, StoreCloses, FetchFences, markIngressUnavailable, calls, ring, data,
     fence, shutdown
<1>6. CASE UNCHANGED vars
  BY <1>0, <1>6 DEF Types, vars, calls, ring, data, fence, shutdown
<1> QED BY <1>1, <1>2, <1>3, <1>4, <1>5, <1>6 DEF Next

\* The state the ring, the processor and the log share.
core == <<claims, slots, published, processed, handler, completed, data>>

\* A call that moves without claiming a sequence: it neither enters nor leaves
\* the stages that hold one, except by returning.
Moves(r) ==
    \E x \in Stages :
        /\ pc' = [pc EXCEPT ![r] = x]
        /\ \/ pc[r] \in {"finishPublished", "await"} /\ x \in {"await", "done"}
           \/ pc[r] \notin Entered \cup {"done"} /\ x \notin Entered

\* What any step does to the shared state: nothing, a move of one call, or one
\* of the steps named.
LEMMA Frame ==
  ASSUME [Next]_vars
  PROVE  \/ UNCHANGED core /\ pc' = pc /\ result' = result
         \/ UNCHANGED core /\ \E r \in Requests : Moves(r)
         \/ \E r \in Requests : ClaimSlot(r) \/ PublishSequence(r)
         \/ ProcessorStep
         \/ \E c \in Closers : drainPending(c)
<1>1. ASSUME NEW r \in Requests, AppendCall(r)
      PROVE  UNCHANGED core /\ Moves(r)
  BY <1>1 DEF AppendCall, Return, Goto, core, Moves, ring, data, Stages, Entered
<1>2. ASSUME NEW r \in Requests, admit(r)
      PROVE  UNCHANGED core /\ Moves(r)
  BY <1>2 DEF admit, Return, Goto, core, Moves, ring, data, Stages, Entered
<1>3. ASSUME NEW r \in Requests, admitWakes(r)
      PROVE  UNCHANGED core /\ Moves(r)
  BY <1>3 DEF admitWakes, Return, Goto, core, Moves, ring, data, Stages, Entered
<1>4. ASSUME NEW r \in Requests, CheckContext(r)
      PROVE  UNCHANGED core /\ Moves(r)
  BY <1>4 DEF CheckContext, Return, Goto, core, Moves, ring, data, Stages, Entered
<1>5. ASSUME NEW r \in Requests, enqueue(r)
      PROVE  UNCHANGED core /\ Moves(r)
  BY <1>5 DEF enqueue, Return, Goto, core, Moves, ring, data, Stages, Entered
<1>6. ASSUME NEW r \in Requests, ClaimFails(r)
      PROVE  UNCHANGED core /\ Moves(r)
  BY <1>6 DEF ClaimFails, Goto, core, Moves, ring, data, Stages, Entered
<1>7. ASSUME NEW r \in Requests, finishPublisher(r)
      PROVE  UNCHANGED core /\ Moves(r)
  BY <1>7 DEF finishPublisher, Goto, core, Moves, ring, data, Stages, Entered
<1>8. ASSUME NEW r \in Requests, waitResult(r)
      PROVE  UNCHANGED core /\ Moves(r)
  BY <1>8 DEF waitResult, Return, core, Moves, ring, data, Stages, Entered
<1>9. ASSUME NEW r \in Requests, Cancel(r)
      PROVE  UNCHANGED core /\ pc' = pc /\ result' = result
  BY <1>9 DEF Cancel, core, ring, data
<1>10. ASSUME NEW c \in Closers, closeWriter(c)
       PROVE  UNCHANGED core /\ pc' = pc /\ result' = result
  BY <1>10 DEF closeWriter, core, ring, data
<1>11. ASSUME NEW c \in Closers, CloserStep(c), ~drainPending(c)
       PROVE  UNCHANGED core /\ pc' = pc /\ result' = result
  BY <1>11 DEF CloserStep, StopReads, CloseRing, JoinProcessor, FinishClose, CloseReturns, core,
     calls, ring, data
<1>12. CASE StoreCloses \/ FetchFences \/ UNCHANGED vars
  BY <1>12 DEF StoreCloses, FetchFences, vars, core, calls, ring, data
<1> QED BY <1>1, <1>2, <1>3, <1>4, <1>5, <1>6, <1>7, <1>8, <1>9, <1>10, <1>11, <1>12
        DEF Next, RequestStep

\* The request CompleteRequest completes is published and taken.
LEMMA FinishedNext ==
  ASSUME IInv, CompleteRequest
  PROVE  Finished + 1 \in published /\ Finished + 1 <= Taken
<1>1. handler.step = "complete" /\ Busy
  BY DEF CompleteRequest, Busy
<1>2. handler.group # << >> /\ handler.group \in Seq(Requests) /\ handler.requests \in Seq(Requests)
  BY <1>1, HandlerFields DEF IInv, HandlerOK, Types
<1>3. Finished + 1 <= Taken
  <2>1. Len(handler.group) \in Nat \ {0} /\ Len(handler.requests) \in Nat
    BY <1>2
  <2>2. Finished = handler.at - Len(handler.requests) - Len(handler.group) /\ Taken = handler.at
    BY <1>1 DEF Finished, Taken
  <2> QED BY <2>1, <2>2, Borders
<1> QED BY <1>3, Borders

\* ClaimSlot keeps the claims distinct.
LEMMA ClaimsClaim ==
  ASSUME IInv, NEW r \in Requests, ClaimSlot(r)
  PROVE  ClaimsOK'
<1>0. Types /\ ClaimsOK /\ claims \in Seq(Requests) /\ pc \in [Requests -> Stages]
      /\ completed \in [Requests -> Outcomes \cup {None}]
  BY DEF IInv, Types
<1> DEFINE n == Len(claims) + 1
<1>1. /\ pc[r] = "publish" /\ claims' = Append(claims, r) /\ pc' = [pc EXCEPT ![r] = "claimed"]
      /\ published' = published /\ completed' = completed
  BY DEF ClaimSlot, Goto
<1>2. /\ DOMAIN claims' = DOMAIN claims \cup {n} /\ claims'[n] = r
      /\ \A i \in DOMAIN claims : claims'[i] = claims[i] /\ i # n
  BY <1>0, <1>1
<1>3. \A q \in Requests : pc'[q] = IF q = r THEN "claimed" ELSE pc[q]
  BY <1>0, <1>1
<1>4. \A i \in DOMAIN claims : claims[i] # r /\ claims[i] \in Requests
  BY <1>0, <1>1 DEF ClaimsOK, Entered
<1> HIDE DEF n
<1>5. \A q : q \in Range(claims') <=> q \in Range(claims) \/ q = r
  BY <1>2 DEF Range
<1>6. r \notin Range(claims)
  BY <1>4 DEF Range
<1>7. completed[r] = None
  BY <1>0, <1>6 DEF ClaimsOK
<1>8. \A i, j \in DOMAIN claims' : claims'[i] = claims'[j] => i = j
  BY <1>0, <1>2, <1>4 DEF ClaimsOK
<1>9. \A i \in DOMAIN claims' : pc'[claims'[i]] \in Entered \cup {"done"}
  BY <1>0, <1>2, <1>3, <1>4 DEF ClaimsOK, Entered
<1>10. published' = {i \in DOMAIN claims' : pc'[claims'[i]] # "claimed"}
  BY <1>0, <1>1, <1>2, <1>3, <1>4 DEF ClaimsOK
<1>11. \A q \in Requests : pc'[q] \in Entered => q \in Range(claims')
  BY <1>0, <1>3, <1>5 DEF ClaimsOK
<1>12. \A q \in Requests : completed'[q] # None => q \in Range(claims') /\ pc'[q] # "claimed"
  BY <1>0, <1>1, <1>3, <1>5, <1>7 DEF ClaimsOK
<1> QED BY <1>8, <1>9, <1>10, <1>11, <1>12 DEF ClaimsOK

\* Every step keeps the claims distinct and their calls in the stages of a
\* claim.
LEMMA ClaimsStep == IInv /\ [Next]_vars => ClaimsOK'
<1> SUFFICES ASSUME IInv, [Next]_vars PROVE ClaimsOK'
  OBVIOUS
<1>0. Types /\ ClaimsOK /\ claims \in Seq(Requests) /\ pc \in [Requests -> Stages]
      /\ completed \in [Requests -> Outcomes \cup {None}]
  BY DEF IInv, Types
<1>1. CASE UNCHANGED core /\ pc' = pc
  BY <1>0, <1>1 DEF ClaimsOK, core
<1>2. ASSUME NEW r \in Requests, Moves(r), UNCHANGED core
      PROVE  ClaimsOK'
  <2>1. PICK x \in Stages :
        /\ pc' = [pc EXCEPT ![r] = x]
        /\ \/ pc[r] \in {"finishPublished", "await"} /\ x \in {"await", "done"}
           \/ pc[r] \notin Entered \cup {"done"} /\ x \notin Entered
    BY <1>2 DEF Moves
  <2>2. claims' = claims /\ published' = published /\ completed' = completed
    BY <1>2 DEF core
  <2>3. \A q \in Requests : pc'[q] = IF q = r THEN x ELSE pc[q]
    BY <1>0, <2>1
  <2>4. \A i \in DOMAIN claims : claims[i] \in Requests
    BY <1>0
  <2>5. \A i \in DOMAIN claims : claims[i] = r =>
          pc[r] \in {"finishPublished", "await"} /\ x \in {"await", "done"}
    BY <1>0, <2>1 DEF ClaimsOK
  <2>6. \A i \in DOMAIN claims : pc'[claims[i]] \in Entered \cup {"done"}
    BY <1>0, <2>3, <2>4, <2>5 DEF ClaimsOK, Entered
  <2>7. \A q \in Requests : pc'[q] \in Entered => q \in Range(claims)
    BY <1>0, <2>1, <2>3 DEF ClaimsOK, Entered
  <2>8. \A i \in DOMAIN claims : pc'[claims[i]] # "claimed" <=> pc[claims[i]] # "claimed"
    BY <1>0, <2>3, <2>4, <2>5
  <2>9. \A q \in Requests : pc'[q] = "claimed" => pc[q] = "claimed"
    BY <2>1, <2>3 DEF Entered
  <2> QED BY <1>0, <2>2, <2>6, <2>7, <2>8, <2>9 DEF ClaimsOK
<1>3. ASSUME NEW r \in Requests, ClaimSlot(r)
      PROVE  ClaimsOK'
  BY <1>3, ClaimsClaim
<1>4. ASSUME NEW r \in Requests, PublishSequence(r)
      PROVE  ClaimsOK'
  <2>1. PICK s \in DOMAIN claims : claims[s] = r /\ published' = published \cup {s}
    BY <1>4, PublishFacts
  <2>2. /\ pc[r] = "claimed" /\ claims' = claims /\ completed' = completed
        /\ pc' = [pc EXCEPT ![r] = "finishPublished"]
    BY <1>4 DEF PublishSequence, Goto
  <2>3. \A q \in Requests : pc'[q] = IF q = r THEN "finishPublished" ELSE pc[q]
    BY <1>0, <2>2
  <2>4. \A i \in DOMAIN claims : claims[i] \in Requests /\ (claims[i] = r <=> i = s)
    BY <1>0, <2>1 DEF ClaimsOK
  <2>5. published' = {i \in DOMAIN claims' : pc'[claims'[i]] # "claimed"}
    BY <1>0, <2>1, <2>2, <2>3, <2>4 DEF ClaimsOK
  <2>6. \A i \in DOMAIN claims' : pc'[claims'[i]] \in Entered \cup {"done"}
    BY <1>0, <2>2, <2>3, <2>4 DEF ClaimsOK, Entered
  <2>7. \A q \in Requests : pc'[q] \in Entered => q \in Range(claims')
    BY <1>0, <2>2, <2>3 DEF ClaimsOK, Entered
  <2>8. \A q \in Requests : completed'[q] # None => q \in Range(claims') /\ pc'[q] # "claimed"
    BY <1>0, <2>2, <2>3 DEF ClaimsOK
  <2> QED BY <1>0, <2>2, <2>5, <2>6, <2>7, <2>8 DEF ClaimsOK
<1>5. ASSUME pc' = pc, claims' = claims, published' = published,
             NEW s \in published, NEW v, completed' = [completed EXCEPT ![claims[s]] = v]
      PROVE  ClaimsOK'
  <2>1. claims[s] \in Range(claims) /\ pc[claims[s]] # "claimed" /\ claims[s] \in Requests
    BY <1>0 DEF ClaimsOK, Range
  <2>2. \A q \in Requests : completed'[q] # None => q = claims[s] \/ completed[q] # None
    BY <1>0, <1>5
  <2> QED BY <1>0, <1>5, <2>1, <2>2 DEF ClaimsOK
<1>6. CASE CompleteRequest
  <2>1. /\ Finished + 1 \in DOMAIN claims
        /\ completed' = [completed EXCEPT ![claims[Finished + 1]] = handler.outcome]
    BY <1>6, CompleteFacts
  <2>2. Finished + 1 \in published
    BY <1>6, FinishedNext
  <2>3. pc' = pc /\ claims' = claims /\ published' = published
    BY <1>6 DEF CompleteRequest, ring
  <2> QED BY <1>5, <2>1, <2>2, <2>3
<1>7. CASE ProcessorStep /\ ~CompleteRequest
  <2>1. pc' = pc /\ claims' = claims /\ published' = published /\ completed' = completed
    BY <1>7 DEF ProcessorStep, TakeRange, Handle, MarkUnavailable, AdvanceSequence, ProcessorExits,
       writeRequests, calls, ring
  <2> QED BY <1>0, <2>1 DEF ClaimsOK
<1>8. ASSUME NEW c \in Closers, drainPending(c)
      PROVE  ClaimsOK'
  <2>1. PICK s \in DOMAIN claims :
          InRing(s) /\ completed' = [completed EXCEPT ![claims[s]] = "unknown"]
    BY <1>8, DrainFacts
  <2>2. s \in published /\ pc' = pc /\ claims' = claims /\ published' = published
    BY <1>8, <2>1 DEF InRing, drainPending
  <2> QED BY <1>5, <2>1, <2>2
<1> QED BY <1>1, <1>2, <1>3, <1>4, <1>6, <1>7, <1>8, Frame

\* A claimed request not yet completed is in flight.
LEMMA UnfinishedInFlight ==
  ASSUME IInv, handler.step # "exit", NEW s \in DOMAIN claims, s > Finished
  PROVE  claims[s] \in InFlight
<1>1. completed[claims[s]] = None
  BY DEF IInv, HandlerOK
<1>2. claims[s] \in Requests /\ claims[s] \in Range(claims)
  BY DEF IInv, Types, Range
<1> QED BY <1>1, <1>2 DEF InFlight, Reserving

\* ClaimSlot appends the request of a call that had no sequence.
LEMMA ClaimFacts ==
  ASSUME IInv, NEW r \in Requests, ClaimSlot(r)
  PROVE  /\ claims \in Seq(Requests) /\ claims' = Append(claims, r)
         /\ DOMAIN claims' = DOMAIN claims \cup {Len(claims) + 1}
         /\ Len(claims') = Len(claims) + 1 /\ claims'[Len(claims) + 1] = r
         /\ \A i \in DOMAIN claims : claims'[i] = claims[i]
         /\ \A i \in 1..Len(claims) : claims'[i] = claims[i]
         /\ r \notin Range(claims) /\ completed[r] = None
         /\ Range(claims') = Range(claims) \cup {r}
<1>1. claims \in Seq(Requests) /\ pc[r] = "publish" /\ claims' = Append(claims, r)
  BY DEF IInv, Types, ClaimSlot
<1>2. /\ DOMAIN claims' = DOMAIN claims \cup {Len(claims) + 1}
      /\ Len(claims') = Len(claims) + 1 /\ claims'[Len(claims) + 1] = r
      /\ \A i \in DOMAIN claims : claims'[i] = claims[i]
      /\ \A i \in 1..Len(claims) : claims'[i] = claims[i]
  BY <1>1
<1>3. r \notin Range(claims)
  BY <1>1 DEF IInv, ClaimsOK, Entered, Range
<1>4. completed[r] = None
  BY <1>3 DEF IInv, ClaimsOK
<1>5. Range(claims') = Range(claims) \cup {r}
  BY <1>2 DEF Range
<1> QED BY <1>1, <1>2, <1>3, <1>4, <1>5

-----------------------------------------------------------------------------
(* The handler.                                                            *)

\* A new claim is outside the handler's range.
LEMMA HandlerClaim ==
  ASSUME IInv, NEW r \in Requests, ClaimSlot(r)
  PROVE  HandlerOK'
<1>0. /\ HandlerOK /\ claims \in Seq(Requests) /\ handler \in HandlerRecord /\ processed \in Nat
      /\ published \subseteq DOMAIN claims /\ completed \in [Requests -> Outcomes \cup {None}]
      /\ \A i, j \in DOMAIN claims : claims[i] = claims[j] => i = j
  BY DEF IInv, Types, ClaimsOK
<1>a. /\ handler.at \in Nat /\ handler.end \in Nat
      /\ handler.requests \in Seq(Requests) /\ handler.group \in Seq(Requests)
      /\ Len(handler.requests) \in Nat /\ Len(handler.group) \in Nat
  BY <1>0, HandlerFields
<1>b. /\ Taken \in Nat /\ Written \in Nat /\ Finished \in Nat
      /\ processed <= Finished /\ Finished <= Written /\ Written <= Taken
      /\ Taken <= Len(claims) /\ 1..Taken \subseteq published
  BY Borders
<1>1. /\ DOMAIN claims' = DOMAIN claims \cup {Len(claims) + 1} /\ claims'[Len(claims) + 1] = r
      /\ \A i \in DOMAIN claims : claims'[i] = claims[i]
      /\ \A i \in 1..Len(claims) : claims'[i] = claims[i]
      /\ completed[r] = None
  BY ClaimFacts
<1>2. processed' = processed /\ handler' = handler /\ published' = published
      /\ completed' = completed
  BY DEF ClaimSlot
<1>3. Busy' = Busy /\ Written' = Written /\ Finished' = Finished /\ Taken' = Taken
  BY <1>2 DEF Busy, Written, Finished, Taken
<1>4. Busy => /\ Written + Len(handler.requests) = Taken
              /\ Finished + Len(handler.group) = Written
  BY <1>a DEF Written, Finished, Taken
<1>5. Busy => /\ \A i \in 1..Len(handler.requests) : handler.requests[i] = claims'[Written + i]
              /\ \A i \in 1..Len(handler.group) : handler.group[i] = claims'[Finished + i]
  <2>1. Busy => /\ \A i \in 1..Len(handler.requests) : Written + i \in 1..Len(claims)
                /\ \A i \in 1..Len(handler.group) : Finished + i \in 1..Len(claims)
    BY <1>0, <1>a, <1>b, <1>4
  <2> QED BY <1>0, <1>1, <2>1 DEF HandlerOK
<1>6. \A i \in 1..Finished : completed[claims'[i]] # None
  <2>1. \A i \in 1..Finished : i \in 1..Len(claims)
    BY <1>0, <1>b
  <2> QED BY <1>0, <1>1, <2>1 DEF HandlerOK
<1>7. \A i \in DOMAIN claims' : i > Finished /\ completed[claims'[i]] # None =>
                                handler.step = "exit"
  BY <1>0, <1>1 DEF HandlerOK
<1> QED BY <1>0, <1>2, <1>3, <1>5, <1>6, <1>7 DEF HandlerOK

\* TakeRange starts a range that fits the window.
LEMMA HandlerTake ==
  ASSUME IInv, Accounted, TakeRange
  PROVE  HandlerOK'
<1>0. /\ HandlerOK /\ claims \in Seq(Requests) /\ handler \in HandlerRecord /\ processed \in Nat
      /\ published \subseteq DOMAIN claims /\ completed \in [Requests -> Outcomes \cup {None}]
      /\ \A i, j \in DOMAIN claims : claims[i] = claims[j] => i = j
  BY DEF IInv, Types, ClaimsOK
<1>1. PICK e \in Nat :
          /\ e > processed /\ (processed + 1)..e \subseteq published
          /\ handler' = [handler EXCEPT !.step = "handle", !.at = processed, !.end = e]
  BY TakeFacts
<1>2. /\ handler.step = "wait" /\ processed' = processed /\ claims' = claims
      /\ published' = published /\ completed' = completed
  BY DEF TakeRange, ring
<1>3. 1..e \subseteq published /\ e - processed <= InFlightRecords
  <2>1. e - processed <= InFlightRecords
    BY <1>1, <1>2 DEF Accounted
  <2>2. 1..processed \subseteq published
    BY <1>0 DEF HandlerOK
  <2>3. \A i \in 1..e : i \in 1..processed \/ i \in (processed + 1)..e
    BY <1>0
  <2> QED BY <1>1, <2>1, <2>2, <2>3
<1>4. handler.requests = << >> /\ handler.group = << >> /\ ~Busy
  BY <1>0, <1>2 DEF HandlerOK, Busy
<1>5. /\ handler'.step = "handle" /\ handler'.at = processed /\ handler'.end = e
      /\ handler'.requests = << >> /\ handler'.group = << >>
      /\ Len(handler'.requests) = 0 /\ Len(handler'.group) = 0
  BY <1>0, <1>1, <1>4 DEF HandlerRecord
<1>6. Busy' /\ Written' = processed /\ Finished' = processed
  BY <1>0, <1>5 DEF Busy, Written, Finished
<1>7. Finished = processed
  BY <1>4 DEF Finished
<1>8. /\ \A i \in 1..Finished' : completed'[claims'[i]] # None
      /\ \A i \in DOMAIN claims' : i > Finished' => completed'[claims'[i]] = None
  BY <1>0, <1>2, <1>6, <1>7 DEF HandlerOK
<1>9. /\ 1..processed \subseteq published
  BY <1>0 DEF HandlerOK
<1> QED BY <1>0, <1>1, <1>2, <1>3, <1>5, <1>6, <1>8, <1>9 DEF HandlerOK

\* handle moves the border of the taken sequences by one.
LEMMA HandlerHandle ==
  ASSUME IInv, Handle
  PROVE  HandlerOK'
<1>0. /\ HandlerOK /\ claims \in Seq(Requests) /\ handler \in HandlerRecord /\ processed \in Nat
      /\ published \subseteq DOMAIN claims /\ completed \in [Requests -> Outcomes \cup {None}]
      /\ \A i, j \in DOMAIN claims : claims[i] = claims[j] => i = j
  BY DEF IInv, Types, ClaimsOK
<1>a. /\ handler.at \in Nat /\ handler.end \in Nat
      /\ handler.requests \in Seq(Requests) /\ handler.group \in Seq(Requests)
      /\ Len(handler.requests) \in Nat /\ Len(handler.group) \in Nat
  BY <1>0, HandlerFields
<1>b. /\ Taken \in Nat /\ Written \in Nat /\ Finished \in Nat
      /\ processed <= Finished /\ Finished <= Written /\ Written <= Taken
      /\ Taken <= Len(claims) /\ 1..Taken \subseteq published
  BY Borders
<1>1. /\ handler' \in HandlerRecord /\ handler'.at = handler.at + 1
      /\ handler'.end = handler.end
      /\ handler'.requests = Append(handler.requests, slots[Slot(handler.at + 1)])
      /\ handler'.group = handler.group
      /\ handler'.step = IF handler.at + 1 = handler.end THEN "write" ELSE "handle"
  BY HandleRecords
<1>2. /\ handler.step = "handle" /\ processed' = processed /\ claims' = claims
      /\ published' = published /\ completed' = completed
  BY DEF Handle
<1>3. slots[Slot(handler.at + 1)] = claims[handler.at + 1]
      /\ slots[Slot(handler.at + 1)] \in Requests
  BY <1>2, NextRequest
<1> DEFINE r == slots[Slot(handler.at + 1)]
<1> HIDE DEF r
<1>4. /\ Len(handler'.requests) = Len(handler.requests) + 1
      /\ handler'.requests[Len(handler.requests) + 1] = claims[handler.at + 1]
      /\ \A i \in 1..Len(handler.requests) : handler'.requests[i] = handler.requests[i]
  <2>1. handler'.requests = Append(handler.requests, r) /\ r = claims[handler.at + 1]
    BY <1>1, <1>3 DEF r
  <2> QED BY <1>a, <2>1
<1>5. /\ handler.group = << >> /\ handler.at < handler.end /\ Finished = processed /\ Busy
  BY <1>0, <1>2 DEF HandlerOK, Busy
<1>6. Busy' /\ Written' = Written /\ Finished' = Finished
  <2>1. Busy'
    BY <1>1 DEF Busy
  <2>2. /\ Written' = (handler.at + 1) - (Len(handler.requests) + 1)
        /\ Finished' = (handler.at + 1) - (Len(handler.requests) + 1) - Len(handler.group)
    BY <1>1, <1>4, <2>1 DEF Written, Finished
  <2>3. /\ Written = handler.at - Len(handler.requests)
        /\ Finished = handler.at - Len(handler.requests) - Len(handler.group)
    BY <1>5 DEF Written, Finished
  <2> QED BY <1>a, <2>1, <2>2, <2>3
<1>7. Written + Len(handler.requests) = handler.at
  BY <1>a, <1>5 DEF Written
<1>8. \A i \in 1..(Len(handler.requests) + 1) : handler'.requests[i] = claims[Written + i]
  <2>1. \A i \in 1..(Len(handler.requests) + 1) :
           i \in 1..Len(handler.requests) \/ i = Len(handler.requests) + 1
    BY <1>a
  <2>2. \A i \in 1..Len(handler.requests) : handler.requests[i] = claims[Written + i]
    BY <1>0, <1>5 DEF HandlerOK
  <2>3. Written + (Len(handler.requests) + 1) = handler.at + 1
    BY <1>a, <1>b, <1>7
  <2> QED BY <1>4, <2>1, <2>2, <2>3
<1>9. /\ handler.at + 1 <= handler.end
      /\ handler'.step = "handle" => handler.at + 1 < handler.end
      /\ handler'.step = "write" => handler.at + 1 = handler.end
      /\ handler'.step \in {"write", "handle"}
  BY <1>a, <1>1, <1>5
<1>10. handler'.requests # << >>
  BY <1>a, <1>4
<1>11. \A i \in 1..Len(handler.group) : handler.group[i] = claims[Finished + i]
  BY <1>0, <1>5 DEF HandlerOK
<1>12. /\ \A i \in 1..Finished : completed[claims[i]] # None
       /\ \A i \in DOMAIN claims : i > Finished => completed[claims[i]] = None
  BY <1>0, <1>2 DEF HandlerOK
<1>13. /\ 1..processed \subseteq published /\ 1..handler.end \subseteq published
       /\ handler.end - processed <= InFlightRecords
  BY <1>0, <1>5 DEF HandlerOK
<1> QED BY <1>b, <1>1, <1>2, <1>4, <1>5, <1>6, <1>8, <1>9, <1>10, <1>11, <1>12, <1>13 DEF HandlerOK

\* writeRequests moves the border of the written sequences.
LEMMA HandlerWrite ==
  ASSUME IInv, NEW k \in 1..BatchRecords, writeRequests(k)
  PROVE  HandlerOK'
<1>0. /\ HandlerOK /\ claims \in Seq(Requests) /\ handler \in HandlerRecord /\ processed \in Nat
      /\ published \subseteq DOMAIN claims /\ completed \in [Requests -> Outcomes \cup {None}]
      /\ \A i, j \in DOMAIN claims : claims[i] = claims[j] => i = j
  BY DEF IInv, Types, ClaimsOK
<1>a. /\ handler.at \in Nat /\ handler.end \in Nat
      /\ handler.requests \in Seq(Requests) /\ handler.group \in Seq(Requests)
      /\ Len(handler.requests) \in Nat /\ Len(handler.group) \in Nat
  BY <1>0, HandlerFields
<1>b. /\ Taken \in Nat /\ Written \in Nat /\ Finished \in Nat
      /\ processed <= Finished /\ Finished <= Written /\ Written <= Taken
      /\ Taken <= Len(claims) /\ 1..Taken \subseteq published
  BY Borders
<1>1. /\ handler' \in HandlerRecord /\ k <= Len(handler.requests) /\ k \in Nat /\ k >= 1
      /\ handler'.at = handler.at /\ handler'.end = handler.end
      /\ handler'.step \in {"mark", "complete"}
      /\ Len(handler'.group) = k /\ Len(handler'.requests) = Len(handler.requests) - k
      /\ \A i \in 1..k : handler'.group[i] = handler.requests[i]
      /\ \A i \in 1..(Len(handler.requests) - k) :
           handler'.requests[i] = handler.requests[k + i]
  <2>1. BatchRecords \in Nat
    BY IngressAssumption
  <2>2. k \in Nat /\ k >= 1
    BY <2>1
  <2> QED BY <2>2, WriteFacts
<1>2. /\ handler.step = "write" /\ processed' = processed /\ claims' = claims
      /\ published' = published /\ completed' = completed
  BY DEF writeRequests, ring
<1>3. handler.group = << >> /\ Busy /\ handler.at = handler.end
  BY <1>0, <1>2 DEF HandlerOK, Busy
<1>4. Busy' /\ Written' = Written + k /\ Finished' = Written /\ Finished = Written
  BY <1>a, <1>1, <1>3 DEF Busy, Written, Finished
<1>5. \A i \in 1..Len(handler.requests) : handler.requests[i] = claims[Written + i]
  BY <1>0, <1>3 DEF HandlerOK
<1>6. \A i \in 1..k : handler'.group[i] = claims[Written + i]
  <2>1. \A i \in 1..k : i \in 1..Len(handler.requests)
    BY <1>a, <1>1
  <2> QED BY <1>1, <1>5, <2>1
<1>7. \A i \in 1..(Len(handler.requests) - k) : handler'.requests[i] = claims[(Written + k) + i]
  <2>1. \A i \in 1..(Len(handler.requests) - k) :
          /\ k + i \in 1..Len(handler.requests) /\ Written + (k + i) = (Written + k) + i
    BY <1>a, <1>b, <1>1
  <2> QED BY <1>1, <1>5, <2>1
<1>8. handler'.group # << >>
  BY <1>1
<1>9. /\ \A i \in 1..Finished : completed[claims[i]] # None
      /\ \A i \in DOMAIN claims : i > Finished => completed[claims[i]] = None
  BY <1>0, <1>2 DEF HandlerOK
<1>10. /\ 1..processed \subseteq published /\ 1..handler.end \subseteq published
       /\ handler.end - processed <= InFlightRecords /\ handler.at <= handler.end
  BY <1>0, <1>3 DEF HandlerOK
<1> HIDE DEF HandlerOK
<1>11. /\ processed' <= Finished' /\ handler'.at <= handler'.end
       /\ \A i \in 1..Len(handler'.requests) : handler'.requests[i] = claims'[Written' + i]
       /\ \A i \in 1..Len(handler'.group) : handler'.group[i] = claims'[Finished' + i]
  BY <1>b, <1>1, <1>2, <1>4, <1>6, <1>7, <1>10
<1>12. /\ \A i \in 1..Finished' : completed'[claims'[i]] # None
       /\ \A i \in DOMAIN claims' : i > Finished' => completed'[claims'[i]] = None
  BY <1>2, <1>4, <1>9
<1> QED BY <1>1, <1>2, <1>3, <1>8, <1>10, <1>11, <1>12 DEF HandlerOK

\* CompleteRequest moves the border of the completed sequences by one.
LEMMA HandlerComplete ==
  ASSUME IInv, CompleteRequest
  PROVE  HandlerOK'
<1>0. /\ HandlerOK /\ claims \in Seq(Requests) /\ handler \in HandlerRecord /\ processed \in Nat
      /\ published \subseteq DOMAIN claims /\ completed \in [Requests -> Outcomes \cup {None}]
      /\ \A i, j \in DOMAIN claims : claims[i] = claims[j] => i = j
  BY DEF IInv, Types, ClaimsOK
<1>a. /\ handler.at \in Nat /\ handler.end \in Nat
      /\ handler.requests \in Seq(Requests) /\ handler.group \in Seq(Requests)
      /\ Len(handler.requests) \in Nat /\ Len(handler.group) \in Nat
  BY <1>0, HandlerFields
<1>b. /\ Taken \in Nat /\ Written \in Nat /\ Finished \in Nat
      /\ processed <= Finished /\ Finished <= Written /\ Written <= Taken
      /\ Taken <= Len(claims) /\ 1..Taken \subseteq published
  BY Borders
<1>1. /\ handler' \in HandlerRecord /\ handler'.at = handler.at /\ handler'.end = handler.end
      /\ handler'.requests = handler.requests
      /\ Len(handler'.group) = Len(handler.group) - 1
      /\ \A i \in 1..(Len(handler.group) - 1) : handler'.group[i] = handler.group[i + 1]
      /\ Len(handler.group) > 1 => handler'.step = "complete"
      /\ Len(handler.group) = 1 =>
           handler'.step = IF handler.requests # << >> THEN "write" ELSE "advance"
  BY CompleteHandler
<1>2. /\ Finished + 1 \in DOMAIN claims /\ claims[Finished + 1] \in Requests
      /\ handler.outcome \in Outcomes
      /\ completed' = [completed EXCEPT ![claims[Finished + 1]] = handler.outcome]
  BY CompleteFacts
<1>3. /\ handler.step = "complete" /\ processed' = processed /\ claims' = claims
      /\ published' = published
  BY DEF CompleteRequest, ring
<1>4. handler.group # << >> /\ Busy /\ handler.at = handler.end
  BY <1>0, <1>3 DEF HandlerOK, Busy
<1>5. Len(handler.group) = 1 \/ Len(handler.group) > 1
  <2>1. Len(handler.group) # 0
    BY <1>a, <1>4
  <2> DEFINE n == Len(handler.group)
  <2>2. n \in Nat /\ n # 0
    BY <1>a, <2>1
  <2> HIDE DEF n
  <2>3. n = 1 \/ n > 1
    BY <2>2
  <2> QED BY <2>3 DEF n
<1>6. handler'.step \in {"complete", "write", "advance"}
  BY <1>1, <1>5
<1>7. Busy' /\ Written' = Written /\ Finished' = Finished + 1
  <2>1. Busy'
    BY <1>6 DEF Busy
  <2>2. /\ Written' = handler.at - Len(handler.requests)
        /\ Finished' = handler.at - Len(handler.requests) - (Len(handler.group) - 1)
    BY <1>1, <2>1 DEF Written, Finished
  <2>3. /\ Written = handler.at - Len(handler.requests)
        /\ Finished = handler.at - Len(handler.requests) - Len(handler.group)
    BY <1>4 DEF Written, Finished
  <2> QED BY <1>a, <2>1, <2>2, <2>3
<1>8. /\ \A i \in 1..Len(handler.requests) : handler.requests[i] = claims[Written + i]
      /\ \A i \in 1..Len(handler.group) : handler.group[i] = claims[Finished + i]
  BY <1>0, <1>4 DEF HandlerOK
<1>9. \A i \in 1..(Len(handler.group) - 1) : handler'.group[i] = claims[(Finished + 1) + i]
  <2>1. \A i \in 1..(Len(handler.group) - 1) :
          i + 1 \in 1..Len(handler.group) /\ Finished + (i + 1) = (Finished + 1) + i
    BY <1>a, <1>b
  <2> QED BY <1>1, <1>8, <2>1
<1>10. /\ \A i \in 1..Finished : completed[claims[i]] # None
       /\ \A i \in DOMAIN claims : i > Finished => completed[claims[i]] = None
  BY <1>0, <1>3 DEF HandlerOK
<1>11. handler.outcome # None
  <2>1. None \notin Outcomes
    BY DEF None, Outcomes
  <2> QED BY <1>2, <2>1
<1>12. \A i \in 1..(Finished + 1) : completed'[claims[i]] # None
  <2>1. \A i \in 1..(Finished + 1) : i \in 1..Finished \/ i = Finished + 1
    BY <1>b
  <2>2. \A i \in 1..Finished : i \in DOMAIN claims /\ claims[i] \in Requests
    BY <1>0, <1>b
  <2> QED BY <1>0, <1>2, <1>10, <1>11, <2>1, <2>2
<1>13. \A i \in DOMAIN claims : i > Finished + 1 => completed'[claims[i]] = None
  <2>1. \A i \in DOMAIN claims : i > Finished + 1 =>
           claims[i] # claims[Finished + 1] /\ claims[i] \in Requests /\ i > Finished
    BY <1>0, <1>b, <1>2
  <2> QED BY <1>0, <1>2, <1>10, <2>1
<1>14. /\ 1..processed \subseteq published /\ 1..handler.end \subseteq published
       /\ handler.end - processed <= InFlightRecords /\ handler.at <= handler.end
  BY <1>0, <1>4 DEF HandlerOK
<1>15. /\ handler'.step = "write" => handler'.requests # << >> /\ handler'.group = << >>
       /\ handler'.step = "complete" => handler'.group # << >>
       /\ handler'.step = "advance" => handler'.requests = << >> /\ handler'.group = << >>
  <2>1. handler'.group \in Seq(Requests)
    BY <1>1 DEF HandlerRecord
  <2>2. CASE Len(handler.group) = 1
    <3>1. handler'.group = << >>
      BY <1>1, <2>1, <2>2
    <3> QED BY <1>1, <2>2, <3>1
  <2>3. CASE Len(handler.group) > 1
    <3>1. handler'.group # << >>
      BY <1>a, <1>1, <2>1, <2>3
    <3> QED BY <1>1, <2>3, <3>1
  <2> QED BY <1>5, <2>2, <2>3
<1>16. /\ processed' <= Finished' /\ handler'.at <= handler'.end
       /\ \A i \in 1..Len(handler'.requests) : handler'.requests[i] = claims'[Written' + i]
       /\ \A i \in 1..Len(handler'.group) : handler'.group[i] = claims'[Finished' + i]
  <2>1. processed' <= Finished'
    BY <1>0, <1>b, <1>3, <1>7
  <2>2. handler'.at <= handler'.end
    BY <1>1, <1>14
  <2>3. \A i \in 1..Len(handler'.requests) : handler'.requests[i] = claims'[Written' + i]
    BY <1>1, <1>3, <1>7, <1>8
  <2>4. \A i \in 1..Len(handler'.group) : handler'.group[i] = claims'[Finished' + i]
    BY <1>1, <1>3, <1>7, <1>9
  <2> QED BY <2>1, <2>2, <2>3, <2>4
<1>17. /\ \A i \in 1..Finished' : completed'[claims'[i]] # None
       /\ \A i \in DOMAIN claims' : i > Finished' => completed'[claims'[i]] = None
  BY <1>3, <1>7, <1>12, <1>13
<1> QED BY <1>1, <1>3, <1>4, <1>6, <1>14, <1>15, <1>16, <1>17 DEF HandlerOK

\* Every step keeps the handler in claim order.
LEMMA HandlerStep == IInv /\ Accounted /\ [Next]_vars => HandlerOK'
<1> SUFFICES ASSUME IInv, Accounted, [Next]_vars PROVE HandlerOK'
  OBVIOUS
<1>0. /\ HandlerOK /\ claims \in Seq(Requests) /\ handler \in HandlerRecord /\ processed \in Nat
      /\ published \subseteq DOMAIN claims /\ completed \in [Requests -> Outcomes \cup {None}]
      /\ \A i, j \in DOMAIN claims : claims[i] = claims[j] => i = j
  BY DEF IInv, Types, ClaimsOK
<1>a. /\ handler.at \in Nat /\ handler.end \in Nat
      /\ handler.requests \in Seq(Requests) /\ handler.group \in Seq(Requests)
      /\ Len(handler.requests) \in Nat /\ Len(handler.group) \in Nat
  BY <1>0, HandlerFields
<1>b. /\ Taken \in Nat /\ Written \in Nat /\ Finished \in Nat
      /\ processed <= Finished /\ Finished <= Written /\ Written <= Taken
      /\ Taken <= Len(claims) /\ 1..Taken \subseteq published
  BY Borders
<1>1. CASE UNCHANGED core
  BY <1>0, <1>1 DEF HandlerOK, Busy, Written, Finished, core
<1>2. ASSUME NEW r \in Requests, ClaimSlot(r)
      PROVE  HandlerOK'
  BY <1>2, HandlerClaim
<1>3. ASSUME NEW r \in Requests, PublishSequence(r)
      PROVE  HandlerOK'
  <2>1. published \subseteq published'
    BY <1>3, PublishFacts
  <2>2. processed' = processed /\ handler' = handler /\ claims' = claims
        /\ completed' = completed
    BY <1>3 DEF PublishSequence
  <2>3. Busy' = Busy /\ Written' = Written /\ Finished' = Finished
    BY <2>2 DEF Busy, Written, Finished
  <2>4. 1..processed \subseteq published' /\ (Busy => 1..handler.end \subseteq published')
    BY <1>0, <2>1 DEF HandlerOK
  <2> QED BY <1>0, <2>2, <2>3, <2>4 DEF HandlerOK
<1>4. CASE TakeRange
  BY <1>4, HandlerTake
<1>5. CASE Handle
  BY <1>5, HandlerHandle
<1>6. ASSUME NEW k \in 1..BatchRecords, writeRequests(k)
      PROVE  HandlerOK'
  BY <1>6, HandlerWrite
<1>7. CASE MarkUnavailable
  <2>1. handler' = [handler EXCEPT !.step = "complete"] /\ handler.step = "mark"
        /\ UNCHANGED <<claims, published, processed, completed>>
    BY <1>7 DEF MarkUnavailable, ring
  <2>2. /\ handler'.step = "complete" /\ handler'.at = handler.at /\ handler'.end = handler.end
        /\ handler'.requests = handler.requests /\ handler'.group = handler.group
    BY <1>0, <2>1 DEF HandlerRecord
  <2>3. Busy' /\ Busy /\ Written' = Written /\ Finished' = Finished
    BY <2>1, <2>2 DEF Busy, Written, Finished
  <2> QED BY <1>0, <2>1, <2>2, <2>3 DEF HandlerOK
<1>8. CASE CompleteRequest
  BY <1>8, HandlerComplete
<1>9. CASE AdvanceSequence
  <2>1. /\ handler.step = "advance" /\ processed' = handler.end /\ handler' = HandlerIdle
        /\ claims' = claims /\ published' = published /\ completed' = completed
    BY <1>9 DEF AdvanceSequence
  <2>2. /\ handler'.step = "wait" /\ handler'.requests = << >> /\ handler'.group = << >>
    BY <2>1 DEF HandlerIdle
  <2>3. /\ Busy /\ handler.at = handler.end /\ handler.requests = << >> /\ handler.group = << >>
    BY <1>0, <2>1 DEF HandlerOK, Busy
  <2>4. Finished = handler.end
    BY <1>a, <2>3 DEF Finished
  <2>5. ~Busy' /\ Finished' = handler.end
    BY <2>1, <2>2 DEF Busy, Finished
  <2>6. /\ \A i \in 1..Finished' : completed'[claims'[i]] # None
        /\ \A i \in DOMAIN claims' : i > Finished' => completed'[claims'[i]] = None
    BY <1>0, <2>1, <2>4, <2>5 DEF HandlerOK
  <2>7. 1..handler.end \subseteq published
    BY <1>0, <2>3 DEF HandlerOK
  <2> QED BY <2>1, <2>2, <2>5, <2>6, <2>7 DEF HandlerOK
<1>10. CASE ProcessorExits
  <2>1. /\ handler.step = "wait" /\ handler' = [HandlerIdle EXCEPT !.step = "exit"]
        /\ processed' = processed /\ claims' = claims /\ published' = published
        /\ completed' = completed
    BY <1>10 DEF ProcessorExits, ring
  <2>2. handler'.step = "exit"
    BY <2>1 DEF HandlerIdle
  <2>3. ~Busy' /\ ~Busy /\ Finished' = processed /\ Finished = processed
    BY <2>1, <2>2 DEF Busy, Finished
  <2> QED BY <1>0, <2>1, <2>2, <2>3 DEF HandlerOK
<1>11. ASSUME NEW c \in Closers, drainPending(c)
       PROVE  HandlerOK'
  <2>1. PICK s \in DOMAIN claims : /\ handler.step = "exit" /\ claims[s] \in Requests
                                   /\ completed' = [completed EXCEPT ![claims[s]] = "unknown"]
    BY <1>11, DrainFacts
  <2>2. UNCHANGED <<handler, claims, published, processed>>
    BY <1>11 DEF drainPending
  <2>3. ~Busy' /\ Finished' = Finished
    BY <2>1, <2>2 DEF Busy, Finished
  <2>4. \A i \in 1..Finished : completed'[claims[i]] # None
    <3>1. \A i \in 1..Finished : i \in DOMAIN claims /\ claims[i] \in Requests
      BY <1>0, <1>b
    <3>2. "unknown" # None
      BY DEF None
    <3> QED BY <1>0, <2>1, <3>1, <3>2 DEF HandlerOK
  <2> QED BY <1>0, <2>1, <2>2, <2>3, <2>4 DEF HandlerOK
<1> QED BY <1>1, <1>2, <1>3, <1>4, <1>5, <1>6, <1>7, <1>8, <1>9, <1>10, <1>11, Frame
        DEF ProcessorStep
=============================================================================
