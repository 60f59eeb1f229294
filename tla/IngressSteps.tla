---------------------------- MODULE IngressSteps ----------------------------
(***************************************************************************)
(* Every step of Ingress keeps SlotsOK, LogOK, ResultsOK and ShutdownOK.   *)
(***************************************************************************)
EXTENDS IngressInvariant

\* Two sequences the gate keeps in one lap of the ring have different slots.
LEMMA InRingInjective ==
  ASSUME IInv, NEW s \in DOMAIN claims, NEW t \in DOMAIN claims, s > processed, t > processed,
         Slot(s) = Slot(t)
  PROVE  s = t
<1>1. claims \in Seq(Requests) /\ processed \in Nat /\ Len(claims) - processed <= Capacity
  BY DEF IInv, Types, SlotsOK
<1> QED BY <1>1, SlotInjective, CapacityFits

\* PublishSequence stores into a free slot.
LEMMA SlotsPublish ==
  ASSUME IInv, NEW r \in Requests, PublishSequence(r)
  PROVE  SlotsOK'
<1>0. /\ SlotsOK /\ claims \in Seq(Requests) /\ handler \in HandlerRecord /\ processed \in Nat
      /\ published \subseteq DOMAIN claims /\ completed \in [Requests -> Outcomes \cup {None}]
      /\ slots \in [0..(Capacity - 1) -> Requests \cup {None}]
      /\ \A i, j \in DOMAIN claims : claims[i] = claims[j] => i = j
      /\ \A i \in DOMAIN claims : claims[i] \in Requests /\ i \in Nat \ {0}
  BY DEF IInv, Types, ClaimsOK
<1>b. /\ Taken \in Nat /\ Finished \in Nat /\ processed <= Finished /\ Finished <= Taken
      /\ Taken <= Len(claims) /\ 1..Taken \subseteq published /\ processed <= Taken
  BY Borders
<1>d. \A s \in published : Slot(s) \in DOMAIN slots
  BY <1>0, SlotIn
<1>1. PICK s \in DOMAIN claims :
          /\ claims[s] = r /\ s \in Nat \ {0} /\ s \notin published
          /\ slots' = [slots EXCEPT ![Slot(s)] = r] /\ published' = published \cup {s}
  BY PublishFacts
<1>2. /\ processed' = processed /\ handler' = handler /\ claims' = claims
      /\ completed' = completed /\ pc[r] = "claimed"
  BY DEF PublishSequence
<1>3. Taken' = Taken
  BY <1>2 DEF Taken, Busy
<1>4. s > Taken /\ s > processed
  <2>1. s \notin 1..Taken
    BY <1>b, <1>1
  <2> QED BY <1>0, <1>b, <1>1, <2>1
<1>5. completed[r] = None
  BY <1>2 DEF IInv, ClaimsOK
<1>6. /\ \A t \in published : InRing(t)' <=> InRing(t)
      /\ InRing(s)'
  BY <1>1, <1>2, <1>3, <1>4, <1>5 DEF InRing
<1>7. Slot(s) \in DOMAIN slots
  BY <1>0, <1>1, SlotIn
<1>8. \A t \in published : InRing(t) => Slot(t) # Slot(s)
  <2>1. ASSUME NEW t \in published, InRing(t) PROVE Slot(t) # Slot(s)
    <3>1. t > processed /\ t \in DOMAIN claims
      BY <1>0, <1>b, <2>1 DEF InRing
    <3> QED BY <1>1, <1>4, <3>1, InRingInjective
  <2> QED BY <2>1
<1>9. \A x \in DOMAIN slots : slots'[x] = IF x = Slot(s) THEN r ELSE slots[x]
  BY <1>0, <1>1
<1>10. DOMAIN slots' = DOMAIN slots
  BY <1>0, <1>1
<1>11. \A x \in DOMAIN slots' : slots'[x] # None =>
         \E t \in published' : InRing(t)' /\ Slot(t) = x /\ slots'[x] = claims'[t]
  <2>1. ASSUME NEW x \in DOMAIN slots, slots'[x] # None
        PROVE  \E t \in published' : InRing(t)' /\ Slot(t) = x /\ slots'[x] = claims'[t]
    <3>1. CASE x = Slot(s)
      BY <1>1, <1>2, <1>6, <1>9, <3>1
    <3>2. CASE x # Slot(s)
      <4>1. slots'[x] = slots[x]
        BY <1>9, <3>2
      <4>2. PICK t \in published : InRing(t) /\ Slot(t) = x /\ slots[x] = claims[t]
        BY <1>0, <2>1, <4>1 DEF SlotsOK
      <4> QED BY <1>1, <1>2, <1>6, <4>1, <4>2
    <3> QED BY <3>1, <3>2
  <2> QED BY <1>10, <2>1
<1>12. \A t \in published' : InRing(t)' => slots'[Slot(t)] = claims'[t]
  <2>1. ASSUME NEW t \in published, InRing(t) PROVE slots'[Slot(t)] = claims[t]
    BY <1>0, <1>d, <1>8, <1>9, <2>1 DEF SlotsOK
  <2> QED BY <1>1, <1>2, <1>6, <1>7, <1>9, <2>1
<1>13. Len(claims') - processed' <= Capacity
  BY <1>0, <1>2 DEF SlotsOK
<1> QED BY <1>11, <1>12, <1>13 DEF SlotsOK
\* A slot is emptied, and the sequence that was in it leaves the ring.

\* Every step keeps slots and waiting sequences in correspondence.
LEMMA SlotsStep == IInv /\ [Next]_vars => SlotsOK'
<1> SUFFICES ASSUME IInv, [Next]_vars PROVE SlotsOK'
  OBVIOUS
<1>0. /\ SlotsOK /\ claims \in Seq(Requests) /\ handler \in HandlerRecord /\ processed \in Nat
      /\ published \subseteq DOMAIN claims /\ completed \in [Requests -> Outcomes \cup {None}]
      /\ slots \in [0..(Capacity - 1) -> Requests \cup {None}]
      /\ \A i, j \in DOMAIN claims : claims[i] = claims[j] => i = j
      /\ \A i \in DOMAIN claims : claims[i] \in Requests /\ i \in Nat \ {0}
  BY DEF IInv, Types, ClaimsOK
<1>b. /\ Taken \in Nat /\ Finished \in Nat /\ processed <= Finished /\ Finished <= Taken
      /\ Taken <= Len(claims) /\ 1..Taken \subseteq published /\ processed <= Taken
  BY Borders
<1>c. Capacity \in Nat \ {0}
  BY CapacityFits
<1>d. \A s \in published : Slot(s) \in DOMAIN slots
  BY <1>0, SlotIn
<1>1. ASSUME claims' = claims, slots' = slots, published' = published, processed' \in Nat,
             processed <= processed',
             \A s \in published : InRing(s)' <=> InRing(s)
      PROVE  SlotsOK'
  <2>1. Len(claims) - processed' <= Capacity
    BY <1>0, <1>1, <1>c DEF SlotsOK
  <2> QED BY <1>0, <1>1, <2>1 DEF SlotsOK
<1>2. CASE UNCHANGED core
  <2>1. Busy' = Busy /\ Taken' = Taken
    BY <1>2 DEF Busy, Taken, core
  <2> QED BY <1>0, <1>1, <1>2, <2>1 DEF core, InRing
<1>3. ASSUME NEW r \in Requests, ClaimSlot(r)
      PROVE  SlotsOK'
  <2>1. /\ \A i \in DOMAIN claims : claims'[i] = claims[i]
        /\ Len(claims') = Len(claims) + 1
    BY <1>3, ClaimFacts
  <2>2. /\ processed' = processed /\ handler' = handler /\ published' = published
        /\ completed' = completed /\ slots' = slots /\ Len(claims) - processed < Capacity
    BY <1>3 DEF ClaimSlot, RingHasRoom
  <2>3. Taken' = Taken
    BY <2>2 DEF Taken, Busy
  <2>4. \A s \in published : (InRing(s)' <=> InRing(s)) /\ claims'[s] = claims[s]
    BY <1>0, <2>1, <2>2, <2>3 DEF InRing
  <2>5. Len(claims') - processed' <= Capacity
    BY <1>0, <1>c, <2>1, <2>2
  <2> QED BY <1>0, <2>2, <2>4, <2>5 DEF SlotsOK
<1>4. ASSUME NEW r \in Requests, PublishSequence(r)
      PROVE  SlotsOK'
  BY <1>4, SlotsPublish
<1>5. ASSUME claims' = claims, published' = published, processed' = processed,
             NEW s \in DOMAIN claims, InRing(s), slots' = [slots EXCEPT ![Slot(s)] = None],
             \A t \in published : InRing(t)' <=> InRing(t) /\ t # s
      PROVE  SlotsOK'
  <2>1. \A t \in published : InRing(t) /\ t # s => Slot(t) # Slot(s)
    <3>1. ASSUME NEW t \in published, InRing(t), t # s PROVE Slot(t) # Slot(s)
      <4>1. t > processed /\ s > processed /\ t \in DOMAIN claims
        BY <1>0, <1>b, <1>5, <3>1 DEF InRing
      <4> QED BY <3>1, <4>1, InRingInjective
    <3> QED BY <3>1
  <2>2. /\ DOMAIN slots' = DOMAIN slots
        /\ \A x \in DOMAIN slots : slots'[x] = IF x = Slot(s) THEN None ELSE slots[x]
    BY <1>0, <1>5
  <2>3. \A x \in DOMAIN slots' : slots'[x] # None =>
           \E t \in published' : InRing(t)' /\ Slot(t) = x /\ slots'[x] = claims'[t]
    <3>1. ASSUME NEW x \in DOMAIN slots, slots'[x] # None
          PROVE  \E t \in published' : InRing(t)' /\ Slot(t) = x /\ slots'[x] = claims'[t]
      <4>1. slots'[x] = slots[x] /\ x # Slot(s)
        BY <2>2, <3>1
      <4>2. PICK t \in published : InRing(t) /\ Slot(t) = x /\ slots[x] = claims[t]
        BY <1>0, <3>1, <4>1 DEF SlotsOK
      <4>3. t # s
        BY <4>1, <4>2
      <4> QED BY <1>5, <4>1, <4>2, <4>3
    <3> QED BY <2>2, <3>1
  <2>4. \A t \in published' : InRing(t)' => slots'[Slot(t)] = claims'[t]
    <3>1. ASSUME NEW t \in published, InRing(t)' PROVE slots'[Slot(t)] = claims[t]
      <4>1. InRing(t) /\ Slot(t) # Slot(s) /\ Slot(t) \in DOMAIN slots
        BY <1>5, <1>d, <2>1, <3>1
      <4> QED BY <1>0, <2>2, <4>1 DEF SlotsOK
    <3> QED BY <1>5, <3>1
  <2>5. Len(claims') - processed' <= Capacity
    BY <1>0, <1>5 DEF SlotsOK
  <2> QED BY <2>3, <2>4, <2>5 DEF SlotsOK
<1>6. CASE Handle
  <2>1. handler'.at = handler.at + 1 /\ handler'.step \in {"write", "handle"}
    BY <1>6, HandleRecords
  <2>2. /\ handler.step = "handle" /\ processed' = processed /\ claims' = claims
        /\ published' = published /\ completed' = completed
        /\ slots' = [slots EXCEPT ![Slot(handler.at + 1)] = None]
    BY <1>6 DEF Handle
  <2>3. Taken = handler.at /\ Taken' = handler.at + 1 /\ handler.at \in Nat
    BY <1>0, <2>1, <2>2 DEF Taken, Busy, HandlerRecord
  <2>4. InRing(handler.at + 1) /\ handler.at + 1 \in DOMAIN claims
    <3>1. handler.at + 1 > Taken
      BY <2>3
    <3> QED BY <1>0, <2>2, <3>1, NextRequest DEF InRing
  <2>5. \A t \in published : InRing(t)' <=> InRing(t) /\ t # handler.at + 1
    <3>1. \A t \in published : t > handler.at + 1 <=> t > handler.at /\ t # handler.at + 1
      BY <1>0, <2>3
    <3> QED BY <2>2, <2>3, <3>1 DEF InRing
  <2> QED BY <1>5, <2>2, <2>4, <2>5
<1>7. CASE CompleteRequest
  <2>1. /\ Finished + 1 \in DOMAIN claims
        /\ completed' = [completed EXCEPT ![claims[Finished + 1]] = handler.outcome]
    BY <1>7, CompleteFacts
  <2>2. /\ handler.step = "complete" /\ processed' = processed /\ claims' = claims
        /\ published' = published /\ slots' = slots
    BY <1>7 DEF CompleteRequest, ring
  <2>3. HandlerOK
    BY DEF IInv
  <2>4. handler.group # << >> /\ Busy /\ handler.group \in Seq(Requests)
        /\ handler.requests \in Seq(Requests) /\ handler.at \in Nat
    BY <1>0, <2>2, <2>3, HandlerFields DEF HandlerOK, Busy
  <2>5. Finished + 1 <= Taken
    BY <1>7, FinishedNext
  <2>6. Taken' = Taken
    <3>1. handler'.at = handler.at /\ handler'.step \in {"complete", "write", "advance"}
      <4>1. Len(handler.group) = 1 \/ Len(handler.group) > 1
        <5> DEFINE n == Len(handler.group)
        <5>1. n \in Nat \ {0}
          BY <2>4
        <5> HIDE DEF n
        <5>2. n = 1 \/ n > 1
          BY <5>1
        <5> QED BY <5>2 DEF n
      <4> QED BY <1>7, <4>1, CompleteHandler
    <3> QED BY <2>4, <3>1 DEF Taken, Busy
  <2>7. \A t \in published : t > Taken => completed'[claims[t]] = completed[claims[t]]
    <3>1. \A t \in published : t > Taken => claims[t] # claims[Finished + 1]
      BY <1>0, <1>b, <2>1, <2>5
    <3> QED BY <1>0, <2>1, <3>1
  <2>8. \A t \in published : InRing(t)' <=> InRing(t)
    BY <2>2, <2>6, <2>7 DEF InRing
  <2>9. processed' \in Nat /\ processed <= processed'
    BY <1>0, <2>2
  <2> QED BY <1>1, <2>2, <2>8, <2>9
<1>8. ASSUME UNCHANGED <<claims, slots, published, completed>>, Taken' = Taken, processed' \in Nat,
             processed <= processed'
      PROVE  SlotsOK'
  BY <1>1, <1>8 DEF InRing
<1>9. CASE TakeRange
  <2>1. Taken' = Taken
    <3>1. PICK e \in Nat :
            handler' = [handler EXCEPT !.step = "handle", !.at = processed, !.end = e]
      BY <1>9, TakeFacts
    <3>2. handler'.step = "handle" /\ handler'.at = processed /\ handler.step = "wait"
      BY <1>0, <1>9, <3>1 DEF HandlerRecord, TakeRange
    <3> QED BY <3>2 DEF Taken, Busy
  <2> QED BY <1>0, <1>8, <1>9, <2>1 DEF TakeRange, ring
<1>10. ASSUME NEW k \in 1..BatchRecords, writeRequests(k)
       PROVE  SlotsOK'
  <2>1. Taken' = Taken
    <3>1. handler'.at = handler.at /\ handler'.step \in {"mark", "complete"}
      BY <1>10, WriteFacts
    <3>2. handler.step = "write"
      BY <1>10 DEF writeRequests
    <3> QED BY <3>1, <3>2 DEF Taken, Busy
  <2>2. UNCHANGED <<claims, slots, published, completed, processed>>
    BY <1>10 DEF writeRequests, ring
  <2> QED BY <1>0, <1>8, <2>1, <2>2
<1>11. CASE MarkUnavailable
  <2>1. Taken' = Taken
    <3>1. handler.step = "mark" /\ handler' = [handler EXCEPT !.step = "complete"]
      BY <1>11 DEF MarkUnavailable
    <3>2. handler'.at = handler.at /\ handler'.step = "complete"
      BY <1>0, <3>1 DEF HandlerRecord
    <3> QED BY <3>1, <3>2 DEF Taken, Busy
  <2> QED BY <1>0, <1>8, <1>11, <2>1 DEF MarkUnavailable, ring
<1>12. CASE AdvanceSequence
  <2>1. handler.step = "advance" /\ processed' = handler.end /\ handler'.step = "wait"
        /\ UNCHANGED <<claims, slots, published, completed>>
    BY <1>12 DEF AdvanceSequence, HandlerIdle
  <2>2. Taken = handler.at /\ handler.at = handler.end /\ Taken' = handler.end
    BY <2>1 DEF Taken, Busy, IInv, HandlerOK
  <2> QED BY <1>b, <1>8, <2>1, <2>2
<1>13. CASE ProcessorExits
  <2>1. handler.step = "wait" /\ handler'.step = "exit" /\ processed' = processed
        /\ UNCHANGED <<claims, slots, published, completed>>
    BY <1>13 DEF ProcessorExits, HandlerIdle, ring
  <2>2. Taken' = Taken
    BY <2>1 DEF Taken, Busy
  <2> QED BY <1>0, <1>8, <2>1, <2>2
<1>14. ASSUME NEW c \in Closers, drainPending(c)
       PROVE  SlotsOK'
  <2>1. PICK s \in DOMAIN claims :
          /\ InRing(s) /\ slots' = [slots EXCEPT ![Slot(s)] = None]
          /\ completed' = [completed EXCEPT ![claims[s]] = "unknown"]
    BY <1>14, DrainFacts
  <2>2. UNCHANGED <<handler, claims, published, processed>>
    BY <1>14 DEF drainPending
  <2>3. Taken' = Taken
    BY <2>2 DEF Taken, Busy
  <2>4. \A t \in published : t # s => completed'[claims[t]] = completed[claims[t]]
    BY <1>0, <2>1
  <2>5. completed'[claims[s]] # None
    BY <1>0, <2>1 DEF None
  <2>6. \A t \in published : InRing(t)' <=> InRing(t) /\ t # s
    BY <2>2, <2>3, <2>4, <2>5 DEF InRing
  <2> QED BY <1>5, <2>1, <2>2, <2>6
<1> QED BY <1>2, <1>3, <1>4, <1>6, <1>7, <1>9, <1>10, <1>11, <1>12, <1>13, <1>14, Frame
        DEF ProcessorStep

\* Only writeRequests moves the border of the written sequences.
LEMMA WrittenMoves ==
  ASSUME IInv, [Next]_vars
  PROVE  \/ Written' = Written
         \/ \E k \in 1..BatchRecords : writeRequests(k)
<1>0. /\ HandlerOK /\ handler \in HandlerRecord /\ processed \in Nat
      /\ handler.at \in Nat /\ handler.end \in Nat
      /\ handler.requests \in Seq(Requests) /\ handler.group \in Seq(Requests)
      /\ Len(handler.requests) \in Nat /\ Len(handler.group) \in Nat
  BY HandlerFields DEF IInv, Types
<1>1. ASSUME handler' = handler, processed' = processed PROVE Written' = Written
  BY <1>1 DEF Written, Busy
<1>2. CASE TakeRange
  <2>1. PICK e \in Nat :
            handler' = [handler EXCEPT !.step = "handle", !.at = processed, !.end = e]
    BY <1>2, TakeFacts
  <2>2. handler.step = "wait" /\ handler.requests = << >> /\ Len(handler.requests) = 0
    BY <1>0, <1>2 DEF TakeRange, HandlerOK
  <2>3. /\ handler'.step = "handle" /\ handler'.at = processed /\ Len(handler'.requests) = 0
    BY <1>0, <2>1, <2>2 DEF HandlerRecord
  <2> QED BY <1>0, <2>2, <2>3 DEF Written, Busy
<1>3. CASE Handle
  <2>1. /\ handler.step = "handle" /\ handler'.at = handler.at + 1
        /\ handler'.requests = Append(handler.requests, slots[Slot(handler.at + 1)])
        /\ handler'.step \in {"write", "handle"}
    BY <1>3, HandleRecords DEF Handle
  <2>2. slots[Slot(handler.at + 1)] \in Requests
    BY <2>1, NextRequest
  <2>3. Len(handler'.requests) = Len(handler.requests) + 1
    BY <1>0, <2>1, <2>2
  <2>4. Busy /\ Busy'
    BY <2>1 DEF Busy
  <2>5. /\ Written' = (handler.at + 1) - (Len(handler.requests) + 1)
        /\ Written = handler.at - Len(handler.requests)
    BY <2>1, <2>3, <2>4 DEF Written
  <2> QED BY <1>0, <2>5
<1>4. CASE MarkUnavailable
  <2>1. handler.step = "mark" /\ handler' = [handler EXCEPT !.step = "complete"]
    BY <1>4 DEF MarkUnavailable
  <2>2. /\ handler'.step = "complete" /\ handler'.at = handler.at
        /\ handler'.requests = handler.requests
    BY <1>0, <2>1 DEF HandlerRecord
  <2> QED BY <2>1, <2>2 DEF Written, Busy
<1>5. CASE CompleteRequest
  <2>1. /\ handler' = [handler EXCEPT !.group = Tail(@),
                     !.step = IF Len(handler.group) > 1 THEN "complete"
                              ELSE IF handler.requests # << >> THEN "write" ELSE "advance"]
        /\ handler.step = "complete"
    BY <1>5 DEF CompleteRequest
  <2>2. handler'.step \notin {"wait", "exit"}
    BY <1>0, <2>1 DEF HandlerRecord
  <2>3. handler'.at = handler.at /\ handler'.requests = handler.requests
    BY <1>5, CompleteHandler
  <2> QED BY <2>1, <2>2, <2>3 DEF Written, Busy
<1>6. CASE AdvanceSequence
  <2>1. /\ handler.step = "advance" /\ processed' = handler.end /\ handler'.step = "wait"
    BY <1>6 DEF AdvanceSequence, HandlerIdle
  <2>2. handler.at = handler.end /\ handler.requests = << >> /\ Len(handler.requests) = 0
    BY <1>0, <2>1 DEF HandlerOK
  <2> QED BY <1>0, <2>1, <2>2 DEF Written, Busy
<1>7. CASE ProcessorExits
  <2>1. handler.step = "wait" /\ handler'.step = "exit" /\ processed' = processed
    BY <1>7 DEF ProcessorExits, HandlerIdle, ring
  <2> QED BY <2>1 DEF Written, Busy
<1>8. CASE UNCHANGED core \/ (\E r \in Requests : ClaimSlot(r) \/ PublishSequence(r))
           \/ (\E c \in Closers : drainPending(c))
  BY <1>1, <1>8 DEF core, ClaimSlot, PublishSequence, drainPending
<1> QED BY <1>2, <1>3, <1>4, <1>5, <1>6, <1>7, <1>8, Frame DEF ProcessorStep

\* What a batch adds to the log comes after everything the log holds.
LEMMA WriteFollows ==
  ASSUME IInv, NEW k \in 1..BatchRecords, writeRequests(k)
  PROVE  /\ k \in Nat /\ Written' = Written + k /\ handler'.group \in Seq(Requests)
         /\ Len(handler'.group) = k /\ Written = Finished
         /\ \A i \in 1..k : /\ Written + i \in DOMAIN claims
                            /\ handler'.group[i] = claims[Written + i]
                            /\ completed[claims[Written + i]] = None
<1>0. /\ HandlerOK /\ handler \in HandlerRecord /\ claims \in Seq(Requests)
      /\ handler.at \in Nat /\ handler.requests \in Seq(Requests)
      /\ Len(handler.requests) \in Nat
  BY HandlerFields DEF IInv, Types
<1>1. k \in Nat
  <2>1. BatchRecords \in Nat
    BY IngressAssumption
  <2> QED BY <2>1
<1>2. /\ handler' \in HandlerRecord /\ k <= Len(handler.requests) /\ handler'.at = handler.at
      /\ handler'.step \in {"mark", "complete"}
      /\ Len(handler'.group) = k /\ Len(handler'.requests) = Len(handler.requests) - k
      /\ \A i \in 1..k : handler'.group[i] = handler.requests[i]
  BY WriteFacts
<1>3. handler.step = "write" /\ Busy /\ Busy' /\ handler.group = << >>
  BY <1>0, <1>2 DEF writeRequests, Busy, HandlerOK
<1>4. Written' = Written + k /\ Written + Len(handler.requests) = Taken /\ Written = Finished
  BY <1>0, <1>1, <1>2, <1>3 DEF Written, Taken, Finished
<1>5. \A i \in 1..k : i \in 1..Len(handler.requests) /\ Written + i \in 1..Len(claims)
                      /\ Written + i > Finished
  BY <1>0, <1>1, <1>2, <1>4, Borders
<1>6. \A i \in 1..Len(handler.requests) : handler.requests[i] = claims[Written + i]
  BY <1>0, <1>3 DEF HandlerOK
<1>7. \A i \in 1..k : completed[claims[Written + i]] = None
  BY <1>0, <1>3, <1>5 DEF HandlerOK
<1>8. handler'.group \in Seq(Requests)
  BY <1>2 DEF HandlerRecord
<1>9. \A i \in 1..k : /\ Written + i \in DOMAIN claims
                       /\ handler'.group[i] = claims[Written + i]
  <2>1. DOMAIN claims = 1..Len(claims)
    BY <1>0
  <2> QED BY <1>2, <1>5, <1>6, <2>1, Zenon
<1> QED BY <1>1, <1>2, <1>4, <1>7, <1>8, <1>9

\* writeRequests appends the next claims, in order, and its outcome is true of
\* the group.
LEMMA LogWrite ==
  ASSUME IInv, NEW k \in 1..BatchRecords, writeRequests(k)
  PROVE  LogOK'
<1>0. /\ LogOK /\ claims \in Seq(Requests) /\ handler \in HandlerRecord
      /\ completed \in [Requests -> Outcomes \cup {None}]
      /\ log \in Seq(Requests) /\ doubt \subseteq Requests
      /\ \A i, j \in DOMAIN claims : claims[i] = claims[j] => i = j
  BY DEF IInv, Types, ClaimsOK
<1>b. Written \in Nat /\ Written <= Len(claims)
  BY Borders DEF IInv, Types
<1> DEFINE g == handler'.group
           W == Written
           L == Len(log)
<1>1. /\ k \in Nat /\ Written' = W + k /\ g \in Seq(Requests) /\ Len(g) = k
      /\ \A i \in 1..k : /\ W + i \in DOMAIN claims /\ g[i] = claims[W + i]
                         /\ completed[claims[W + i]] = None
  BY WriteFollows
<1>2. /\ claims' = claims /\ completed' = completed
  BY DEF writeRequests, ring
<1>3. /\ handler'.outcome \in Outcomes
      /\ \/ log' = log /\ doubt' = doubt /\ handler'.outcome \in {"unavailable", "closed", "tooLarge"}
         \/ handler'.outcome = "ok" /\ log' = log \o g /\ doubt' = doubt
         \/ /\ handler'.outcome = "unknown" /\ log' = log /\ doubt' = doubt \cup Range(g)
  BY WriteFacts DEF data
<1> HIDE DEF g, W
<1>4. W \in Nat /\ W <= Len(claims) /\ L \in Nat
  BY <1>0, <1>b DEF W
<1>5. \A q \in Range(g) : \E i \in 1..k : q = claims[W + i]
  BY <1>1 DEF Range
<1>6. \A q \in Range(log) \cup doubt : \E m \in 1..W : claims[m] = q
  BY <1>0 DEF LogOK, W
<1>7. Range(g) \cap (Range(log) \cup doubt) = {}
  <2>1. \A i \in 1..k, m \in 1..W : claims[W + i] # claims[m]
    <3>1. \A i \in 1..k, m \in 1..W : m \in DOMAIN claims /\ m # W + i
      BY <1>0, <1>1, <1>4
    <3> QED BY <1>0, <1>1, <3>1
  <2> QED BY <1>5, <1>6, <2>1
<1>8. \A q \in Range(g) : completed[q] = None
  BY <1>1, <1>5
<1>9. /\ Range(log') \subseteq Range(log) \cup Range(g) /\ Range(log) \subseteq Range(log')
      /\ handler'.outcome = "ok" => Range(g) \subseteq Range(log')
      /\ doubt' \subseteq doubt \cup Range(g)
  <2>1. CASE log' = log /\ handler'.outcome # "ok"
    BY <1>3, <2>1
  <2>2. CASE log' = log \o g /\ doubt' = doubt
    <3>1. Range(log \o g) = Range(log) \cup Range(g)
      <4>1. \A i \in DOMAIN log : (log \o g)[i] = log[i] /\ i \in DOMAIN (log \o g)
        BY <1>0, <1>1
      <4>2. \A i \in DOMAIN g : (log \o g)[L + i] = g[i] /\ L + i \in DOMAIN (log \o g)
        BY <1>0, <1>1
      <4>3. \A i \in DOMAIN (log \o g) : i \in DOMAIN log \/ (i - L \in DOMAIN g /\ i = L + (i - L))
        BY <1>0, <1>1
      <4> DEFINE h == log \o g
      <4>4. /\ \A i \in DOMAIN log : h[i] = log[i] /\ i \in DOMAIN h
            /\ \A i \in DOMAIN g : h[L + i] = g[i] /\ L + i \in DOMAIN h
            /\ \A i \in DOMAIN h : i \in DOMAIN log \/ (i - L \in DOMAIN g /\ i = L + (i - L))
        BY <4>1, <4>2, <4>3, Zenon
      <4> HIDE DEF h, L
      <4>5. Range(log) \subseteq Range(h) /\ Range(g) \subseteq Range(h)
        BY <4>4 DEF Range
      <4>6. Range(h) \subseteq Range(log) \cup Range(g)
        BY <4>4 DEF Range
      <4> QED BY <4>5, <4>6 DEF h
    <3> QED BY <2>2, <3>1
  <2> QED BY <1>3, <2>1, <2>2
<1>10. \A q \in Range(log') \cup doubt' : \E m \in 1..(W + k) : claims[m] = q
  <2>1. \A q \in Range(g) : \E m \in 1..(W + k) : claims[m] = q
    <3>1. \A i \in 1..k : W + i \in 1..(W + k)
      BY <1>1, <1>4
    <3> QED BY <1>5, <3>1
  <2>2. \A m \in 1..W : m \in 1..(W + k)
    BY <1>1, <1>4
  <2> QED BY <1>6, <1>9, <2>1, <2>2
<1>11. \A i, j \in DOMAIN log' : i < j =>
        \E m, n \in DOMAIN claims : m < n /\ claims[m] = log'[i] /\ claims[n] = log'[j]
  <2>1. CASE log' = log
    BY <1>0, <2>1 DEF LogOK, LogFollowsClaims
  <2>2. CASE log' = log \o g
    <3> SUFFICES ASSUME NEW i \in DOMAIN log', NEW j \in DOMAIN log', i < j
                 PROVE  \E m, n \in DOMAIN claims :
                          m < n /\ claims[m] = log'[i] /\ claims[n] = log'[j]
      OBVIOUS
    <3>0. /\ DOMAIN log = 1..L /\ DOMAIN log' = 1..(L + k)
          /\ \A x \in 1..L : log'[x] = log[x]
          /\ \A x \in (L + 1)..(L + k) : log'[x] = g[x - L]
      <4>0. log \in Seq(Requests) /\ g \in Seq(Requests) /\ Len(g) = k
        BY <1>0, <1>1
      <4>a. L \in Nat /\ DOMAIN log = 1..L
        BY <4>0
      <4>b. Len(log \o g) = L + Len(g)
        BY <4>0
      <4>1. L \in Nat /\ DOMAIN log = 1..L /\ Len(log \o g) = L + k
        BY <4>0, <4>a, <4>b
      <4>2. DOMAIN (log \o g) = 1..(L + k)
        BY <1>0, <1>1, <4>1
      <4>3. \A x \in 1..L : (log \o g)[x] = log[x]
        BY <1>0, <1>1
      <4>4. \A x \in (L + 1)..(L + k) : (log \o g)[x] = g[x - L]
        BY <1>0, <1>1
      <4> QED BY <2>2, <4>1, <4>2, <4>3, <4>4
    <3> HIDE DEF L
    <3>1. /\ i \in Nat /\ j \in Nat
          /\ i \in DOMAIN log => log'[i] = log[i]
          /\ j \in DOMAIN log => log'[j] = log[j]
          /\ i \notin DOMAIN log => i - L \in 1..k /\ log'[i] = g[i - L]
          /\ j \notin DOMAIN log => j - L \in 1..k /\ log'[j] = g[j - L]
          /\ j \in DOMAIN log => i \in DOMAIN log
      <4>1. i \in 1..(L + k) /\ j \in 1..(L + k)
        BY <3>0
      <4>2. i \in Nat /\ j \in Nat /\ (j \in 1..L => i \in 1..L)
        BY <1>1, <1>4, <4>1
      <4>3. \A x \in 1..(L + k) : x \notin 1..L => x \in (L + 1)..(L + k) /\ x - L \in 1..k
        BY <1>1, <1>4
      <4> QED BY <3>0, <4>1, <4>2, <4>3
    <3>2. CASE j \in DOMAIN log
      BY <1>0, <3>1, <3>2 DEF LogOK, LogFollowsClaims
    <3>3. CASE j \notin DOMAIN log /\ i \in DOMAIN log
      <4>1. PICK m \in 1..W : claims[m] = log'[i]
        BY <1>6, <3>1, <3>3 DEF Range
      <4>2. m \in DOMAIN claims /\ m < W + (j - L)
        BY <1>0, <1>4, <3>1, <3>3
      <4> QED BY <1>1, <3>1, <3>3, <4>1, <4>2
    <3>4. CASE j \notin DOMAIN log /\ i \notin DOMAIN log
      <4>1. W + (i - L) < W + (j - L)
        BY <1>4, <3>1
      <4> QED BY <1>1, <3>1, <3>4, <4>1
    <3> QED BY <3>2, <3>3, <3>4
  <2> QED BY <1>3, <2>1, <2>2
<1>12. \A q \in Requests : /\ completed[q] = "ok" => q \in Range(log')
                           /\ completed[q] \in Refusals => q \notin Range(log') \cup doubt'
  <2>1. None \notin Refusals
    BY DEF None, Refusals
  <2> QED BY <1>0, <1>8, <1>9, <2>1 DEF LogOK
<1>13. /\ handler'.outcome # None
       /\ handler'.outcome = "ok" => Range(g) \subseteq Range(log')
       /\ handler'.outcome \in Refusals => Range(g) \cap (Range(log') \cup doubt') = {}
  <2>1. None \notin Outcomes /\ "ok" \notin Refusals /\ "unknown" \notin Refusals
    BY DEF None, Outcomes, Refusals
  <2>2. handler'.outcome \in Refusals => log' = log /\ doubt' = doubt
    BY <1>3, <2>1
  <2> QED BY <1>3, <1>7, <1>9, <2>1, <2>2
<1>14. LogFollowsClaims'
  BY <1>2, <1>11 DEF LogFollowsClaims
<1>15. \A q \in Range(log') \cup doubt' : \E m \in 1..Written' : claims'[m] = q
  BY <1>1, <1>2, <1>10
<1> QED BY <1>2, <1>12, <1>13, <1>14, <1>15 DEF LogOK, g

\* Every step keeps the log in claim order and the results true of it.
LEMMA LogStep == IInv /\ [Next]_vars => LogOK'
<1> SUFFICES ASSUME IInv, [Next]_vars PROVE LogOK'
  OBVIOUS
<1>0. /\ LogOK /\ claims \in Seq(Requests) /\ handler \in HandlerRecord
      /\ completed \in [Requests -> Outcomes \cup {None}]
      /\ log \in Seq(Requests) /\ doubt \subseteq Requests
      /\ \A i, j \in DOMAIN claims : claims[i] = claims[j] => i = j
  BY DEF IInv, Types, ClaimsOK
<1>b. Written \in Nat /\ Written <= Len(claims)
  BY Borders DEF IInv, Types
<1>1. ASSUME Written' = Written, claims' = claims, log' = log, doubt' = doubt,
             \A r \in Requests : /\ completed'[r] = "ok" => r \in Range(log)
                                 /\ completed'[r] \in Refusals => r \notin Range(log) \cup doubt,
             handler'.step \in {"mark", "complete"} =>
               /\ handler'.outcome # None
               /\ handler'.outcome = "ok" => Range(handler'.group) \subseteq Range(log)
               /\ handler'.outcome \in Refusals =>
                    Range(handler'.group) \cap (Range(log) \cup doubt) = {}
      PROVE  LogOK'
  <2>1. LogFollowsClaims'
    BY <1>0, <1>1 DEF LogOK, LogFollowsClaims
  <2>2. \A q \in Range(log') \cup doubt' : \E m \in 1..Written' : claims'[m] = q
    BY <1>0, <1>1 DEF LogOK
  <2> QED BY <1>1, <2>1, <2>2 DEF LogOK
<1>2. ASSUME Written' = Written, claims' = claims, log' = log, doubt' = doubt,
             completed' = completed, handler'.step \notin {"mark", "complete"}
      PROVE  LogOK'
  BY <1>0, <1>1, <1>2 DEF LogOK
<1>3. ASSUME Written' = Written, claims' = claims, log' = log, doubt' = doubt,
             completed' = completed, handler'.outcome = handler.outcome,
             handler'.group = handler.group,
             handler'.step \in {"mark", "complete"} => handler.step \in {"mark", "complete"}
      PROVE  LogOK'
  BY <1>0, <1>1, <1>3 DEF LogOK
<1>4. CASE UNCHANGED core
  <2>1. Written' = Written
    BY <1>4 DEF Written, Busy, core
  <2> QED BY <1>3, <1>4, <2>1 DEF core, data
<1>5. ASSUME NEW r \in Requests, ClaimSlot(r)
      PROVE  LogOK'
  <2>1. /\ handler' = handler /\ log' = log /\ doubt' = doubt /\ completed' = completed
        /\ processed' = processed
    BY <1>5 DEF ClaimSlot, data
  <2>2. Written' = Written
    BY <2>1 DEF Written, Busy
  <2>3. /\ DOMAIN claims \subseteq DOMAIN claims'
        /\ \A i \in DOMAIN claims : claims'[i] = claims[i]
        /\ \A i \in 1..Len(claims) : claims'[i] = claims[i]
    BY <1>5, ClaimFacts
  <2>4. \A q \in Range(log) \cup doubt : \E m \in 1..Written : claims'[m] = q
    <3>1. \A m \in 1..Written : claims'[m] = claims[m]
      BY <1>0, <1>b, <2>3
    <3> QED BY <1>0, <3>1 DEF LogOK
  <2>5. \A i, j \in DOMAIN log : i < j =>
          \E m, n \in DOMAIN claims' : m < n /\ claims'[m] = log[i] /\ claims'[n] = log[j]
    BY <1>0, <2>3 DEF LogOK, LogFollowsClaims
  <2>6. LogFollowsClaims'
    BY <2>1, <2>5 DEF LogFollowsClaims
  <2>7. \A q \in Range(log') \cup doubt' : \E m \in 1..Written' : claims'[m] = q
    BY <2>1, <2>2, <2>4
  <2> QED BY <1>0, <2>1, <2>6, <2>7 DEF LogOK
<1>6. ASSUME NEW r \in Requests, PublishSequence(r)
      PROVE  LogOK'
  <2>1. /\ handler' = handler /\ log' = log /\ doubt' = doubt /\ completed' = completed
        /\ processed' = processed /\ claims' = claims
    BY <1>6 DEF PublishSequence, data
  <2>2. Written' = Written
    BY <2>1 DEF Written, Busy
  <2> QED BY <1>3, <2>1, <2>2
<1>7. CASE TakeRange \/ Handle \/ AdvanceSequence \/ ProcessorExits
  <2>1. /\ log' = log /\ doubt' = doubt /\ completed' = completed /\ claims' = claims
    BY <1>7 DEF TakeRange, Handle, AdvanceSequence, ProcessorExits, ring, data
  <2>2. handler'.step \notin {"mark", "complete"}
    <3>1. CASE TakeRange
      BY <1>0, <3>1 DEF TakeRange, HandlerRecord
    <3>2. CASE Handle
      BY <3>2, HandleRecords
    <3>3. CASE AdvanceSequence \/ ProcessorExits
      BY <3>3 DEF AdvanceSequence, ProcessorExits, HandlerIdle
    <3> QED BY <1>7, <3>1, <3>2, <3>3
  <2>3. Written' = Written
    <3>1. ~\E k \in 1..BatchRecords : writeRequests(k)
      BY <2>2, WriteFacts
    <3> QED BY <3>1, WrittenMoves
  <2> QED BY <1>2, <2>1, <2>2, <2>3
<1>8. CASE MarkUnavailable
  <2>1. /\ log' = log /\ doubt' = doubt /\ completed' = completed /\ claims' = claims
        /\ handler.step = "mark" /\ handler' = [handler EXCEPT !.step = "complete"]
        /\ processed' = processed
    BY <1>8 DEF MarkUnavailable, ring, data
  <2>2. /\ handler'.group = handler.group /\ handler'.outcome = handler.outcome
        /\ handler'.at = handler.at /\ handler'.requests = handler.requests
        /\ handler'.step = "complete"
    BY <1>0, <2>1 DEF HandlerRecord
  <2>3. Written' = Written
    BY <2>1, <2>2 DEF Written, Busy
  <2> QED BY <1>3, <2>1, <2>2, <2>3
<1>9. CASE CompleteRequest
  <2>1. PICK r \in Requests :
           /\ r \in Range(handler.group)
           /\ completed' = [completed EXCEPT ![r] = handler.outcome]
    BY <1>9, CompleteFacts
  <2>2. /\ log' = log /\ doubt' = doubt /\ claims' = claims /\ handler.step = "complete"
    BY <1>9 DEF CompleteRequest, ring, data
  <2>3. /\ handler'.outcome = handler.outcome /\ Len(handler'.group) = Len(handler.group) - 1
        /\ \A i \in 1..(Len(handler.group) - 1) : handler'.group[i] = handler.group[i + 1]
        /\ handler'.at = handler.at /\ handler'.requests = handler.requests
        /\ handler'.group \in Seq(Requests) /\ handler.group \in Seq(Requests)
    BY <1>0, <1>9, CompleteHandler DEF HandlerRecord
  <2>4. Range(handler'.group) \subseteq Range(handler.group)
    <3> DEFINE new == handler'.group
               old == handler.group
    <3>1. /\ new \in Seq(Requests) /\ old \in Seq(Requests) /\ Len(new) = Len(old) - 1
          /\ \A i \in 1..(Len(old) - 1) : new[i] = old[i + 1]
      BY <2>3
    <3> HIDE DEF new, old
    <3>2. DOMAIN new = 1..(Len(old) - 1) /\ DOMAIN old = 1..Len(old)
      BY <3>1
    <3>3. \A i \in DOMAIN new : i + 1 \in DOMAIN old /\ new[i] = old[i + 1]
      BY <3>1, <3>2
    <3>4. Range(new) \subseteq Range(old)
      BY <3>3 DEF Range
    <3> QED BY <3>4 DEF new, old
  <2>5. Written' = Written
    <3>1. ~\E k \in 1..BatchRecords : writeRequests(k)
      BY <2>2 DEF writeRequests
    <3> QED BY <3>1, WrittenMoves
  <2>6. \A q \in Requests : completed'[q] = IF q = r THEN handler.outcome ELSE completed[q]
    BY <1>0, <2>1
  <2>7. /\ handler.outcome # None
        /\ handler.outcome = "ok" => Range(handler.group) \subseteq Range(log)
        /\ handler.outcome \in Refusals => Range(handler.group) \cap (Range(log) \cup doubt) = {}
    BY <1>0, <2>2 DEF LogOK
  <2>8. \A q \in Requests : /\ completed'[q] = "ok" => q \in Range(log)
                            /\ completed'[q] \in Refusals => q \notin Range(log) \cup doubt
    BY <1>0, <2>1, <2>6, <2>7 DEF LogOK
  <2> QED BY <1>1, <2>2, <2>3, <2>4, <2>5, <2>7, <2>8
<1>10. ASSUME NEW k \in 1..BatchRecords, writeRequests(k)
       PROVE  LogOK'
  BY <1>10, LogWrite
<1>11. ASSUME NEW c \in Closers, drainPending(c)
       PROVE  LogOK'
  <2>1. PICK s \in DOMAIN claims : completed' = [completed EXCEPT ![claims[s]] = "unknown"]
    BY <1>11, DrainFacts
  <2>2. UNCHANGED <<handler, claims, processed, log, doubt>>
    BY <1>11 DEF drainPending, data
  <2>3. Written' = Written
    BY <2>2 DEF Written, Busy
  <2>4. \A q \in Requests : completed'[q] = completed[q] \/ completed'[q] = "unknown"
    BY <1>0, <2>1
  <2>5. "unknown" # "ok" /\ "unknown" \notin Refusals
    BY DEF Refusals
  <2> QED BY <1>0, <1>1, <2>2, <2>3, <2>4, <2>5 DEF LogOK
<1> QED BY <1>4, <1>5, <1>6, <1>7, <1>8, <1>9, <1>10, <1>11, Frame DEF ProcessorStep

\* Nothing left in the ring, the processor gone and every publisher finished:
\* every claimed request has its result.
LEMMA DrainedIsComplete ==
  ASSUME IInv, handler.step = "exit", closing, Undrained = {}
  PROVE  \A i \in DOMAIN claims : completed[claims[i]] # None
<1> SUFFICES ASSUME NEW i \in DOMAIN claims, completed[claims[i]] = None PROVE FALSE
  OBVIOUS
<1>a. HandlerOK
  BY DEF IInv
<1>0. claims \in Seq(Requests) /\ processed \in Nat /\ claims[i] \in Requests
      /\ claims[i] \in Range(claims)
  BY ClaimsTyped
<1>1. Finished = processed /\ Taken = processed
  BY DEF Finished, Taken, Busy
<1>2. i > processed
  <2>1. \A j \in 1..processed : completed[claims[j]] # None
    BY <1>a, <1>1 DEF HandlerOK
  <2>2. i \in Nat \ {0}
    BY <1>0
  <2> QED BY <1>0, <2>1, <2>2
<1>3. pc[claims[i]] \notin Publishing
  BY <1>0 DEF IInv, ShutdownOK
<1>4. i \in published
  BY <1>3 DEF IInv, ClaimsOK, Publishing
<1>5. slots[Slot(i)] = claims[i]
  BY <1>1, <1>2, <1>4 DEF IInv, SlotsOK, InRing
<1>6. claims[i] # None
  BY <1>0, IngressAssumption DEF None
<1>7. i \in Undrained
  BY <1>0, <1>2, <1>5, <1>6 DEF Undrained
<1> QED BY <1>7

\* Every step keeps what calls returned equal to what was completed.
LEMMA ResultsStep == IInv /\ [Next]_vars => ResultsOK'
<1> SUFFICES ASSUME IInv, [Next]_vars PROVE ResultsOK'
  OBVIOUS
<1>0. /\ ResultsOK /\ pc \in [Requests -> Stages]
      /\ result \in [Requests -> Refusals \cup {"ok", "unknown", None}]
      /\ completed \in [Requests -> Outcomes \cup {None}]
  BY DEF IInv, Types
<1>c. None \notin Refusals \cup {"ok"} /\ "unknown" \notin Refusals \cup {"ok"} /\ "ok" \notin Refusals
  BY DEF None, Refusals
<1>d. \A r \in Requests : pc[r] \notin Entered \cup {"done"} => r \notin Range(claims)
  BY DEF IInv, ClaimsOK, Range
<1>1. ASSUME NEW r \in Requests, NEW x, claims' = claims, completed' = completed, result' = result,
             pc' = [pc EXCEPT ![r] = x],
             pc[r] \notin {"done", "finishFailed"} \/ x = "done"
      PROVE  ResultsOK'
  BY <1>0, <1>1 DEF ResultsOK
<1>2. ASSUME NEW r \in Requests, NEW x \in {"done", "finishFailed"}, NEW v, claims' = claims,
             completed' = completed, pc' = [pc EXCEPT ![r] = x],
             result' = [result EXCEPT ![r] = v],
             \/ v \in {completed[r], "unknown"}
             \/ pc[r] \notin Entered \cup {"done"} /\ v # "ok"
      PROVE  ResultsOK'
  BY <1>0, <1>2, <1>c, <1>d DEF ResultsOK
<1>3. ASSUME NEW r \in Requests, AppendCall(r) PROVE ResultsOK'
  BY <1>1, <1>2, <1>3 DEF AppendCall, Return, Goto, ring, Entered
<1>4. ASSUME NEW r \in Requests, admit(r) PROVE ResultsOK'
  BY <1>1, <1>2, <1>4 DEF admit, AdmitRefusal, Return, Goto, ring, Entered
<1>5. ASSUME NEW r \in Requests, admitWakes(r) PROVE ResultsOK'
  BY <1>1, <1>2, <1>5 DEF admitWakes, Return, Goto, ring, Entered
<1>6. ASSUME NEW r \in Requests, CheckContext(r) PROVE ResultsOK'
  BY <1>1, <1>2, <1>6 DEF CheckContext, Return, Goto, ring, Entered
<1>7. ASSUME NEW r \in Requests, enqueue(r) PROVE ResultsOK'
  BY <1>1, <1>2, <1>7 DEF enqueue, EnqueueRefusal, Return, Goto, ring, Entered
<1>8. ASSUME NEW r \in Requests, ClaimFails(r) PROVE ResultsOK'
  BY <1>1, <1>2, <1>8 DEF ClaimFails, Goto, ring, Entered
<1>9. ASSUME NEW r \in Requests, finishPublisher(r) PROVE ResultsOK'
  BY <1>1, <1>9 DEF finishPublisher, Goto, ring
<1>10. ASSUME NEW r \in Requests, waitResult(r) PROVE ResultsOK'
  BY <1>2, <1>10 DEF waitResult, Return, ring
<1>11. ASSUME NEW r \in Requests, PublishSequence(r) PROVE ResultsOK'
  BY <1>1, <1>11 DEF PublishSequence, Goto
<1>12. ASSUME NEW r \in Requests, ClaimSlot(r) PROVE ResultsOK'
  <2>1. /\ pc[r] = "publish" /\ pc' = [pc EXCEPT ![r] = "claimed"] /\ result' = result
        /\ completed' = completed
    BY <1>12 DEF ClaimSlot, Goto
  <2>2. Range(claims') = Range(claims) \cup {r}
    BY <1>12, ClaimFacts
  <2>3. result[r] = None
    BY <1>0, <2>1 DEF ResultsOK
  <2> QED BY <1>0, <1>c, <2>1, <2>2, <2>3 DEF ResultsOK
<1>13. ASSUME NEW r \in Requests, NEW v, pc' = pc, result' = result, claims' = claims,
              completed[r] = None, r \in Range(claims), completed' = [completed EXCEPT ![r] = v]
       PROVE  ResultsOK'
  BY <1>0, <1>13, <1>c DEF ResultsOK
<1>14. ASSUME pc' = pc, result' = result, claims' = claims, completed' = completed
       PROVE  ResultsOK'
  BY <1>0, <1>14 DEF ResultsOK
<1>15. CASE CompleteRequest
  <2>1. PICK r \in Requests :
           /\ r \in Range(claims) /\ completed[r] = None
           /\ completed' = [completed EXCEPT ![r] = handler.outcome]
    BY <1>15, CompleteFacts DEF Range
  <2> QED BY <1>13, <1>15, <2>1 DEF CompleteRequest, ring
<1>16. ASSUME NEW c \in Closers, drainPending(c) PROVE ResultsOK'
  <2>1. PICK s \in DOMAIN claims :
          /\ claims[s] \in Requests /\ completed[claims[s]] = None
          /\ completed' = [completed EXCEPT ![claims[s]] = "unknown"]
    BY <1>16, DrainFacts
  <2>2. claims[s] \in Range(claims)
    BY DEF Range
  <2> QED BY <1>13, <1>16, <2>1, <2>2 DEF drainPending
<1>17. CASE ProcessorStep /\ ~CompleteRequest
  BY <1>14, <1>17 DEF ProcessorStep, TakeRange, Handle, MarkUnavailable, AdvanceSequence,
     ProcessorExits, writeRequests, calls, ring
<1>18. ASSUME NEW c \in Closers, CloserStep(c) \/ closeWriter(c), ~drainPending(c)
       PROVE  ResultsOK'
  BY <1>14, <1>18 DEF CloserStep, closeWriter, StopReads, CloseRing, JoinProcessor, FinishClose,
     CloseReturns, calls, ring
<1>19. CASE StoreCloses \/ FetchFences \/ UNCHANGED vars \/ \E r \in Requests : Cancel(r)
  BY <1>14, <1>19 DEF StoreCloses, FetchFences, Cancel, vars, calls, ring
<1> QED BY <1>3, <1>4, <1>5, <1>6, <1>7, <1>8, <1>9, <1>10, <1>11, <1>12, <1>15, <1>16, <1>17,
           <1>18, <1>19 DEF Next, RequestStep

\* Every step keeps the order of the shutdown.
LEMMA ShutdownStep == IInv /\ Accounted /\ [Next]_vars => ShutdownOK'
<1> SUFFICES ASSUME IInv, Accounted, [Next]_vars PROVE ShutdownOK'
  OBVIOUS
<1>0. /\ ShutdownOK /\ pc \in [Requests -> Stages] /\ closer \in [Closers -> CloserSteps]
      /\ handler \in HandlerRecord /\ completed \in [Requests -> Outcomes \cup {None}]
      /\ claims \in Seq(Requests)
  BY DEF IInv, Types
\* A call moves: not into the publishers once closing is set.
<1>1. ASSUME NEW r \in Requests, NEW x, pc' = [pc EXCEPT ![r] = x],
             x \in Publishing => pc[r] \in Publishing \/ ~queueClosing,
             UNCHANGED <<claims, completed, handler, ringClosed, closing, closer, queueClosing,
                         queueClosed>>
      PROVE  ShutdownOK'
  BY <1>0, <1>1 DEF ShutdownOK
<1>2. ASSUME UNCHANGED <<pc, claims, completed, handler, ringClosed, closing, closer, queueClosing,
                         queueClosed>>
      PROVE  ShutdownOK'
  BY <1>0, <1>2 DEF ShutdownOK
<1>3. ASSUME NEW r \in Requests, AppendCall(r) PROVE ShutdownOK'
  BY <1>1, <1>3 DEF AppendCall, Return, Goto, ring, shutdown, Publishing
<1>4. ASSUME NEW r \in Requests, admit(r) PROVE ShutdownOK'
  BY <1>1, <1>4 DEF admit, Return, Goto, ring, shutdown, Publishing
<1>5. ASSUME NEW r \in Requests, admitWakes(r) PROVE ShutdownOK'
  BY <1>1, <1>5 DEF admitWakes, Return, Goto, ring, shutdown, Publishing
<1>6. ASSUME NEW r \in Requests, CheckContext(r) PROVE ShutdownOK'
  BY <1>1, <1>6 DEF CheckContext, Return, Goto, ring, shutdown, Publishing
<1>7. ASSUME NEW r \in Requests, enqueue(r) PROVE ShutdownOK'
  <2>1. EnqueueRefusal = None => ~queueClosing
    BY DEF EnqueueRefusal, None
  <2> QED BY <1>1, <1>7, <2>1 DEF enqueue, Return, Goto, ring, shutdown, Publishing
<1>8. ASSUME NEW r \in Requests, ClaimFails(r) PROVE ShutdownOK'
  BY <1>1, <1>8 DEF ClaimFails, Goto, ring, shutdown, Publishing
<1>9. ASSUME NEW r \in Requests, finishPublisher(r) PROVE ShutdownOK'
  BY <1>1, <1>9 DEF finishPublisher, Goto, ring, shutdown, Publishing
<1>10. ASSUME NEW r \in Requests, waitResult(r) PROVE ShutdownOK'
  BY <1>1, <1>10 DEF waitResult, Return, ring, shutdown, Publishing
<1>11. ASSUME NEW r \in Requests, PublishSequence(r) PROVE ShutdownOK'
  BY <1>1, <1>11 DEF PublishSequence, Goto, shutdown, Publishing
<1>12. ASSUME NEW r \in Requests, ClaimSlot(r) PROVE ShutdownOK'
  <2>1. /\ pc[r] = "publish" /\ pc' = [pc EXCEPT ![r] = "claimed"] /\ ~ringClosed
        /\ UNCHANGED <<completed, handler, ringClosed, closing, closer, queueClosing, queueClosed>>
    BY <1>12 DEF ClaimSlot, Goto, shutdown
  <2>2. ~closing /\ ~queueClosed
    BY <1>0, <2>1 DEF ShutdownOK, Publishing
  <2> QED BY <1>0, <2>1, <2>2 DEF ShutdownOK
\* Requests get their results; nothing else of the shutdown changes.
<1>13. ASSUME UNCHANGED <<pc, claims, handler, ringClosed, closing, closer, queueClosing,
                          queueClosed>>,
              \A i \in DOMAIN claims : completed[claims[i]] # None => completed'[claims[i]] # None
       PROVE  ShutdownOK'
  BY <1>0, <1>13 DEF ShutdownOK
\* The processor moves before it has exited, when the queue cannot be closed.
<1>14. ASSUME UNCHANGED <<pc, claims, ringClosed, closing, closer, queueClosing, queueClosed>>,
              handler.step # "exit", handler'.step = "exit" => ringClosed
       PROVE  ShutdownOK'
  BY <1>0, <1>14 DEF ShutdownOK
<1>15. CASE ProcessorStep
  <2>1. UNCHANGED <<pc, claims, ringClosed, closing, closer, queueClosing, queueClosed>>
    BY <1>15 DEF ProcessorStep, TakeRange, Handle, MarkUnavailable, CompleteRequest,
       AdvanceSequence, ProcessorExits, writeRequests, calls, ring, shutdown
  <2>2. handler.step # "exit"
    BY <1>15 DEF ProcessorStep, TakeRange, Handle, MarkUnavailable, CompleteRequest,
       AdvanceSequence, ProcessorExits, writeRequests
  <2>3. handler'.step = "exit" => ringClosed
    <3>1. CASE TakeRange
      BY <1>0, <3>1 DEF TakeRange, HandlerRecord
    <3>2. CASE Handle
      BY <3>2, HandleRecords
    <3>3. CASE MarkUnavailable
      BY <1>0, <3>3 DEF MarkUnavailable, HandlerRecord
    <3>4. CASE CompleteRequest
      <4>1. handler' = [handler EXCEPT !.group = Tail(@),
                     !.step = IF Len(handler.group) > 1 THEN "complete"
                              ELSE IF handler.requests # << >> THEN "write" ELSE "advance"]
        BY <3>4 DEF CompleteRequest
      <4> QED BY <1>0, <4>1 DEF HandlerRecord
    <3>5. CASE AdvanceSequence \/ ProcessorExits
      BY <3>5 DEF AdvanceSequence, ProcessorExits, HandlerIdle
    <3>6. ASSUME NEW k \in 1..BatchRecords, writeRequests(k)
          PROVE  handler'.step # "exit"
      BY <3>6, WriteFacts
    <3> QED BY <1>15, <3>1, <3>2, <3>3, <3>4, <3>5, <3>6 DEF ProcessorStep
  <2> QED BY <1>14, <2>1, <2>2, <2>3
<1>16. ASSUME NEW c \in Closers, drainPending(c) PROVE ShutdownOK'
  <2>1. PICK s \in DOMAIN claims :
          /\ claims[s] \in Requests /\ completed' = [completed EXCEPT ![claims[s]] = "unknown"]
    BY <1>16, DrainFacts
  <2>2. UNCHANGED <<pc, claims, handler, ringClosed, closing, closer, queueClosing, queueClosed>>
    BY <1>16 DEF drainPending, shutdown
  <2>3. \A i \in DOMAIN claims : completed[claims[i]] # None => completed'[claims[i]] # None
    BY <1>0, <2>1 DEF None
  <2> QED BY <1>13, <2>2, <2>3
<1>17. ASSUME NEW c \in Closers, closeWriter(c) PROVE ShutdownOK'
  <2>1. /\ UNCHANGED <<pc, claims, completed, handler, ringClosed, closing, queueClosed>>
        /\ closer[c] = "idle"
        /\ \/ queueClosed /\ closer' = [closer EXCEPT ![c] = "returned"] /\ queueClosing' = queueClosing
           \/ /\ ~queueClosed /\ queueClosing /\ closer' = [closer EXCEPT ![c] = "wait"]
              /\ queueClosing' = queueClosing
           \/ ~queueClosing /\ closer' = [closer EXCEPT ![c] = "publishers"] /\ queueClosing' = TRUE
    BY <1>17 DEF closeWriter, Step, ring
  <2>2. queueClosed => queueClosing
    BY <1>0 DEF ShutdownOK
  <2>3. ~queueClosing => \A d \in Closers : closer[d] = "idle"
    BY <1>0 DEF ShutdownOK
  <2>4. CASE queueClosed /\ closer' = [closer EXCEPT ![c] = "returned"] /\ queueClosing' = queueClosing
    BY <1>0, <2>1, <2>2, <2>4 DEF ShutdownOK, ActiveSteps
  <2>5. CASE /\ ~queueClosed /\ queueClosing /\ closer' = [closer EXCEPT ![c] = "wait"]
             /\ queueClosing' = queueClosing
    BY <1>0, <2>1, <2>5 DEF ShutdownOK, ActiveSteps
  <2>6. CASE ~queueClosing /\ closer' = [closer EXCEPT ![c] = "publishers"] /\ queueClosing' = TRUE
    BY <1>0, <2>1, <2>2, <2>3, <2>6 DEF ShutdownOK, ActiveSteps
  <2> QED BY <2>1, <2>4, <2>5, <2>6
<1>18. ASSUME NEW c \in Closers, StopReads(c) PROVE ShutdownOK'
  <2>1. /\ UNCHANGED <<pc, claims, completed, handler, ringClosed, queueClosing, queueClosed>>
        /\ closer[c] = "publishers" /\ publishing = 0 /\ closing' = TRUE
        /\ closer' = [closer EXCEPT ![c] = "ring"]
    BY <1>18 DEF StopReads, Step, calls, ring
  <2>2. \A r \in Requests : pc[r] \notin Publishing
    BY <2>1 DEF Accounted
  <2>3. queueClosing /\ ~queueClosed
    BY <1>0, <2>1 DEF ShutdownOK, ActiveSteps
  <2> QED BY <1>0, <2>1, <2>2, <2>3 DEF ShutdownOK, ActiveSteps
<1>19. ASSUME NEW c \in Closers, CloseRing(c) PROVE ShutdownOK'
  <2>1. /\ UNCHANGED <<pc, claims, completed, handler, closing, queueClosing, queueClosed>>
        /\ closer[c] = "ring" /\ ringClosed' = TRUE /\ closer' = [closer EXCEPT ![c] = "join"]
    BY <1>19 DEF CloseRing, Step, calls
  <2> QED BY <1>0, <2>1 DEF ShutdownOK, ActiveSteps
<1>20. ASSUME NEW c \in Closers, JoinProcessor(c) PROVE ShutdownOK'
  <2>1. /\ UNCHANGED <<pc, claims, completed, handler, ringClosed, closing, queueClosing, queueClosed>>
        /\ closer[c] = "join" /\ handler.step = "exit" /\ closer' = [closer EXCEPT ![c] = "drain"]
    BY <1>20 DEF JoinProcessor, Step, calls, ring
  <2> QED BY <1>0, <2>1 DEF ShutdownOK, ActiveSteps
<1>21. ASSUME NEW c \in Closers, FinishClose(c) PROVE ShutdownOK'
  <2>1. /\ UNCHANGED <<pc, claims, completed, handler, ringClosed, closing, queueClosing>>
        /\ closer[c] = "drain" /\ Undrained = {} /\ queueClosed' = TRUE
        /\ closer' = [closer EXCEPT ![c] = "returned"]
    BY <1>21 DEF FinishClose, Step, calls, ring
  <2>2. closing /\ queueClosing /\ handler.step = "exit" /\ ringClosed
    BY <1>0, <2>1 DEF ShutdownOK
  <2>3. \A i \in DOMAIN claims : completed[claims[i]] # None
    BY <2>1, <2>2, DrainedIsComplete
  <2>4. \A d \in Closers : d # c => closer[d] \notin ActiveSteps
    BY <1>0, <2>1 DEF ShutdownOK, ActiveSteps
  <2>5. \A d \in Closers : closer'[d] \notin ActiveSteps
    BY <1>0, <2>1, <2>4 DEF ActiveSteps
  <2>6. {"ring", "join", "drain"} \subseteq ActiveSteps
    BY DEF ActiveSteps
  <2> QED BY <1>0, <2>1, <2>2, <2>3, <2>5, <2>6 DEF ShutdownOK
<1>22. ASSUME NEW c \in Closers, CloseReturns(c) PROVE ShutdownOK'
  <2>1. /\ UNCHANGED <<pc, claims, completed, handler, ringClosed, closing, queueClosing, queueClosed>>
        /\ closer[c] = "wait" /\ queueClosed /\ closer' = [closer EXCEPT ![c] = "returned"]
    BY <1>22 DEF CloseReturns, Step, calls, ring
  <2> QED BY <1>0, <2>1 DEF ShutdownOK, ActiveSteps
<1>23. CASE StoreCloses \/ FetchFences \/ UNCHANGED vars \/ \E r \in Requests : Cancel(r)
  BY <1>2, <1>23 DEF StoreCloses, FetchFences, Cancel, vars, calls, ring, shutdown
<1> QED BY <1>3, <1>4, <1>5, <1>6, <1>7, <1>8, <1>9, <1>10, <1>11, <1>12, <1>15, <1>16, <1>17,
           <1>18, <1>19, <1>20, <1>21, <1>22, <1>23 DEF Next, RequestStep, CloserStep
=============================================================================
