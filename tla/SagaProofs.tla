------------------------------ MODULE SagaProofs ------------------------------
(***************************************************************************)
(* What holds of the saga for any number of bookings, calls, runs and      *)
(* crashes of either service.                                              *)
(***************************************************************************)
EXTENDS Saga, BookingProofs, FiniteSetTheorems

-----------------------------------------------------------------------------
(* The inductive invariant.                                                *)

\* A payment exists only for a booking that was announced.
Offered == \A b \in Bookings: pay[b].state # "none" => Published("booking.pending", b)

\* A call of pay between its read and its end knows what it pays for; what it
\* will announce as paid was charged, or is to be paid at the salon.
PayCallsInv ==
  /\ \A p \in Deliveries: ppc[p] \notin {"idle", "done"} =>
       pcall[p] \in P!PayCallTypes /\ Published("booking.pending", pcall[p].booking)
  /\ \A p \in charged: ppc[p] # "idle" /\ pcall[p] \in P!PayCallTypes
  /\ \A p \in Deliveries: ppc[p] = "charged" => p \in charged
  /\ \A p \in Deliveries: ppc[p] = "saved" => p \in charged \/ pcall[p].method = "pay_at_salon"

\* A reference to a charge is to one that was made, for this very booking.
OwnCharge(b, x) == x.ref \in Deliveries => x.ref \in charged /\ pcall[x.ref].booking = b

ChargesInv ==
  /\ \A b \in Bookings: OwnCharge(b, pay[b])
  /\ \A p \in Deliveries: ppc[p] \notin {"idle", "done"} => OwnCharge(pcall[p].booking, pcall[p].entity)
  /\ \A r \in runs: OwnCharge(r.event.booking, r.entity)

\* A message has one run, and none once it is acknowledged.
RunsInv ==
  /\ \A r, q \in runs: r.event = q.event => r = q
  /\ \A r \in runs: /\ r.event \notin acked
                    /\ P!Handler(r.event) # "none"
                    /\ Published("booking.pending", r.event.booking)

\* An outcome comes from a call of pay that has ended with it. Booking has
\* nothing in the name of a call before that.
OutcomesInv ==
  /\ \A e \in bus: e.rk \in PaymentKeys =>
       e.by \in Deliveries /\ pcall[e.by] \in P!PayCallTypes /\ e.booking = pcall[e.by].booking
  /\ \A e \in bus: e.by \in Deliveries /\ e.rk # "payment.refunded" => ppc[e.by] = "done"
  /\ \A m \in Deliveries: pc[m] # "idle" => ppc[m] = "done"

\* The requests to refund b that were answered by the gateway in this life of
\* the process, or are settled.
GivenBack(b) ==
  {e \in P!RefundRequests(b):
     e \in acked \/ \E r \in runs: r.event = e /\ r.step \in {"given_back", "saved"}}

\* Money that went back was taken; and it went back at most once per request
\* and life of the process.
RefundsInv ==
  \A p \in Deliveries: refunds[p] > 0 =>
    /\ p \in charged
    /\ refunds[p] <= payCrashes * Cardinality(P!RefundRequests(pcall[p].booking))
                       + Cardinality(GivenBack(pcall[p].booking))

PayInv ==
  /\ PayTypeOK /\ Offered /\ PayCallsInv /\ ChargesInv /\ RunsInv /\ OutcomesInv
  /\ CompletedIsCharged /\ RefundsInv /\ IsFiniteSet(bus)

SagaInv == TypeInv /\ PaidInv /\ PayInv

-----------------------------------------------------------------------------
(* Lemmas about the exchange and the counts.                               *)

\* Payment counts as Booking does.
LEMMA SameCardinality == ASSUME NEW S PROVE P!Cardinality(S) = Cardinality(S)
BY DEF P!Cardinality, Cardinality

\* More requests, or more lives, allow for more refunds.
LEMMA BoundGrows ==
  ASSUME NEW n \in Nat, NEW c \in Nat, NEW d \in Nat, NEW q \in Nat, NEW r \in Nat, NEW g \in Nat, NEW h \in Nat,
         n <= c * q + g, c <= d, q <= r, g <= h
  PROVE  n <= d * r + h
<1>1. c * q <= c * r
  OBVIOUS
<1>2. c * r <= d * r
  OBVIOUS
<1>3. c * q \in Nat /\ c * r \in Nat /\ d * r \in Nat
  OBVIOUS
<1> QED
  BY <1>1, <1>2, <1>3

LEMMA AnnouncedFinite ==
  ASSUME NEW w \in Workers, call[w].op \in Ops
  PROVE  IsFiniteSet(Announced(w))
<1> DEFINE E(rk) == Event(rk, call[w].booking, w, IF rk = "slot.freed" THEN call[w].op ELSE "-")
<1>1. PICK k, l: RoutingKeys(call[w].op, call[w].entity) \subseteq {k, l}
  <2>1. CASE call[w].op \in ReleaseOps
    BY <2>1 DEF RoutingKeys, ReleaseOps
  <2>2. CASE call[w].op \in {"confirm", "complete", "no_show"}
    BY <2>2 DEF RoutingKeys
  <2> QED
    BY <2>1, <2>2 DEF Ops, RequestOps, OutcomeOps, ReleaseOps
<1>2. Announced(w) \subseteq {E(k)} \cup {E(l)}
  BY <1>1 DEF Announced
<1>3. IsFiniteSet({E(k)} \cup {E(l)})
  BY FS_Singleton, FS_Union
<1> QED
  BY <1>2, <1>3, FS_Subset

LEMMA BoundOutlives ==
  ASSUME NEW n \in Nat, NEW c \in Nat, NEW q \in Nat, NEW r \in Nat, NEW g \in Nat, NEW h \in Nat,
         n <= c * q + g, g <= q, q <= r
  PROVE  n <= (c + 1) * r + h
<1>1. n <= c * r + r
  BY BoundGrows
<1>2. (c + 1) * r = c * r + r
  OBVIOUS
<1>3. n <= (c + 1) * r
  BY <1>1, <1>2
<1> DEFINE m == (c + 1) * r
<1>4. m \in Nat
  OBVIOUS
<1> HIDE DEF m
<1>5. n <= m + h
  BY <1>3, <1>4 DEF m
<1> QED
  BY <1>5 DEF m

\* The booking service publishes finitely many events of its own at once, in
\* the name of a call or of a worker that has something to do.
LEMMA ServiceAdds ==
  ASSUME TypeInv, ServiceNext
  PROVE  /\ bus \subseteq bus'
         /\ \A e \in bus' \ bus: /\ e.rk \in BookingKeys
                                 /\ e.by \in Deliveries => pc[e.by] # "idle"
         /\ IsFiniteSet(bus) => IsFiniteSet(bus')
<1>1. CASE UNCHANGED bus
  BY <1>1
<1>2. ASSUME NEW b \in Bookings, PublishPending(b)
      PROVE  /\ bus \subseteq bus'
             /\ \A e \in bus' \ bus: /\ e.rk \in BookingKeys
                                     /\ e.by \in Deliveries => pc[e.by] # "idle"
             /\ IsFiniteSet(bus) => IsFiniteSet(bus')
  <2>1. bus' = bus \cup {Event("booking.pending", b, b, "-")}
    BY <1>2 DEF PublishPending
  <2>2. b \notin Deliveries
    BY NamesDiffer DEF Workers
  <2> QED
    BY <2>1, <2>2, FS_AddElement DEF Event, BookingKeys
<1>3. ASSUME NEW w \in Workers, Publish(w)
      PROVE  /\ bus \subseteq bus'
             /\ \A e \in bus' \ bus: /\ e.rk \in BookingKeys
                                     /\ e.by \in Deliveries => pc[e.by] # "idle"
             /\ IsFiniteSet(bus) => IsFiniteSet(bus')
  <2> DEFINE keys == RoutingKeys(call[w].op, call[w].entity)
  <2>1. pc[w] = "unlocked" /\ call[w] \in Calls /\ bus' = bus \cup Announced(w)
    BY <1>3 DEF Publish, TypeInv, CallsLoaded, Busy
  <2>2. keys \subseteq BookingKeys
    BY <2>1, AnnouncedKeys DEF Calls
  <2>3. \A e \in Announced(w): e.rk \in BookingKeys /\ e.by = w
    BY <2>2 DEF Announced, Event
  <2>6. IsFiniteSet(Announced(w))
    BY <2>1, AnnouncedFinite DEF Calls
  <2> QED
    BY <2>1, <2>3, <2>6, FS_Union
<1> QED
  BY <1>1, <1>2, <1>3
  DEF ServiceNext, Create, RejectCreate, AcquireLock, LockTaken, LockStranded, CheckConflict, Insert,
      TransactionFails, PublishPendingThrows, ReleaseAfterFailure, DeadlinePasses, Work, Save,
      SaveFails, ReleaseLock, PublishThrows, HandleRequest, HandleOutcome, FindExpired, NextExpired,
      LockExpires, Crash

\* Booking starts to work in the name of a call of pay only with its outcome.
LEMMA ServiceStarts ==
  ASSUME TypeInv, ServiceNext, NEW m \in Deliveries, pc'[m] # "idle"
  PROVE  \/ pc[m] # "idle"
         \/ \E e \in bus: e.rk \in PaymentKeys /\ e.by = m
<1> USE NamesDiffer
<1> m \in Workers
  BY DEF Workers
<1>1. CASE UNCHANGED pc
  BY <1>1
<1>2. ASSUME NEW w \in Workers, Work(w)
      PROVE  pc[m] # "idle"
  BY <1>2 DEF Work, Save, SaveFails, ReleaseLock, Publish, PublishThrows, Die, Abort, TypeInv, TypeOK
<1>3. ASSUME NEW w \in Requests, HandleRequest(w)
      PROVE  pc[m] # "idle"
  BY <1>3 DEF HandleRequest, Load, TypeInv, TypeOK
<1>4. ASSUME NEW n \in Deliveries, HandleOutcome(n)
      PROVE  \/ pc[m] # "idle"
             \/ \E e \in bus: e.rk \in PaymentKeys /\ e.by = m
  BY <1>4 DEF HandleOutcome, Load, TypeInv, TypeOK
<1>5. ASSUME NEW w \in Sweeps, FindExpired(w) \/ NextExpired(w)
      PROVE  pc[m] # "idle"
  BY <1>5 DEF FindExpired, NextExpired, Load, TypeInv, TypeOK
<1>6. CASE Crash
  BY <1>6 DEF Crash, Die, TypeInv, TypeOK
<1> QED
  BY <1>1, <1>2, <1>3, <1>4, <1>5, <1>6
  DEF ServiceNext, Create, RejectCreate, AcquireLock, LockTaken, LockStranded, CheckConflict, Insert,
      TransactionFails, PublishPending, PublishPendingThrows, ReleaseAfterFailure, DeadlinePasses,
      LockExpires

LEMMA Counts ==
  ASSUME IsFiniteSet(bus), NEW b
  PROVE  /\ IsFiniteSet(P!RefundRequests(b)) /\ Cardinality(P!RefundRequests(b)) \in Nat
         /\ IsFiniteSet(GivenBack(b)) /\ Cardinality(GivenBack(b)) \in Nat
         /\ Cardinality(GivenBack(b)) <= Cardinality(P!RefundRequests(b))
<1>1. P!RefundRequests(b) \subseteq bus /\ GivenBack(b) \subseteq P!RefundRequests(b)
  BY DEF P!RefundRequests, GivenBack
<1>2. IsFiniteSet(P!RefundRequests(b))
  BY <1>1, FS_Subset
<1>3. IsFiniteSet(GivenBack(b)) /\ Cardinality(GivenBack(b)) <= Cardinality(P!RefundRequests(b))
  BY <1>1, <1>2, FS_Subset
<1> QED
  BY <1>2, <1>3, FS_CardinalityType

\* Steps that give no money back: requests and answers only become more, or
\* the answers of a whole life are counted with the process that has died.
LEMMA RefundsKept ==
  ASSUME PayInv, IsFiniteSet(bus'), bus \subseteq bus', UNCHANGED refunds, charged \subseteq charged',
         \A p \in charged: pcall'[p] = pcall[p],
         \/ payCrashes' = payCrashes /\ \A b: GivenBack(b) \subseteq GivenBack(b)'
         \/ payCrashes' = payCrashes + 1 /\ \A b: GivenBack(b)' \subseteq P!RefundRequests(b)'
  PROVE  RefundsInv'
<1> SUFFICES ASSUME NEW p \in Deliveries, refunds[p] > 0, NEW b, b = pcall'[p].booking
             PROVE  /\ p \in charged'
                    /\ refunds[p] <= payCrashes' * Cardinality(P!RefundRequests(b)')
                                       + Cardinality(GivenBack(b)')
  BY Zenon DEF RefundsInv
<1> DEFINE q == Cardinality(P!RefundRequests(b))
           r == Cardinality(P!RefundRequests(b)')
           g == Cardinality(GivenBack(b))
           h == Cardinality(GivenBack(b)')
<1>1. p \in charged' /\ refunds[p] <= payCrashes * q + g
  BY DEF PayInv, RefundsInv
<1>2. refunds[p] \in Nat /\ payCrashes \in Nat
  BY PayFaultsKnown DEF PayInv, PayTypeOK, P!PayTypeOK
<1>3. q \in Nat /\ g \in Nat /\ g <= q
  BY Counts DEF PayInv
<1>4. r \in Nat /\ h \in Nat
  <2>1. P!RefundRequests(b)' \subseteq bus' /\ GivenBack(b)' \subseteq P!RefundRequests(b)'
    BY DEF P!RefundRequests, GivenBack
  <2>2. IsFiniteSet(P!RefundRequests(b)') /\ IsFiniteSet(GivenBack(b)')
    BY <2>1, FS_Subset
  <2> QED
    BY <2>2, FS_CardinalityType
<1>5. q <= r
  <2>1. P!RefundRequests(b) \subseteq P!RefundRequests(b)'
    BY DEF P!RefundRequests
  <2>2. P!RefundRequests(b)' \subseteq bus'
    BY DEF P!RefundRequests
  <2>3. IsFiniteSet(P!RefundRequests(b)')
    BY <2>2, FS_Subset
  <2> QED
    BY <2>1, <2>3, FS_Subset
<1>6. CASE payCrashes' = payCrashes /\ GivenBack(b) \subseteq GivenBack(b)'
  <2>1. GivenBack(b)' \subseteq bus'
    BY DEF GivenBack, P!RefundRequests
  <2>2. IsFiniteSet(GivenBack(b)')
    BY <2>1, FS_Subset
  <2>3. g <= h
    BY <1>6, <2>2, FS_Subset
  <2>4. refunds[p] <= payCrashes' * r + h
    BY <1>1, <1>2, <1>3, <1>4, <1>5, <1>6, <2>3, BoundGrows
  <2> QED
    BY <1>1, <2>4
<1>7. CASE payCrashes' = payCrashes + 1
  <2>1. refunds[p] <= payCrashes' * r + h
    BY <1>1, <1>2, <1>3, <1>4, <1>5, <1>7, BoundOutlives
  <2> QED
    BY <1>1, <2>1
<1> QED
  BY <1>6, <1>7

-----------------------------------------------------------------------------
(* Steps of Booking: the exchange grows, and nothing in it is an outcome.  *)

LEMMA ServiceKeepsPayInv ==
  ASSUME TypeInv, PayInv, ServiceNext, UNCHANGED paymentVars
  PROVE  PayInv'
<1>1. /\ bus \subseteq bus' /\ IsFiniteSet(bus')
      /\ \A e \in bus' \ bus: /\ e.rk \in BookingKeys
                              /\ e.by \in Deliveries => pc[e.by] # "idle"
  BY ServiceAdds DEF PayInv
<1>2. UNCHANGED <<pay, ppc, pcall, runs, acked, charged, refunds, payCrashes>>
  BY DEF paymentVars
<1>3. PayTypeOK'
  BY <1>1, <1>2 DEF PayInv, PayTypeOK, P!PayTypeOK
<1>4. Offered' /\ PayCallsInv'
  BY <1>1, <1>2 DEF PayInv, Offered, PayCallsInv, Published, PublishedOn
<1>5. ChargesInv'
  BY <1>2 DEF PayInv, ChargesInv, OwnCharge
<1>6. RunsInv'
  BY <1>1, <1>2 DEF PayInv, RunsInv, Published, PublishedOn
<1>7. OutcomesInv'
  <2>1. \A e \in bus': e.rk \in PaymentKeys => e \in bus
    BY <1>1 DEF PaymentKeys, BookingKeys
  <2>2. \A e \in bus': e.by \in Deliveries /\ e.rk # "payment.refunded" => ppc[e.by] = "done"
    BY <1>1 DEF PayInv, OutcomesInv
  <2>3. \A m \in Deliveries: pc'[m] # "idle" => ppc[m] = "done"
    BY ServiceStarts DEF PayInv, OutcomesInv, PaymentKeys
  <2> QED
    BY <1>2, <2>1, <2>2, <2>3 DEF PayInv, OutcomesInv
<1>8. CompletedIsCharged'
  BY <1>1, <1>2 DEF PayInv, CompletedIsCharged, P!CompletedIsCharged, BookingKeys
<1>9. RefundsInv'
  <2>1. \A b: GivenBack(b) \subseteq GivenBack(b)'
    BY <1>1, <1>2 DEF GivenBack, P!RefundRequests
  <2> QED
    BY <1>1, <1>2, <2>1, RefundsKept
<1> QED
  BY <1>1, <1>3, <1>4, <1>5, <1>6, <1>7, <1>8, <1>9 DEF PayInv

-----------------------------------------------------------------------------
(* Steps of a call of pay.                                                 *)

LEMMA PayReadKeeps ==
  ASSUME PayInv, NEW p \in Deliveries, P!PayRead(p), UNCHANGED pc
  PROVE  PayInv'
<1>1. /\ UNCHANGED <<pay, runs, acked, charged, refunds, bus, payCrashes, pc>>
      /\ ppc[p] = "idle" /\ p \notin charged
  BY DEF P!PayRead, PayInv, PayCallsInv
<1>2. PICK b \in Bookings, m \in P!Methods:
        /\ pay[b].state # "none"
        /\ IF pay[b].state = "pending"
             THEN /\ ppc' = [ppc EXCEPT ![p] = "loaded"]
                  /\ pcall' = [pcall EXCEPT ![p] =
                       [method |-> m, booking |-> b, entity |-> pay[b]]]
             ELSE ppc' = [ppc EXCEPT ![p] = "done"] /\ UNCHANGED pcall
  BY DEF P!PayRead
<1>3. [method |-> m, booking |-> b, entity |-> pay[b]] \in P!PayCallTypes
  BY DEF PayInv, PayTypeOK, P!PayTypeOK, P!PayCallTypes
<1>4. \A q \in Deliveries \ {p}: ppc'[q] = ppc[q] /\ pcall'[q] = pcall[q]
  BY <1>2 DEF PayInv, PayTypeOK, P!PayTypeOK
<1>5. \/ ppc'[p] = "done"
      \/ ppc'[p] = "loaded" /\ pcall'[p] = [method |-> m, booking |-> b, entity |-> pay[b]]
  BY <1>2 DEF PayInv, PayTypeOK, P!PayTypeOK
<1>6. charged \subseteq Deliveries
  BY DEF PayInv, PayTypeOK, P!PayTypeOK
<1>7. PayTypeOK'
  BY <1>1, <1>2, <1>3 DEF PayInv, PayTypeOK, P!PayTypeOK
<1>8. Published("booking.pending", b)
  BY <1>2 DEF PayInv, Offered
<1>9. Offered' /\ PayCallsInv'
  BY <1>1, <1>3, <1>4, <1>5, <1>6, <1>8 DEF PayInv, Offered, PayCallsInv, Published, PublishedOn
<1>10. ChargesInv'
  BY <1>1, <1>4, <1>5 DEF PayInv, ChargesInv, OwnCharge
<1>11. RunsInv'
  BY <1>1 DEF PayInv, RunsInv, Published, PublishedOn
<1>12. OutcomesInv'
  <2>1. \A e \in bus: e.rk \in PaymentKeys => e.by # p
    BY <1>1 DEF PayInv, OutcomesInv, PaymentKeys
  <2> QED
    BY <1>1, <1>4, <2>1 DEF PayInv, OutcomesInv
<1>13. CompletedIsCharged'
  <2>1. \A e \in bus: e.rk = "payment.completed" => e.by \in Deliveries \ {p}
    BY <1>1 DEF PayInv, OutcomesInv, PaymentKeys
  <2> QED
    BY <1>1, <1>4, <2>1 DEF PayInv, CompletedIsCharged, P!CompletedIsCharged
<1>14. RefundsInv'
  <2>1. \A c: GivenBack(c) \subseteq GivenBack(c)'
    BY <1>1 DEF GivenBack, P!RefundRequests
  <2> QED
    BY <1>1, <1>4, <1>6, <2>1, RefundsKept DEF PayInv
<1> QED
  BY <1>1, <1>7, <1>9, <1>10, <1>11, <1>12, <1>13, <1>14 DEF PayInv

\* The later steps of a call leave what it has read alone.
LEMMA PayMovesKeeps ==
  ASSUME TypeInv, PayInv, NEW p \in Deliveries, UNCHANGED pc,
         P!Charge(p) \/ P!PaySave(p) \/ P!PayPublish(p) \/ P!PayThrows(p)
  PROVE  PayInv'
<1> DEFINE b == pcall[p].booking
<1>1. /\ UNCHANGED <<pcall, runs, acked, refunds, payCrashes, pc>>
      /\ ppc[p] \notin {"idle", "done"}
      /\ charged \subseteq charged' /\ charged' \subseteq Deliveries
      /\ charged' \subseteq charged \cup {p}
      /\ \A q \in Deliveries \ {p}: ppc'[q] = ppc[q]
      /\ ppc'[p] \in {"charged", "declined", "saved", "saved_failed", "done"}
  BY DEF P!Charge, P!PaySave, P!PayPublish, P!PayThrows, P!ReadyToSave, PayInv, PayTypeOK, P!PayTypeOK
<1>2. pcall[p] \in P!PayCallTypes /\ b \in Bookings /\ Published("booking.pending", b)
  BY <1>1 DEF PayInv, PayCallsInv, P!PayCallTypes
<1>3. /\ bus \subseteq bus' /\ IsFiniteSet(bus')
      /\ \A e \in bus' \ bus: /\ ppc[p] \in {"saved", "saved_failed"} /\ ppc'[p] = "done"
                              /\ e = Event(IF ppc[p] = "saved" THEN "payment.completed" ELSE "payment.failed", b, p, "-")
  <2>1. CASE P!PayPublish(p)
    BY <1>1, <2>1, FS_AddElement DEF P!PayPublish, P!Event, Event, PayInv, PayTypeOK, P!PayTypeOK
  <2>2. CASE UNCHANGED bus
    BY <2>2 DEF PayInv
  <2> QED
    BY <2>1, <2>2 DEF P!Charge, P!PaySave, P!PayThrows
<1>4. pay' = pay \/ (P!ReadyToSave(p) /\ pay' = [pay EXCEPT ![b] = P!Result(p)])
  BY DEF P!Charge, P!PaySave, P!PayPublish, P!PayThrows
<1>5. P!ReadyToSave(p) => /\ P!Result(p) \in P!PayRows /\ P!Result(p).state # "none"
                          /\ OwnCharge(b, P!Result(p))
  <2> SUFFICES ASSUME P!ReadyToSave(p)
               PROVE  /\ P!Result(p) \in P!PayRows /\ P!Result(p).state # "none"
                      /\ OwnCharge(b, P!Result(p))
    OBVIOUS
  <2>1. CASE ppc[p] = "declined"
    <3>1. P!Result(p) = [pcall[p].entity EXCEPT !.state = "failed"] /\ pcall[p].entity \in P!PayRows
      BY <1>2, <2>1 DEF P!Result, P!PayCallTypes
    <3>2. P!Result(p).state = "failed" /\ P!Result(p).ref = pcall[p].entity.ref /\ P!Result(p) \in P!PayRows
      BY <3>1 DEF P!PayRows, P!States
    <3>3. OwnCharge(b, pcall[p].entity)
      BY <1>1 DEF PayInv, ChargesInv
    <3> QED
      BY <3>2, <3>3 DEF OwnCharge
  <2>2. CASE ppc[p] = "charged"
    BY <2>2 DEF P!Result, P!PayRows, P!States, OwnCharge, PayInv, PayCallsInv
  <2>3. CASE ppc[p] = "loaded"
    BY <2>3, PayRefsDiffer DEF P!Result, P!PayRows, P!States, OwnCharge
  <2> QED
    BY <2>1, <2>2, <2>3 DEF P!ReadyToSave
<1>6. PayTypeOK'
  <2>1. pay' \in [Bookings -> P!PayRows]
    BY <1>4, <1>5 DEF PayInv, PayTypeOK, P!PayTypeOK
  <2>2. ppc' \in [Deliveries -> {"idle", "loaded", "charged", "declined", "saved", "saved_failed", "done"}]
    BY DEF P!Charge, P!PaySave, P!PayPublish, P!PayThrows, PayInv, PayTypeOK, P!PayTypeOK
  <2> QED
    BY <1>1, <1>3, <2>1, <2>2 DEF PayInv, PayTypeOK, P!PayTypeOK
<1>7. Offered'
  BY <1>2, <1>3, <1>4, <1>5 DEF PayInv, Offered, Published, PublishedOn, PayTypeOK, P!PayTypeOK
<1>8. PayCallsInv'
  <2>1. ppc'[p] = "charged" => p \in charged'
    BY <1>1 DEF P!Charge, P!PaySave, P!PayPublish, P!PayThrows, PayInv, PayTypeOK, P!PayTypeOK
  <2>2. ppc'[p] = "saved" => p \in charged \/ pcall[p].method = "pay_at_salon"
    BY <1>1 DEF P!Charge, P!PaySave, P!PayPublish, P!PayThrows, P!ReadyToSave, PayInv, PayTypeOK, P!PayTypeOK,
                PayCallsInv
  <2>3. \A q \in Deliveries: Published("booking.pending", pcall[q].booking) => Published("booking.pending", pcall[q].booking)'
    BY <1>1, <1>3 DEF Published, PublishedOn
  <2> QED
    BY <1>1, <1>2, <2>1, <2>2, <2>3 DEF PayInv, PayCallsInv
<1>9. ChargesInv'
  <2>1. \A c \in Bookings: OwnCharge(c, pay'[c])
    BY <1>4, <1>5 DEF PayInv, ChargesInv, PayTypeOK, P!PayTypeOK
  <2> QED
    BY <1>1, <2>1 DEF PayInv, ChargesInv, OwnCharge
<1>10. RunsInv'
  BY <1>1, <1>3 DEF PayInv, RunsInv, Published, PublishedOn
<1>11. OutcomesInv'
  <2>1. \A e \in bus': e.rk \in PaymentKeys => e.by \in Deliveries /\ e.booking = pcall[e.by].booking
                                             /\ pcall[e.by] \in P!PayCallTypes
    BY <1>2, <1>3 DEF PayInv, OutcomesInv, Event
  <2>2. \A e \in bus': e.by \in Deliveries /\ e.rk # "payment.refunded" => ppc'[e.by] = "done"
    BY <1>1, <1>3 DEF PayInv, OutcomesInv, Event
  <2>3. \A m \in Deliveries: pc[m] # "idle" => ppc'[m] = "done"
    BY <1>1 DEF PayInv, OutcomesInv
  <2> QED
    BY <1>1, <2>1, <2>2, <2>3 DEF OutcomesInv
<1>12. CompletedIsCharged'
  <2>1. \A e \in bus' \ bus: e.rk = "payment.completed" => e.by \in charged \/ pcall[e.by].method = "pay_at_salon"
    BY <1>3 DEF Event, PayInv, PayCallsInv
  <2> QED
    BY <1>1, <2>1 DEF PayInv, CompletedIsCharged, P!CompletedIsCharged
<1>13. RefundsInv'
  <2>1. \A c: GivenBack(c) \subseteq GivenBack(c)'
    BY <1>1, <1>3 DEF GivenBack, P!RefundRequests
  <2> QED
    BY <1>1, <1>3, <2>1, RefundsKept
<1> QED
  BY <1>3, <1>6, <1>7, <1>8, <1>9, <1>10, <1>11, <1>12, <1>13 DEF PayInv

-----------------------------------------------------------------------------
(* Steps of a handler run.                                                 *)

\* A message is taken at most once at a time, and only where it is of use.
LEMMA TakeKeeps ==
  ASSUME TypeInv, PayInv, NEW e \in bus, P!Take(e), UNCHANGED pc
  PROVE  PayInv'
<1> DEFINE run == [event |-> e, step |-> "loaded", entity |-> pay[e.booking]]
<1>1. UNCHANGED <<pay, ppc, pcall, charged, refunds, bus, payCrashes, pc>> /\ P!Pending(e)
  BY DEF P!Take
<1>2. e.booking \in Bookings
  BY DEF TypeInv, TypeOK, Events
<1>3. \/ P!Needed(P!Handler(e), pay[e.booking].state) /\ runs' = runs \cup {run} /\ acked' = acked
      \/ runs' = runs /\ acked' = acked \cup {e}
  BY DEF P!Take
<1>4. P!Needed(P!Handler(e), pay[e.booking].state) =>
        P!Handler(e) # "none" /\ Published("booking.pending", e.booking)
  <2>1. P!Handler(e) = "onBookingPending" => Published("booking.pending", e.booking)
    BY DEF P!Handler, Published, PublishedOn
  <2>2. pay[e.booking].state # "none" => Published("booking.pending", e.booking)
    BY <1>2 DEF PayInv, Offered
  <2> QED
    BY <2>1, <2>2 DEF P!Needed
<1>5. PayTypeOK'
  BY <1>1, <1>2, <1>3 DEF PayInv, PayTypeOK, P!PayTypeOK
<1>6. Offered' /\ PayCallsInv' /\ OutcomesInv' /\ CompletedIsCharged'
  BY <1>1 DEF PayInv, Offered, PayCallsInv, OutcomesInv, CompletedIsCharged, P!CompletedIsCharged, Published, PublishedOn
<1>7. ChargesInv'
  BY <1>1, <1>2, <1>3 DEF PayInv, ChargesInv, OwnCharge
<1>8. RunsInv'
  BY <1>1, <1>3, <1>4 DEF PayInv, RunsInv, P!Pending, Published, PublishedOn
<1>9. RefundsInv'
  <2>1. \A c: GivenBack(c) \subseteq GivenBack(c)'
    BY <1>1, <1>3 DEF GivenBack, P!RefundRequests
  <2> QED
    BY <1>1, <2>1, RefundsKept DEF PayInv
<1> QED
  BY <1>1, <1>5, <1>6, <1>7, <1>8, <1>9 DEF PayInv

\* What a run saves is a payment of its booking, and one that exists.
LEMMA OutcomeRow ==
  ASSUME PayInv, NEW r \in runs
  PROVE  LET o == P!Outcome(P!Handler(r.event), r.entity)
         IN  o \in P!PayRows /\ o.state # "none" /\ OwnCharge(r.event.booking, o)
<1> DEFINE h == P!Handler(r.event)  o == P!Outcome(h, r.entity)
<1>1. h \in {"onBookingPending", "refund", "failPending"}
  BY DEF PayInv, RunsInv, P!Handler
<1>2. r.entity \in P!PayRows /\ OwnCharge(r.event.booking, r.entity)
  BY DEF PayInv, PayTypeOK, P!PayTypeOK, ChargesInv
<1>3. o.state \in P!States /\ o.ref = r.entity.ref /\ o \in P!PayRows
  <2>1. CASE h = "onBookingPending"
    BY <1>2, <2>1 DEF P!Outcome, P!PayRows, P!States
  <2>2. CASE h = "refund"
    BY <1>2, <2>2 DEF P!Outcome, P!PayRows, P!States
  <2>3. CASE h = "failPending"
    BY <1>2, <2>3 DEF P!Outcome, P!PayRows, P!States
  <2> QED
    BY <1>1, <2>1, <2>2, <2>3
<1> QED
  BY <1>2, <1>3 DEF OwnCharge, P!States

\* A run that goes on stays the run of its message.
LEMMA AdvanceKeeps ==
  ASSUME PayInv, NEW r \in runs, NEW step \in {"given_back", "saved"}, P!Advance(r, step), acked' = acked
  PROVE  /\ runs' \subseteq [event: bus, step: {"loaded", "given_back", "saved"}, entity: P!PayRows]
         /\ \A q, v \in runs': q.event = v.event => q = v
         /\ \A q \in runs': q \in runs \/ (q.event = r.event /\ q.entity = r.entity /\ q.step = step)
         /\ \A q \in runs: q \in runs' \/ q.event = r.event
         /\ \E q \in runs': q.event = r.event /\ q.step = step
         /\ \A c: GivenBack(c) \subseteq {e \in P!RefundRequests(c):
                      e \in acked \/ \E q \in runs': q.event = e /\ q.step \in {"given_back", "saved"}}
<1> DEFINE n == [r EXCEPT !.step = step]
<1>1. runs' = (runs \ {r}) \cup {n}
  BY DEF P!Advance
<1>2. /\ r \in [event: bus, step: {"loaded", "given_back", "saved"}, entity: P!PayRows]
      /\ runs \subseteq [event: bus, step: {"loaded", "given_back", "saved"}, entity: P!PayRows]
  BY DEF PayInv, PayTypeOK, P!PayTypeOK
<1>3. n.event = r.event /\ n.entity = r.entity /\ n.step = step
      /\ n \in [event: bus, step: {"loaded", "given_back", "saved"}, entity: P!PayRows]
  BY <1>2
<1>4. \A q, v \in runs: q.event = v.event => q = v
  BY DEF PayInv, RunsInv
<1> HIDE DEF n
<1>5. \A c: GivenBack(c) \subseteq {e \in P!RefundRequests(c):
                      e \in acked \/ \E q \in runs': q.event = e /\ q.step \in {"given_back", "saved"}}
  BY <1>1, <1>3 DEF GivenBack
<1> QED
  BY <1>1, <1>2, <1>3, <1>4, <1>5

\* Saving and giving back are steps of one run.
LEMMA RunMovesKeeps ==
  ASSUME TypeInv, PayInv, NEW r \in runs, P!RefundCharge(r) \/ P!SaveRun(r), UNCHANGED pc
  PROVE  PayInv'
<1>1. PICK step \in {"given_back", "saved"}: P!Advance(r, step)
  BY DEF P!RefundCharge, P!SaveRun
<1>2. UNCHANGED <<ppc, pcall, acked, charged, bus, payCrashes, pc>>
  BY DEF P!RefundCharge, P!SaveRun
<1>3. /\ runs' \subseteq [event: bus, step: {"loaded", "given_back", "saved"}, entity: P!PayRows]
      /\ \A q, v \in runs': q.event = v.event => q = v
      /\ \A q \in runs': q \in runs \/ (q.event = r.event /\ q.entity = r.entity /\ q.step = step)
  BY <1>1, <1>2, AdvanceKeeps
<1>4. r.event \in bus /\ r.event.booking \in Bookings
  BY DEF PayInv, PayTypeOK, P!PayTypeOK, TypeInv, TypeOK, Events
<1>5. pay' = pay \/ pay' = [pay EXCEPT ![r.event.booking] = P!Outcome(P!Handler(r.event), r.entity)]
  BY DEF P!RefundCharge, P!SaveRun
<1>6. refunds' \in [Deliveries -> Nat]
  BY DEF P!RefundCharge, P!SaveRun, PayInv, PayTypeOK, P!PayTypeOK
<1>7. PayTypeOK'
  BY <1>2, <1>3, <1>4, <1>5, <1>6, OutcomeRow DEF PayInv, PayTypeOK, P!PayTypeOK
<1>8. Offered'
  <2>1. Published("booking.pending", r.event.booking)
    BY DEF PayInv, RunsInv
  <2> QED
    BY <1>2, <1>4, <1>5, <2>1 DEF PayInv, Offered, Published, PublishedOn, PayTypeOK, P!PayTypeOK
<1>9. PayCallsInv' /\ OutcomesInv' /\ CompletedIsCharged'
  BY <1>2 DEF PayInv, PayCallsInv, OutcomesInv, CompletedIsCharged, P!CompletedIsCharged, Published, PublishedOn
<1>10. ChargesInv'
  <2>1. \A b \in Bookings: OwnCharge(b, pay'[b])
    BY <1>4, <1>5, OutcomeRow DEF PayInv, ChargesInv, PayTypeOK, P!PayTypeOK
  <2>2. \A q \in runs': OwnCharge(q.event.booking, q.entity)
    BY <1>3 DEF PayInv, ChargesInv
  <2> QED
    BY <1>2, <2>1, <2>2 DEF PayInv, ChargesInv, OwnCharge
<1>11. RunsInv'
  BY <1>2, <1>3 DEF PayInv, RunsInv, Published, PublishedOn
<1>12. RefundsInv'
  <2>1. \A c: GivenBack(c) \subseteq GivenBack(c)'
    BY <1>1, <1>2, AdvanceKeeps DEF GivenBack, P!RefundRequests
  <2>2. CASE UNCHANGED refunds
    BY <1>2, <2>1, <2>2, RefundsKept DEF PayInv
  <2>3. CASE P!RefundCharge(r) /\ ~UNCHANGED refunds
    <3> DEFINE p == r.entity.ref  b == r.event.booking
    <3>1. /\ p \in Deliveries /\ refunds' = [refunds EXCEPT ![p] = @ + 1]
          /\ r.step = "loaded" /\ P!Handler(r.event) = "refund"
      BY <2>3 DEF P!RefundCharge
    <3>2. p \in charged /\ pcall[p].booking = b
      BY <3>1 DEF PayInv, ChargesInv, OwnCharge
    <3>3. r.event \in P!RefundRequests(b)
      BY <1>4, <3>1 DEF P!Handler, P!RefundRequests
    <3>4. r.event \notin GivenBack(b)
      BY <3>1 DEF GivenBack, PayInv, RunsInv
    <3>5. r.event \in GivenBack(b)'
      <4>1. \E q \in runs': q.event = r.event /\ q.step = step
        BY <1>1, <1>2, AdvanceKeeps
      <4> QED
        BY <1>2, <3>3, <4>1 DEF GivenBack, P!RefundRequests
    <3>6. Cardinality(GivenBack(b)) + 1 <= Cardinality(GivenBack(b)')
      <4>1. Cardinality(GivenBack(b) \cup {r.event}) = Cardinality(GivenBack(b)) + 1
        BY <3>4, Counts, FS_AddElement DEF PayInv
      <4>2. GivenBack(b)' \subseteq bus' /\ IsFiniteSet(bus')
        BY <1>2 DEF GivenBack, P!RefundRequests, PayInv
      <4>3. GivenBack(b) \cup {r.event} \subseteq GivenBack(b)'
        BY <2>1, <3>5
      <4>4. IsFiniteSet(GivenBack(b)')
        BY <4>2, FS_Subset
      <4> QED
        BY <4>1, <4>3, <4>4, FS_Subset
    <3>7. \A c: /\ P!RefundRequests(c)' = P!RefundRequests(c)
                /\ Cardinality(P!RefundRequests(c)) \in Nat
                /\ Cardinality(GivenBack(c)) \in Nat /\ Cardinality(GivenBack(c)') \in Nat
                /\ Cardinality(GivenBack(c)) <= Cardinality(GivenBack(c)')
      <4> TAKE c
      <4>1. P!RefundRequests(c)' = P!RefundRequests(c)
        BY <1>2 DEF P!RefundRequests
      <4>2. GivenBack(c)' \subseteq bus' /\ IsFiniteSet(bus')
        BY <1>2 DEF GivenBack, P!RefundRequests, PayInv
      <4>3. IsFiniteSet(GivenBack(c)')
        BY <4>2, FS_Subset
      <4>4. Cardinality(GivenBack(c)') \in Nat /\ Cardinality(GivenBack(c)) <= Cardinality(GivenBack(c)')
        BY <2>1, <4>3, FS_Subset, FS_CardinalityType
      <4> QED
        BY <4>1, <4>4, Counts DEF PayInv
    <3> SUFFICES ASSUME NEW q \in Deliveries, refunds'[q] > 0, NEW c, c = pcall[q].booking
                 PROVE  /\ q \in charged
                        /\ refunds'[q] <= payCrashes * Cardinality(P!RefundRequests(c)) + Cardinality(GivenBack(c)')
      BY <1>2, <3>7 DEF RefundsInv
    <3>8. payCrashes \in Nat /\ refunds \in [Deliveries -> Nat] /\ refunds[q] \in Nat
      BY PayFaultsKnown DEF PayInv, PayTypeOK, P!PayTypeOK
    <3> DEFINE most == payCrashes * Cardinality(P!RefundRequests(c))
    <3>9. most \in Nat
      BY <3>7, <3>8
    <3>10. refunds[q] > 0 => q \in charged /\ refunds[q] <= most + Cardinality(GivenBack(c))
      BY DEF PayInv, RefundsInv
    <3> HIDE DEF most
    <3>11. CASE q = p
      <4>1. c = b /\ refunds'[q] = refunds[q] + 1
        BY <3>1, <3>2, <3>8, <3>11
      <4>2. refunds[q] <= most + Cardinality(GivenBack(c))
        BY <3>7, <3>8, <3>9, <3>10
      <4>3. Cardinality(GivenBack(c)) + 1 <= Cardinality(GivenBack(c)')
        BY <3>6, <4>1
      <4>4. refunds'[q] <= most + Cardinality(GivenBack(c)')
        BY <3>7, <3>8, <3>9, <4>1, <4>2, <4>3
      <4> QED
        BY <3>2, <3>11, <4>4 DEF most
    <3>12. CASE q # p
      <4>1. refunds'[q] = refunds[q]
        BY <3>1, <3>8, <3>12
      <4>2. q \in charged /\ refunds'[q] <= most + Cardinality(GivenBack(c)')
        BY <3>7, <3>8, <3>9, <3>10, <4>1
      <4> QED
        BY <4>2 DEF most
    <3> QED
      BY <3>11, <3>12
  <2> QED
    BY <2>2, <2>3 DEF P!RefundCharge, P!SaveRun
<1> QED
  BY <1>2, <1>7, <1>8, <1>9, <1>10, <1>11, <1>12 DEF PayInv

\* A run ends with its message acknowledged, whatever it has done.
LEMMA RunEndsKeeps ==
  ASSUME TypeInv, PayInv, NEW r \in runs, P!Finish(r) \/ P!RunFails(r), UNCHANGED pc
  PROVE  PayInv'
<1>1. /\ UNCHANGED <<pay, ppc, pcall, charged, refunds, payCrashes, pc>>
      /\ runs' = runs \ {r} /\ acked' = acked \cup {r.event}
  BY DEF P!Finish, P!RunFails
<1>2. /\ bus \subseteq bus' /\ IsFiniteSet(bus')
      /\ \A e \in bus' \ bus: e.rk = "payment.refunded"
  <2>1. CASE bus' = bus \cup {P!Event("payment.refunded", r.event.booking, r.event.by, "-")}
    BY <2>1, FS_AddElement DEF P!Event, PayInv
  <2>2. CASE UNCHANGED bus
    BY <2>2 DEF PayInv
  <2> QED
    BY <2>1, <2>2 DEF P!Finish, P!RunFails
<1>3. r.event \in bus
  BY DEF PayInv, PayTypeOK, P!PayTypeOK
<1>4. PayTypeOK'
  BY <1>1, <1>2, <1>3 DEF PayInv, PayTypeOK, P!PayTypeOK
<1>5. Offered' /\ PayCallsInv'
  BY <1>1, <1>2 DEF PayInv, Offered, PayCallsInv, Published, PublishedOn
<1>6. ChargesInv'
  BY <1>1 DEF PayInv, ChargesInv, OwnCharge
<1>7. RunsInv'
  BY <1>1, <1>2 DEF PayInv, RunsInv, Published, PublishedOn
<1>8. OutcomesInv' /\ CompletedIsCharged'
  BY <1>1, <1>2 DEF PayInv, OutcomesInv, PaymentKeys, CompletedIsCharged, P!CompletedIsCharged
<1>9. RefundsInv'
  <2>1. \A c: GivenBack(c) \subseteq GivenBack(c)'
    BY <1>1, <1>2 DEF GivenBack, P!RefundRequests
  <2> QED
    BY <1>1, <1>2, <2>1, RefundsKept
<1> QED
  BY <1>1, <1>2, <1>4, <1>5, <1>6, <1>7, <1>8, <1>9 DEF PayInv

\* The process dies, and with it what has not been acknowledged is forgotten.
LEMMA PayDieKeeps ==
  ASSUME PayInv, P!PayDie, UNCHANGED <<pay, pcall, acked, charged, refunds, bus, pc>>
  PROVE  PayInv'
<1>1. runs' = {} /\ payCrashes' = payCrashes + 1 /\ payCrashes' \in 0..MaxPayCrashes
  BY PayFaultsKnown DEF P!PayDie, PayInv, PayTypeOK, P!PayTypeOK
<1>2. \A p \in Deliveries: ppc'[p] = IF ppc[p] = "idle" THEN "idle" ELSE "done"
  BY DEF P!PayDie
<1>3. PayTypeOK'
  BY <1>1 DEF P!PayDie, PayInv, PayTypeOK, P!PayTypeOK
<1>4. Offered' /\ CompletedIsCharged' /\ RunsInv'
  BY <1>1 DEF PayInv, Offered, CompletedIsCharged, P!CompletedIsCharged, RunsInv, Published, PublishedOn
<1>5. charged \subseteq Deliveries
  BY DEF PayInv, PayTypeOK, P!PayTypeOK
<1>6. PayCallsInv' /\ OutcomesInv'
  BY <1>2, <1>5 DEF PayInv, PayCallsInv, OutcomesInv
<1>7. ChargesInv'
  BY <1>1, <1>2 DEF PayInv, ChargesInv, OwnCharge
<1>8. RefundsInv'
  <2>1. \A c: GivenBack(c)' \subseteq P!RefundRequests(c)'
    BY DEF GivenBack
  <2> QED
    BY <1>1, <2>1, RefundsKept DEF PayInv
<1> QED
  BY <1>3, <1>4, <1>6, <1>7, <1>8 DEF PayInv

LEMMA PayKeepsPayInv ==
  ASSUME TypeInv, PayInv, P!PayNext, UNCHANGED bookingVars
  PROVE  PayInv'
<1> UNCHANGED pc
  BY DEF bookingVars
<1>1. CASE \E p \in Deliveries: P!Pay(p)
  BY <1>1, PayReadKeeps, PayMovesKeeps DEF P!Pay
<1>2. CASE \E e \in bus: P!Take(e)
  BY <1>2, TakeKeeps
<1>3. ASSUME NEW r \in runs, P!RefundCharge(r) \/ P!SaveRun(r) \/ P!Finish(r) \/ P!RunFails(r)
      PROVE  PayInv'
  BY <1>3, RunMovesKeeps, RunEndsKeeps
<1>4. CASE P!PayCrash \/ \E r \in runs: P!RunThrows(r)
  BY <1>4, PayDieKeeps DEF P!PayCrash, P!RunThrows
<1> QED
  BY <1>1, <1>2, <1>3, <1>4 DEF P!PayNext

-----------------------------------------------------------------------------
(* What holds of Booking alone keeps holding.                              *)

\* Payment adds its own events to the exchange, and nothing else of Booking.
LEMMA PayAdds ==
  ASSUME TypeInv, PayInv, P!PayNext
  PROVE  /\ bus \subseteq bus' /\ bus' \subseteq Events
         /\ \A e \in bus' \ bus: e.rk \in PaymentKeys \cup {"payment.refunded"}
<1> USE DEF P!Event, Event
<1>1. CASE UNCHANGED bus
  BY <1>1 DEF TypeInv, TypeOK
<1>2. ASSUME NEW p \in Deliveries, P!PayPublish(p)
      PROVE  /\ bus \subseteq bus' /\ bus' \subseteq Events
             /\ \A e \in bus' \ bus: e.rk \in PaymentKeys \cup {"payment.refunded"}
  <2>1. pcall[p].booking \in Bookings /\ p \in Workers
    BY <1>2 DEF P!PayPublish, PayInv, PayCallsInv, P!PayCallTypes, Workers
  <2> QED
    BY <1>2, <2>1 DEF P!PayPublish, TypeInv, TypeOK, Events, PaymentKeys
<1>3. ASSUME NEW r \in runs, P!Finish(r)
      PROVE  /\ bus \subseteq bus' /\ bus' \subseteq Events
             /\ \A e \in bus' \ bus: e.rk \in PaymentKeys \cup {"payment.refunded"}
  <2>1. r.event \in Events
    BY DEF PayInv, PayTypeOK, P!PayTypeOK, TypeInv, TypeOK
  <2> QED
    BY <1>3, <2>1 DEF P!Finish, TypeInv, TypeOK, Events
<1> QED
  BY <1>1, <1>2, <1>3
  DEF P!PayNext, P!Pay, P!PayRead, P!Charge, P!PaySave, P!PayThrows, P!Take, P!RefundCharge,
      P!SaveRun, P!RunFails, P!RunThrows, P!PayCrash

LEMMA PayKeepsBooking ==
  ASSUME TypeInv, PaidInv, PayInv, P!PayNext, UNCHANGED bookingVars
  PROVE  TypeInv' /\ PaidInv'
<1>1. /\ bus \subseteq bus' /\ bus' \subseteq Events
      /\ \A e \in bus' \ bus: e.rk \in PaymentKeys \cup {"payment.refunded"}
  BY PayAdds
<1>2. UNCHANGED <<slot, row, lock, creq, pc, call, todo, crashes>>
  BY DEF bookingVars
<1>3. TypeInv'
  BY <1>1, <1>2 DEF TypeInv, TypeOK, CallsLoaded, Busy, Keys
<1>4. \A b: Published("payment.completed", b) => Published("payment.completed", b)'
  BY <1>1 DEF Published, PublishedOn
<1>5. PaidRows' /\ PaidCalls' /\ PaidEntities'
  BY <1>2, <1>4 DEF PaidInv, PaidRows, PaidCalls, PaidEntities, Busy
<1>6. RefundOnlyIfPaid'
  BY <1>1, <1>4 DEF PaidInv, RefundOnlyIfPaid, Published, PublishedOn, PaymentKeys
<1> QED
  BY <1>3, <1>5, <1>6 DEF PaidInv, TypeInv

LEMMA SagaInitInv == SagaInit => SagaInv
<1> SUFFICES ASSUME SagaInit
             PROVE  SagaInv
  OBVIOUS
<1>1. TypeInv /\ PaidInv
  BY TypeInit, PaidInit DEF SagaInit
<1>2. IsFiniteSet(bus)
  BY FS_EmptySet DEF SagaInit, Init
<1>3. PayTypeOK
  BY PayFaultsKnown DEF SagaInit, Init, P!PayInit, PayTypeOK, P!PayTypeOK, P!NoPayment, P!PayRows
<1>4. ChargesInv
  BY PayRefsDiffer DEF SagaInit, P!PayInit, ChargesInv, OwnCharge, P!NoPayment
<1>5. OutcomesInv
  BY DEF SagaInit, Init, P!PayInit, OutcomesInv, Workers
<1>6. Offered /\ PayCallsInv /\ RunsInv /\ CompletedIsCharged /\ RefundsInv
  BY DEF SagaInit, Init, P!PayInit, Offered, PayCallsInv, RunsInv, CompletedIsCharged, P!CompletedIsCharged,
         RefundsInv, P!NoPayment
<1> QED
  BY <1>1, <1>2, <1>3, <1>4, <1>5, <1>6 DEF SagaInv, PayInv

LEMMA SagaStep == SagaInv /\ [SagaNext]_sagaVars => SagaInv'
<1> SUFFICES ASSUME SagaInv, [SagaNext]_sagaVars
             PROVE  SagaInv'
  OBVIOUS
<1>1. CASE ServiceNext /\ UNCHANGED paymentVars
  <2>1. TypeInv' /\ PaidInv'
    BY <1>1, TypeStep, PaidStep DEF SagaInv, Next
  <2> QED
    BY <1>1, <2>1, ServiceKeepsPayInv DEF SagaInv
<1>2. CASE P!PayNext /\ UNCHANGED bookingVars
  BY <1>2, PayKeepsBooking, PayKeepsPayInv DEF SagaInv
<1>3. CASE UNCHANGED sagaVars
  <2>1. TypeInv' /\ PaidInv'
    BY <1>3, TypeStep, PaidStep DEF SagaInv, sagaVars, bookingVars, vars
  <2>2. PayInv'
    BY <1>3 DEF sagaVars, bookingVars, paymentVars, SagaInv, PayInv, PayTypeOK, P!PayTypeOK, Offered,
                PayCallsInv, ChargesInv, OwnCharge, RunsInv, OutcomesInv, CompletedIsCharged,
                P!CompletedIsCharged, RefundsInv, GivenBack, P!RefundRequests, Published, PublishedOn
  <2> QED
    BY <2>1, <2>2 DEF SagaInv
<1> QED
  BY <1>1, <1>2, <1>3 DEF SagaNext

LEMMA SagaInvariant == SagaSpec => []SagaInv
BY SagaInitInv, SagaStep, PTL DEF SagaSpec

\* The payment service's rows, calls and runs never leave their types.
THEOREM PaymentTypeCorrect == SagaSpec => []PayTypeOK
<1>1. SagaInv => PayTypeOK
  BY DEF SagaInv, PayInv
<1> QED
  BY <1>1, SagaInvariant, PTL

\* However calls, handlers and redeliveries race over a payment, no booking is
\* reported as paid on a charge that was declined or never made.
THEOREM PaidOnlyIfCharged == SagaSpec => []CompletedIsCharged
<1>1. SagaInv => CompletedIsCharged
  BY DEF SagaInv, PayInv
<1> QED
  BY <1>1, SagaInvariant, PTL

\* Money goes back only where it was taken, and at most once per request and
\* life of the process, for any number of requests and crashes.
THEOREM RefundsBounded == SagaSpec => []RefundsRequested
<1>1. SagaInv => RefundsRequested
  <2> SUFFICES ASSUME SagaInv, NEW p \in Deliveries, refunds[p] > 0, NEW b, b = pcall[p].booking
               PROVE  /\ p \in charged
                      /\ refunds[p] <= (1 + payCrashes) * Cardinality(P!RefundRequests(b))
    BY SameCardinality DEF RefundsRequested, P!RefundsRequested
  <2> DEFINE q == Cardinality(P!RefundRequests(b))  g == Cardinality(GivenBack(b))
  <2>1. p \in charged /\ refunds[p] <= payCrashes * q + g
    BY DEF SagaInv, PayInv, RefundsInv
  <2>2. q \in Nat /\ g \in Nat /\ g <= q
    BY Counts DEF SagaInv, PayInv
  <2>3. refunds[p] \in Nat /\ payCrashes \in Nat
    BY PayFaultsKnown DEF SagaInv, PayInv, PayTypeOK, P!PayTypeOK
  <2>4. refunds[p] <= (payCrashes + 1) * q + 0
    BY <2>1, <2>2, <2>3, BoundOutlives
  <2>5. (payCrashes + 1) * q + 0 = (1 + payCrashes) * q
    BY <2>2, <2>3
  <2> QED
    BY <2>1, <2>4, <2>5
<1> QED
  BY <1>1, SagaInvariant, PTL

\* A booking stands confirmed on a payment that has not been given back, unless
\* somebody asked to refund it.
THEOREM PaymentKept == SagaSpec => []ConfirmedKeepsPayment
<1>1. SagaInv => ConfirmedKeepsPayment
  <2> SUFFICES ASSUME SagaInv, NEW b \in Bookings,
                      row[b].status = "confirmed", ~Published("booking.cancelled", b)
               PROVE  \E e \in bus: e.rk = "payment.completed" /\ e.booking = b /\ refunds[e.by] = 0
    BY DEF ConfirmedKeepsPayment
  <2>1. PICK e \in bus: e.rk = "payment.completed" /\ e.booking = b
    BY DEF SagaInv, PaidInv, PaidRows, Published, PublishedOn
  <2>2. e.by \in Deliveries /\ pcall[e.by].booking = b
    BY <2>1 DEF SagaInv, PayInv, OutcomesInv, PaymentKeys
  <2>3. P!RefundRequests(b) = {} /\ GivenBack(b) = {}
    BY DEF P!RefundRequests, GivenBack, Published, PublishedOn
  <2>4. refunds[e.by] \in Nat /\ payCrashes \in Nat
    BY <2>2, PayFaultsKnown DEF SagaInv, PayInv, PayTypeOK, P!PayTypeOK
  <2>5. refunds[e.by] > 0 => refunds[e.by] <= payCrashes * 0 + 0
    BY <2>2, <2>3, FS_EmptySet DEF SagaInv, PayInv, RefundsInv
  <2>6. refunds[e.by] = 0
    BY <2>4, <2>5
  <2> QED
    BY <2>1, <2>6
<1> QED
  BY <1>1, SagaInvariant, PTL

-----------------------------------------------------------------------------
(* Payment is the environment that Booking expects: every step of the saga *)
(* is one of Booking, seen without the announcements of refunds.           *)

LEMMA CreateAsExpected ==
  ASSUME NEW b \in Bookings, Create(b)
  PROVE  Expected!Create(b)
<1> USE DEF Key, Expected!Key
<1>1. CASE RejectCreate(b)
  BY <1>1 DEF RejectCreate, Expected!RejectCreate, Expected!Create
<1>2. CASE AcquireLock(b)
  BY <1>2 DEF AcquireLock, Expected!AcquireLock, Expected!Create
<1>3. CASE LockTaken(b)
  BY <1>3 DEF LockTaken, Expected!LockTaken, Expected!Create
<1>4. CASE LockStranded(b)
  BY <1>4 DEF LockStranded, Expected!LockStranded, Expected!Create
<1>5. CASE CheckConflict(b)
  BY <1>5 DEF CheckConflict, Expected!CheckConflict, Conflicts, Expected!Conflicts, Active, Expected!Active,
              Overlaps, Expected!Overlaps, Expected!Create
<1>6. CASE Insert(b)
  BY <1>6 DEF Insert, Expected!Insert, Expected!Create
<1>7. CASE TransactionFails(b)
  BY <1>7 DEF TransactionFails, Expected!TransactionFails, Expected!Create
<1>8. CASE PublishPending(b)
  BY <1>8 DEF PublishPending, Event, Expected!PublishPending, Expected!Event, Expected!Create
<1>9. CASE PublishPendingThrows(b)
  BY <1>9 DEF PublishPendingThrows, Expected!PublishPendingThrows, Expected!Create
<1>10. CASE ReleaseAfterFailure(b)
  BY <1>10 DEF ReleaseAfterFailure, Unlocked, Expected!ReleaseAfterFailure, Expected!Unlocked, Expected!Create
<1> QED
  BY <1>1, <1>2, <1>3, <1>4, <1>5, <1>6, <1>7, <1>8, <1>9, <1>10 DEF Create

LEMMA SameOps ==
  /\ ReleaseOps = Expected!ReleaseOps /\ OutcomeOps = Expected!OutcomeOps
  /\ RequestOps = Expected!RequestOps /\ PaymentKeys = Expected!PaymentKeys
  /\ Active = Expected!Active /\ Workers = Expected!Workers /\ NoCall = Expected!NoCall
  /\ Keys = Expected!Keys
BY DEF ReleaseOps, OutcomeOps, RequestOps, PaymentKeys, Active, Workers, NoCall, Keys, Expected!ReleaseOps,
       Expected!OutcomeOps, Expected!RequestOps, Expected!PaymentKeys, Expected!Active, Expected!Workers,
       Expected!NoCall, Expected!Keys

LEMMA SameOperators ==
  /\ \A o, status: Permitted(o, status) = Expected!Permitted(o, status)
  /\ \A o, e: Assigned(o, e) = Expected!Assigned(o, e)
  /\ \A o, e: RoutingKeys(o, e) = Expected!RoutingKeys(o, e)
BY SameOps, Zenon DEF Permitted, Assigned, RoutingKeys, Expected!Permitted, Expected!Assigned, Expected!RoutingKeys

LEMMA SameEnds ==
  /\ Die = Expected!Die
  /\ \A w: Abort(w) = Expected!Abort(w)
BY SameOps DEF Die, Abort, Expected!Die, Expected!Abort

\* Nothing that Booking announces is the announcement of a refund.
LEMMA WorkAsExpected ==
  ASSUME TypeInv, NEW w \in Workers, Work(w)
  PROVE  Expected!Work(w)
<1>1. CASE Save(w)
  BY <1>1, SameOperators DEF Save, Expected!Save, Expected!Work
<1>2. CASE SaveFails(w)
  BY <1>2, SameEnds DEF SaveFails, Expected!SaveFails, Expected!Work
<1>3. CASE ReleaseLock(w)
  BY <1>3 DEF ReleaseLock, Unlocked, Key, Expected!ReleaseLock, Expected!Unlocked, Expected!Key, Expected!Work
<1>4. CASE Publish(w)
  <2>1. Announced(w) = Expected!Announced(w)
    BY SameOperators DEF Announced, Event, Expected!Announced, Expected!Event
  <2>2. \A e \in Announced(w): e.rk # "payment.refunded"
    <3>1. call[w] \in Calls
      BY <1>4 DEF Publish, TypeInv, CallsLoaded, Busy
    <3>2. RoutingKeys(call[w].op, call[w].entity) \subseteq BookingKeys
      BY <3>1, AnnouncedKeys DEF Calls
    <3> QED
      BY <3>2 DEF Announced, Event, BookingKeys
  <2>3. {e \in bus': e.rk # "payment.refunded"} = {e \in bus: e.rk # "payment.refunded"} \cup Announced(w)
    BY <1>4, <2>2 DEF Publish
  <2> QED
    BY <1>4, <2>1, <2>3, SameOps DEF Publish, Expected!Publish, Expected!Work
<1>5. CASE PublishThrows(w)
  BY <1>5, SameEnds DEF PublishThrows, Expected!PublishThrows, Expected!Work
<1> QED
  BY <1>1, <1>2, <1>3, <1>4, <1>5 DEF Work

LEMMA HandlersAsExpected ==
  /\ \A w: HandleRequest(w) => Expected!HandleRequest(w)
  /\ \A m: HandleOutcome(m) => Expected!HandleOutcome(m)
  /\ \A w: FindExpired(w) => Expected!FindExpired(w)
  /\ \A w: NextExpired(w) => Expected!NextExpired(w)
<1> USE SameOps, SameOperators DEF Load, Expected!Load
<1>1. ASSUME NEW w, HandleRequest(w)
      PROVE  Expected!HandleRequest(w)
  BY <1>1 DEF HandleRequest, Expected!HandleRequest
<1>2. ASSUME NEW m, HandleOutcome(m)
      PROVE  Expected!HandleOutcome(m)
  <2>1. PICK e \in bus:
          LET o == IF e.rk = "payment.completed" THEN "confirm" ELSE "payment_failed"
          IN /\ e.rk \in PaymentKeys /\ e.by = m
             /\ IF Permitted(o, row[e.booking].status)
                  THEN Load(m, o, e.booking, row[e.booking])
                  ELSE pc' = [pc EXCEPT ![m] = "done"] /\ UNCHANGED call
    BY <1>2 DEF HandleOutcome
  <2>2. e \in {x \in bus: x.rk # "payment.refunded"}
    BY <2>1 DEF PaymentKeys
  <2> QED
    BY <1>2, <2>1, <2>2 DEF HandleOutcome, Expected!HandleOutcome
<1>3. ASSUME NEW w, FindExpired(w)
      PROVE  Expected!FindExpired(w)
  BY <1>3 DEF FindExpired, Expected!FindExpired
<1>4. ASSUME NEW w, NextExpired(w)
      PROVE  Expected!NextExpired(w)
  BY <1>4 DEF NextExpired, Expected!NextExpired
<1> QED
  BY <1>1, <1>2, <1>3, <1>4

LEMMA ServiceAsExpected ==
  ASSUME TypeInv, ServiceNext
  PROVE  Expected!Next
<1>1. CASE \E b \in Bookings: Create(b)
  BY <1>1, CreateAsExpected DEF Expected!ServiceNext, Expected!Next
<1>2. CASE \E b \in Bookings: DeadlinePasses(b)
  BY <1>2 DEF DeadlinePasses, Key, Expected!DeadlinePasses, Expected!Key, Expected!ServiceNext, Expected!Next
<1>3. CASE \E w \in Workers: Work(w)
  BY <1>3, WorkAsExpected, SameOps DEF Expected!ServiceNext, Expected!Next
<1>4. CASE \/ \E w \in Requests: HandleRequest(w)
           \/ \E m \in Deliveries: HandleOutcome(m)
           \/ \E w \in Sweeps: FindExpired(w) \/ NextExpired(w)
  BY <1>4, HandlersAsExpected DEF Expected!ServiceNext, Expected!Next
<1>5. CASE \E k \in Keys: LockExpires(k)
  BY <1>5, SameOps DEF LockExpires, InFlight, Expected!LockExpires, Expected!InFlight, Expected!ServiceNext, Expected!Next
<1>6. CASE Crash
  BY <1>6, SameEnds DEF Crash, Expected!Crash, Expected!ServiceNext, Expected!Next
<1> QED
  BY <1>1, <1>2, <1>3, <1>4, <1>5, <1>6 DEF ServiceNext

\* The outcome of a call of pay is the first thing said in its name, and about
\* a booking that was announced; the rest of Payment is out of Booking's sight.
LEMMA PayAsExpected ==
  ASSUME TypeInv, PayInv, P!PayNext, UNCHANGED bookingVars
  PROVE  [Expected!Next]_(Expected!vars)
<1> USE DEF P!Event
<1> DEFINE seen == {e \in bus: e.rk # "payment.refunded"}
<1>1. ASSUME NEW p \in Deliveries, P!PayPublish(p)
      PROVE  Expected!PaymentOutcome(p)
  <2> DEFINE rk == IF ppc[p] = "saved" THEN "payment.completed" ELSE "payment.failed"
             b == pcall[p].booking
             e == Expected!Event(rk, b, p, "-")
  <2>1. ppc[p] \in {"saved", "saved_failed"} /\ bus' = bus \cup {e}
    BY <1>1 DEF P!PayPublish, Expected!Event
  <2>2. b \in Bookings /\ Published("booking.pending", b)
    BY <2>1 DEF PayInv, PayCallsInv, P!PayCallTypes
  <2>3. \A x \in seen: x.by # p
    BY <2>1 DEF PayInv, OutcomesInv
  <2>4. Expected!Published("booking.pending", b)
    BY <2>2 DEF Published, PublishedOn, Expected!Published, Expected!PublishedOn
  <2>5. rk \in Expected!PaymentKeys /\ seen' = seen \cup {e}
    BY <2>1 DEF Expected!PaymentKeys, Expected!Event
  <2> QED
    BY <2>2, <2>3, <2>4, <2>5 DEF bookingVars, Expected!PaymentOutcome
<1>2. ASSUME UNCHANGED seen
      PROVE  UNCHANGED Expected!vars
  BY <1>2 DEF bookingVars, Expected!vars
<1>3. CASE UNCHANGED bus
  BY <1>2, <1>3
<1>4. CASE \E r \in runs: P!Finish(r)
  <2>1. UNCHANGED seen
    BY <1>4 DEF P!Finish
  <2> QED
    BY <1>2, <2>1
<1> QED
  BY <1>1, <1>3, <1>4
  DEF Expected!Next, P!PayNext, P!Pay, P!PayRead, P!Charge, P!PaySave, P!PayThrows, P!Take,
      P!RefundCharge, P!SaveRun, P!RunFails, P!RunThrows, P!PayCrash

\* The saga, seen from Booking, is Booking in the environment it was specified
\* in: an outcome comes once per call of pay, for a booking that was announced.
THEOREM SagaImplementsBooking == SagaSpec => BookingSpec
<1>1. SagaInit => Expected!Init
  <2> SUFFICES ASSUME SagaInit
               PROVE  Expected!Init
    OBVIOUS
  <2> QED
    BY SameOps DEF SagaInit, Init, NoRow, Expected!Init, Expected!NoRow
<1>2. SagaInv /\ [SagaNext]_sagaVars => [Expected!Next]_(Expected!vars)
  <2> SUFFICES ASSUME SagaInv, [SagaNext]_sagaVars
               PROVE  [Expected!Next]_(Expected!vars)
    OBVIOUS
  <2>1. CASE UNCHANGED sagaVars
    BY <2>1 DEF sagaVars, bookingVars, Expected!vars
  <2> QED
    BY <2>1, ServiceAsExpected, PayAsExpected DEF SagaNext, SagaInv
<1> QED
  BY <1>1, <1>2, SagaInvariant, PTL DEF SagaSpec, BookingSpec, Expected!Spec
=============================================================================
