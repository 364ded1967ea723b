---------------------------- MODULE AftercareProofs ----------------------------
(***************************************************************************)
(* What holds of the services behind the exchange for any number of        *)
(* bookings, handlers and calls: points, notifications, dashboard and      *)
(* disputes. Each service is a part of Aftercare of its own; a step is one *)
(* of its own actions or leaves it alone while the bus grows.              *)
(***************************************************************************)
EXTENDS Aftercare, FiniteSums

-----------------------------------------------------------------------------
(* The bus and the parts.                                                  *)

\* Nothing is announced but of bookings.
EventsNamed == \A e \in bus: e.booking \in Bookings

\* What a service sees while another one is at work.
BusOnlyGrows == bus \subseteq bus' /\ EventsNamed'

LEMMA BusStep ==
  ASSUME EventsNamed, [AftercareNext]_aftercareVars
  PROVE  BusOnlyGrows
<1> USE DEF EventsNamed, BusOnlyGrows
<1>1. CASE UNCHANGED aftercareVars
  BY <1>1 DEF aftercareVars
<1>2. CASE \E w \in Handlers: BookingAnnounces(w)
  BY <1>2 DEF BookingAnnounces, Outcomes, Event
<1>3. CASE PaymentRefunds
  BY <1>3 DEF PaymentRefunds, Event
<1>4. CASE A!AdminNext
  <2>1. CASE \E r \in Resolutions: A!Resolve(r)
    BY <2>1, AftercareFacts DEF A!Resolve, A!RefundEvent, A!Event
  <2>2. CASE bus' = bus
    BY <2>2
  <2> QED
    BY <1>4, <2>1, <2>2 DEF A!AdminNext, A!FileDispute, A!ResolveThrows, A!SaveDispute, A!SaveDisputeFails,
       A!SaveCommission, A!AnnounceCommission, A!CommissionFails, A!ApplyCommission, A!PaymentRestarts,
       A!AdminCrash
<1>5. CASE (\E d \in Disputes: A!FileDispute(d)) \/ (\E r \in Askers: A!Resolve(r) \/ A!SaveDispute(r))
  BY <1>4, <1>5, AftercareFaultsKnown DEF A!AdminNext
<1>6. CASE L!LoyaltyNext
  BY <1>6 DEF L!LoyaltyNext, L!Look, L!RunOn, L!InsertEntry, L!ReadAccount, L!CreateAccount, L!SaveAccount,
     L!RunThrows, L!GetMe, L!LoyaltyCrash
<1>7. CASE N!NotificationNext
  BY <1>7 DEF N!NotificationNext, N!Settle, N!Ignore, N!Deliver, N!DeliverFails, N!DeliverAndDie
<1>8. CASE R!ReportingNext
  BY <1>8 DEF R!ReportingNext, R!Look, R!SaveRecord, R!RecordFails, R!ReportingCrash
<1> QED
  BY <1>1, <1>2, <1>3, <1>4, <1>5, <1>6, <1>7, <1>8 DEF AftercareNext

\* A step is a step of the service or leaves its state alone.
LEMMA Parts ==
  ASSUME [AftercareNext]_aftercareVars
  PROVE  /\ L!LoyaltyNext \/ UNCHANGED loyaltyVars
         /\ N!NotificationNext \/ UNCHANGED notificationVars
         /\ R!ReportingNext \/ UNCHANGED reportingVars
         /\ A!AdminNext \/ UNCHANGED adminVars
BY AftercareFaultsKnown DEF AftercareNext, aftercareVars, A!AdminNext

-----------------------------------------------------------------------------
(* Disputes. The row of a dispute is saved from an entity read earlier, so *)
(* the entities in memory must not claim more than was published either.   *)

Entities == [status: Verdicts \cup {"none", "open"}, refundIssued: BOOLEAN]

AskTypeOK ==
  /\ dispute \in [Disputes -> Entities]
  /\ resolution \in [Resolutions -> [step: {"idle", "done"}] \cup
                       [step: {"assigned", "done"}, dispute: Disputes, entity: Entities]]

Asked(d) == \E r \in Resolutions: A!RefundEvent(d, r) \in bus

EntitiesAsked ==
  \A r \in Resolutions: resolution[r].step = "assigned" /\ resolution[r].entity.refundIssued =>
    Asked(resolution[r].dispute)

AskInv == EventsNamed /\ AskTypeOK /\ IssuedIsAsked /\ EntitiesAsked

LEMMA AskInit == AftercareInit => AskInv
BY DEF AftercareInit, A!AdminInit, A!NoDispute, AskInv, AskTypeOK, Entities, EventsNamed, IssuedIsAsked,
   A!IssuedIsAsked, EntitiesAsked

LEMMA AskStep == AskInv /\ [AftercareNext]_aftercareVars => AskInv'
<1> SUFFICES ASSUME AskInv, [AftercareNext]_aftercareVars PROVE AskInv'
  OBVIOUS
<1> USE DEF AskInv
<1>1. BusOnlyGrows
  BY BusStep
<1>2. \A d: Asked(d) => Asked(d)'
  BY <1>1 DEF BusOnlyGrows, Asked, A!RefundEvent
<1>3. \A d \in Disputes: dispute[d].refundIssued => Asked(d)
  BY DEF IssuedIsAsked, A!IssuedIsAsked, Asked
<1>4. SUFFICES AskTypeOK' /\ EntitiesAsked' /\ \A d \in Disputes: dispute'[d].refundIssued => Asked(d)'
  BY <1>1 DEF BusOnlyGrows, IssuedIsAsked, A!IssuedIsAsked, Asked
<1>5. CASE UNCHANGED adminVars
  BY <1>2, <1>3, <1>5 DEF adminVars, AskTypeOK, EntitiesAsked
<1>6. CASE \E d \in Disputes: A!FileDispute(d)
  BY <1>2, <1>3, <1>6 DEF A!FileDispute, AskTypeOK, Entities, EntitiesAsked
<1>7. CASE \E r \in Resolutions: A!Resolve(r)
  <2>1. PICK r \in Resolutions, d \in Disputes, s \in Verdicts, refund \in BOOLEAN:
          LET issues == refund /\ ~dispute[d].refundIssued
          IN /\ resolution' = [resolution EXCEPT ![r] =
                  [step |-> "assigned", dispute |-> d,
                   entity |-> [status |-> s, refundIssued |-> dispute[d].refundIssued \/ issues]]]
             /\ bus' = IF issues THEN bus \cup {A!RefundEvent(d, r)} ELSE bus
             /\ dispute' = dispute
    BY <1>7 DEF A!Resolve
  <2> DEFINE issues == refund /\ ~dispute[d].refundIssued
             e == [status |-> s, refundIssued |-> dispute[d].refundIssued \/ issues]
  <2>2. e \in Entities
    BY DEF AskTypeOK, Entities
  <2>3. e.refundIssued => Asked(d)'
    BY <1>2, <1>3, <2>1 DEF Asked
  <2>4. resolution' = [resolution EXCEPT ![r] = [step |-> "assigned", dispute |-> d, entity |-> e]]
    BY <2>1
  <2> HIDE DEF e
  <2>5. AskTypeOK'
    BY <2>1, <2>2, <2>4 DEF AskTypeOK
  <2>6. EntitiesAsked'
    BY <1>2, <2>3, <2>4 DEF AskTypeOK, EntitiesAsked
  <2> QED
    BY <1>2, <1>3, <2>1, <2>5, <2>6
<1>8. CASE \E r \in Resolutions: A!SaveDispute(r)
  <2>1. PICK r \in Resolutions: A!SaveDispute(r)
    BY <1>8
  <2>2. /\ resolution[r].step = "assigned" /\ resolution[r].dispute \in Disputes
        /\ resolution[r].entity \in Entities
        /\ resolution[r].entity.refundIssued => Asked(resolution[r].dispute)
    BY <2>1 DEF A!SaveDispute, AskTypeOK, EntitiesAsked
  <2>3. AskTypeOK'
    BY <2>1, <2>2 DEF A!SaveDispute, AskTypeOK
  <2>4. EntitiesAsked'
    BY <1>2, <2>1 DEF A!SaveDispute, AskTypeOK, EntitiesAsked
  <2> QED
    BY <1>2, <1>3, <2>1, <2>2, <2>3, <2>4 DEF A!SaveDispute, AskTypeOK
<1>9. CASE \E r \in Resolutions: A!ResolveThrows(r) \/ A!SaveDisputeFails(r)
  BY <1>2, <1>3, <1>9 DEF A!ResolveThrows, A!SaveDisputeFails, AskTypeOK, EntitiesAsked
<1>10. CASE \/ \E k \in RateCalls: A!SaveCommission(k) \/ A!AnnounceCommission(k) \/ A!CommissionFails(k)
            \/ A!ApplyCommission \/ A!PaymentRestarts
  BY <1>2, <1>3, <1>10 DEF A!SaveCommission, A!AnnounceCommission, A!CommissionFails, A!ApplyCommission,
     A!PaymentRestarts, AskTypeOK, EntitiesAsked
<1>11. CASE A!AdminCrash
  BY <1>2, <1>3, <1>11 DEF A!AdminCrash, AskTypeOK, EntitiesAsked
<1> QED
  BY <1>5, <1>6, <1>7, <1>8, <1>9, <1>10, <1>11, Parts DEF A!AdminNext

\* No dispute shows a refund as issued that nobody asked for, whichever call
\* saved its stale copy last and wherever the service stopped.
THEOREM IssuedWasAsked == AftercareSpec => []IssuedIsAsked
<1>1. AskInv => IssuedIsAsked
  BY DEF AskInv
<1> QED
  BY <1>1, AskInit, AskStep, PTL DEF AftercareSpec

-----------------------------------------------------------------------------
(* Notifications. A message that is not acknowledged has left one for each *)
(* crash at most.                                                          *)

\* Those of an event among the notifications of an inbox.
NotesIn(box, e) == {n \in box: n.event = e}

TellInv ==
  /\ notificationCrashes \in Nat
  /\ IsFiniteSet(inbox)
  /\ \A n \in inbox: n.event \in bus
  /\ \A e \in bus \ told: Cardinality(NotesIn(inbox, e)) <= notificationCrashes
  /\ \A e \in bus: Cardinality(NotesIn(inbox, e)) <= 1 + notificationCrashes

\* The notifications of an event are finitely many.
LEMMA NotesFinite ==
  ASSUME NEW box, IsFiniteSet(box), NEW e
  PROVE  IsFiniteSet(NotesIn(box, e)) /\ Cardinality(NotesIn(box, e)) \in Nat
<1>1. NotesIn(box, e) \in SUBSET box
  BY DEF NotesIn
<1> QED
  BY <1>1, FS_Subset, FS_CardinalityType

\* One more notification of e is one more for e and none for the others.
LEMMA NoteAdded ==
  ASSUME NEW box, IsFiniteSet(box), NEW n, NEW f
  PROVE  /\ Cardinality(NotesIn(box \cup {n}, f)) \in Nat
         /\ Cardinality(NotesIn(box \cup {n}, f)) <=
              Cardinality(NotesIn(box, f)) + IF f = n.event THEN 1 ELSE 0
<1>1. IsFiniteSet(NotesIn(box, f)) /\ Cardinality(NotesIn(box, f)) \in Nat
  BY NotesFinite
<1>2. CASE f = n.event
  <2>1. NotesIn(box \cup {n}, f) = NotesIn(box, f) \cup {n}
    BY <1>2 DEF NotesIn
  <2>2. Cardinality(NotesIn(box, f) \cup {n}) \in {Cardinality(NotesIn(box, f)), Cardinality(NotesIn(box, f)) + 1}
    BY <1>1, FS_AddElement
  <2> QED
    BY <1>1, <1>2, <2>1, <2>2
<1>3. CASE f # n.event
  <2>1. NotesIn(box \cup {n}, f) = NotesIn(box, f)
    BY <1>3 DEF NotesIn
  <2> QED
    BY <1>1, <1>3, <2>1
<1> QED
  BY <1>2, <1>3

\* Storing a notification of an event adds one of its notifications.
LEMMA NoteStored ==
  ASSUME IsFiniteSet(inbox), NEW e, inbox' \in N!Stored(e)
  PROVE  /\ IsFiniteSet(inbox')
         /\ \A n \in inbox': n \in inbox \/ n.event = e
         /\ \A f: /\ Cardinality(NotesIn(inbox, f)) \in Nat /\ Cardinality(NotesIn(inbox', f)) \in Nat
                  /\ Cardinality(NotesIn(inbox', f)) <=
                       Cardinality(NotesIn(inbox, f)) + IF f = e THEN 1 ELSE 0
<1> DEFINE n == N!Note(e, 1)
<1>1. inbox' = inbox \cup {n} /\ n.event = e
  BY DEF N!Stored, N!Note
<1> HIDE DEF n
<1>2. IsFiniteSet(inbox \cup {n})
  BY FS_AddElement
<1>3. ASSUME NEW f
      PROVE  /\ Cardinality(NotesIn(inbox, f)) \in Nat
             /\ Cardinality(NotesIn(inbox \cup {n}, f)) \in Nat
             /\ Cardinality(NotesIn(inbox \cup {n}, f)) <=
                  Cardinality(NotesIn(inbox, f)) + IF f = n.event THEN 1 ELSE 0
  <2>1. Cardinality(NotesIn(inbox, f)) \in Nat
    BY NotesFinite
  <2>2. /\ Cardinality(NotesIn(inbox \cup {n}, f)) \in Nat
        /\ Cardinality(NotesIn(inbox \cup {n}, f)) <=
             Cardinality(NotesIn(inbox, f)) + IF f = n.event THEN 1 ELSE 0
    BY NoteAdded
  <2> QED
    BY <2>1, <2>2
<1> QED
  BY <1>1, <1>2, <1>3

LEMMA TellInit == AftercareInit => TellInv
BY FS_EmptySet DEF AftercareInit, N!NotificationInit, TellInv

LEMMA TellStep == EventsNamed /\ TellInv /\ [AftercareNext]_aftercareVars => TellInv'
<1> SUFFICES ASSUME EventsNamed, TellInv, [AftercareNext]_aftercareVars PROVE TellInv'
  OBVIOUS
<1> USE DEF TellInv
<1>1. bus \subseteq bus'
  BY BusStep DEF BusOnlyGrows
<1>2. ASSUME NEW e, e \notin bus
      PROVE  Cardinality(NotesIn(inbox, e)) = 0
  <2>1. NotesIn(inbox, e) = {}
    BY <1>2 DEF NotesIn
  <2> QED
    BY <2>1, FS_EmptySet
<1>3. CASE UNCHANGED <<inbox, notificationCrashes>> /\ told \subseteq told'
  BY <1>1, <1>2, <1>3
<1>4. CASE \E e \in bus: N!Deliver(e)
  <2>1. PICK e \in bus: N!Deliver(e)
    BY <1>4
  <2>2. /\ inbox' \in N!Stored(e) /\ told' = told \cup {e} /\ e \notin told
        /\ UNCHANGED <<bus, notificationCrashes>>
    BY <2>1 DEF N!Deliver, N!Undelivered
  <2> QED
    BY <2>2, NoteStored
<1>5. CASE \E e \in bus: N!DeliverAndDie(e)
  <2>1. PICK e \in bus: N!DeliverAndDie(e)
    BY <1>5
  <2>2. /\ inbox' \in N!Stored(e) /\ told' = told /\ e \notin told
        /\ bus' = bus /\ notificationCrashes' = notificationCrashes + 1
    BY <2>1 DEF N!DeliverAndDie, N!Undelivered
  <2> QED
    BY <2>2, NoteStored
<1>6. CASE (\E e \in bus: N!Ignore(e) \/ N!DeliverFails(e)) \/ UNCHANGED notificationVars
  BY <1>3, <1>6 DEF N!Ignore, N!DeliverFails, notificationVars
<1> QED
  BY <1>4, <1>5, <1>6, Parts DEF N!NotificationNext, N!Settle

\* A customer is told of an event once, and once more at most for every crash,
\* in whatever order the messages come.
THEOREM ToldOnceEach == AftercareSpec => []ToldOnce
<1>1. AftercareInit => EventsNamed
  BY DEF AftercareInit, EventsNamed
<1>2. EventsNamed /\ [AftercareNext]_aftercareVars => EventsNamed'
  BY BusStep DEF BusOnlyGrows
<1>3. TellInv => ToldOnce
  BY DEF TellInv, ToldOnce, N!ToldOnce, N!NotificationsOf, NotesIn, N!Cardinality, Cardinality
<1> QED
  BY <1>1, <1>2, <1>3, TellInit, TellStep, PTL DEF AftercareSpec

-----------------------------------------------------------------------------
(* The dashboard. Its records are one for each booking and kind of event,  *)
(* so that a figure of an owner is one of a set of the owner's bookings.   *)

Told(r) ==
  /\ r.type \in R!TRACKED /\ r.booking \in Bookings
  /\ PublishedOn(bus, r.type, r.booking)
  /\ r.owner = "none" \/ (r.owner = OwnerOf[r.booking] /\ r.amount = Amount[r.booking])

DashInv ==
  /\ \A r \in records: Told(r)
  /\ \A r, q \in records: r.type = q.type /\ r.booking = q.booking => r = q
  /\ \A e \in looked: e \in bus /\ e.rk \in R!TRACKED

LEMMA DashInit == AftercareInit => DashInv
BY DEF AftercareInit, R!ReportingInit, DashInv

\* What is recorded is true of its event.
LEMMA RecordTold ==
  ASSUME EventsNamed, NEW e \in bus, e.rk \in R!TRACKED
  PROVE  Told(R!Record(e))
BY DEF EventsNamed, Told, R!Record, PublishedOn

LEMMA DashStep == EventsNamed /\ DashInv /\ [AftercareNext]_aftercareVars => DashInv'
<1> SUFFICES ASSUME EventsNamed, DashInv, [AftercareNext]_aftercareVars PROVE DashInv'
  OBVIOUS
<1> USE DEF DashInv
<1>1. bus \subseteq bus'
  BY BusStep DEF BusOnlyGrows
<1>2. \A r: Told(r) => Told(r)'
  BY <1>1 DEF Told, PublishedOn
<1>3. ASSUME NEW E \in SUBSET looked, \A e \in E: ~R!Recorded(e),
             \A e, f \in E: e # f => <<e.rk, e.booking>> # <<f.rk, f.booking>>,
             records' = records \cup {R!Record(e) : e \in E}, looked' \subseteq looked
      PROVE  DashInv'
  <2>1. \A e \in E: Told(R!Record(e))
    BY RecordTold
  <2>2. \A e: R!Record(e).type = e.rk /\ R!Record(e).booking = e.booking
    BY DEF R!Record
  <2>3. ASSUME NEW r \in records', NEW q \in records', r.type = q.type, r.booking = q.booking
        PROVE  r = q
    <3>1. \A x \in records', e \in E: x \in records /\ x.type = e.rk => x.booking # e.booking
      BY <1>3 DEF R!Recorded
    <3>2. CASE r \in records /\ q \in records
      BY <2>3, <3>2
    <3>3. CASE r \notin records /\ q \notin records
      <4>1. PICK e \in E, f \in E: r = R!Record(e) /\ q = R!Record(f)
        BY <1>3, <3>3
      <4> QED
        BY <1>3, <2>2, <2>3, <4>1
    <3> QED
      BY <1>3, <2>2, <2>3, <3>1, <3>2, <3>3
  <2> QED
    BY <1>1, <1>2, <1>3, <2>1, <2>3
<1>4. CASE UNCHANGED records /\ looked' \subseteq looked
  BY <1>1, <1>2, <1>4
<1>5. CASE \E e \in bus: R!Look(e)
  BY <1>2, <1>5 DEF R!Look, R!Untracked
<1>6. CASE \E e \in bus: R!SaveRecord(e)
  <2>1. PICK e \in looked: R!SaveRecord(e)
    BY <1>6 DEF R!SaveRecord
  <2>2. CASE R!Recorded(e)
    BY <1>4, <2>1, <2>2 DEF R!SaveRecord
  <2>3. CASE ~R!Recorded(e)
    <3>1. records' = records \cup {R!Record(f) : f \in {e}} /\ looked' \subseteq looked
      BY <2>1, <2>3 DEF R!SaveRecord
    <3>2. {e} \in SUBSET looked
      OBVIOUS
    <3> QED
      BY <1>3, <2>3, <3>1, <3>2
  <2> QED
    BY <2>2, <2>3
<1>7. CASE R!ReportingCrash
  BY <1>3, <1>7 DEF R!ReportingCrash
<1> QED
  BY <1>4, <1>5, <1>6, <1>7, Parts DEF R!ReportingNext, R!RecordFails, reportingVars

\* The sums of the dashboard, over records and over bookings.
RecordsWorth(X) == R!MapThenSumSet(LAMBDA r: r.amount, X)
BookingsWorth(B) == R!MapThenSumSet(LAMBDA b: Amount[b], B)

LEMMA RecordsSum ==
  ASSUME NEW X, IsFiniteSet(X), \A r \in X: r.amount \in Nat
  PROVE  \E h: Sums(X, [r \in X |-> r.amount], h) /\ RecordsWorth(X) = h[X]
<1> DEFINE F == [r \in X |-> r.amount]
           P(h) == h = [C \in SUBSET X |-> IF C = {} THEN 0
                          ELSE (CHOOSE r \in C: TRUE).amount + h[C \ {CHOOSE r \in C: TRUE}]]
<1>1. RecordsWorth(X) = (CHOOSE h: P(h))[X]
  BY DEF RecordsWorth, R!MapThenSumSet, R!MapThenFoldSet
<1>2. F \in [X -> Nat]
  OBVIOUS
<1>3. \A C \in SUBSET X: C # {} => F[Pick(C)] = (CHOOSE r \in C: TRUE).amount
  BY DEF Pick
<1>4. \A h: Sums(X, F, h) <=> P(h)
  BY <1>3 DEF Sums, Pick
<1> HIDE DEF P, F
<1>5. P(CHOOSE h: P(h))
  BY <1>2, <1>4, SumsExist
<1>6. Sums(X, F, CHOOSE h: P(h))
  BY <1>4, <1>5
<1> QED
  BY <1>1, <1>6 DEF F

LEMMA BookingsSum ==
  ASSUME NEW g, Sums(Bookings, Amount, g), NEW B \in SUBSET Bookings
  PROVE  BookingsWorth(B) = g[B]
<1> DEFINE F == [b \in B |-> Amount[b]]
           P(h) == h = [C \in SUBSET B |-> IF C = {} THEN 0
                          ELSE Amount[CHOOSE b \in C: TRUE] + h[C \ {CHOOSE b \in C: TRUE}]]
<1>1. BookingsWorth(B) = (CHOOSE h: P(h))[B]
  BY DEF BookingsWorth, R!MapThenSumSet, R!MapThenFoldSet
<1>2. F \in [B -> Nat] /\ IsFiniteSet(B) /\ \A b \in B: F[b] = Amount[b]
  BY AftercareFacts, BookingsFinite, FS_Subset
<1>3. \A C \in SUBSET B: C # {} => F[Pick(C)] = Amount[CHOOSE b \in C: TRUE]
  BY DEF Pick
<1>4. \A h: Sums(B, F, h) <=> P(h)
  BY <1>3 DEF Sums, Pick
<1> HIDE DEF P, F
<1>5. P(CHOOSE h: P(h))
  BY <1>2, <1>4, SumsExist
<1>6. Sums(B, F, CHOOSE h: P(h))
  BY <1>4, <1>5
<1> QED
  BY <1>1, <1>2, <1>6, AftercareFacts, BookingsFinite, SumsUnique

LEMMA Figures == DashInv => DashboardHonest
<1> SUFFICES ASSUME DashInv, NEW o \in Owners
             PROVE  LET Own == {b \in Bookings: OwnerOf[b] = o}
                    IN /\ R!Revenue(o) <= R!MapThenSumSet(LAMBDA b: Amount[b],
                            {b \in Own: R!PublishedOn(bus, "booking.completed", b)})
                       /\ \A t \in R!TRACKED: R!CountOf(o, t) <= Cardinality(Own)
  BY DEF DashboardHonest, R!DashboardHonest, R!Cardinality, Cardinality
<1> DEFINE Own == {b \in Bookings: OwnerOf[b] = o}
           Kind(t) == {r \in records: r.owner = o /\ r.type = t}
           Of(t) == [r \in Kind(t) |-> r.booking]
           Done == {b \in Own: R!PublishedOn(bus, "booking.completed", b)}
<1>1. \A t: \A r \in Kind(t): r.booking \in Own /\ r.amount = Amount[r.booking] /\ PublishedOn(bus, t, r.booking)
  BY AftercareNamesDiffer DEF DashInv, Told
<1>2. \A t: \A r, q \in Kind(t): r.booking = q.booking => r = q
  BY DEF DashInv
<1>3. Own \in SUBSET Bookings /\ IsFiniteSet(Own)
  BY BookingsFinite, FS_Subset
<1>4. ASSUME NEW t
      PROVE  IsFiniteSet(Kind(t)) /\ Cardinality(Kind(t)) <= Cardinality(Own)
  <2>1. Of(t) \in Injection(Kind(t), Own)
    BY <1>1, <1>2 DEF Injection, IsInjective
  <2> HIDE DEF Of, Kind, Own
  <2> QED
    BY <1>3, <2>1, FS_Injection
<1>5. RecordsWorth(Kind("booking.completed")) <= BookingsWorth(Done)
  <2> DEFINE X == Kind("booking.completed")
             G == [r \in X |-> r.amount]
             j == [r \in X |-> r.booking]
  <2>1. PICK g \in [SUBSET Bookings -> Nat]: Sums(Bookings, Amount, g)
    BY AftercareFacts, BookingsFinite, SumsExist
  <2>2. \A r \in X: /\ r.booking \in Own /\ r.amount = Amount[r.booking]
                   /\ \E e \in bus: e.rk = "booking.completed" /\ e.booking = r.booking
    BY <1>1 DEF PublishedOn
  <2>3. \A r, q \in X: r.booking = q.booking => r = q
    BY <1>2
  <2>4. IsFiniteSet(X)
    BY <1>4
  <2>5. \A b \in Own: (\E e \in bus: e.rk = "booking.completed" /\ e.booking = b) => b \in Done
    BY DEF R!PublishedOn
  <2>6. Done \in SUBSET Bookings
    OBVIOUS
  <2> HIDE DEF X, Done, Kind
  <2>7. {j[r] : r \in X} \in SUBSET Done
    BY <2>2, <2>5
  <2>8. j \in [X -> Bookings] /\ \A r \in X: G[r] = Amount[j[r]] /\ r.amount \in Nat
    BY <2>2, AftercareFacts
  <2>9. \A r, q \in X: j[r] = j[q] => r = q
    BY <2>3
  <2> HIDE DEF j, Own
  <2>10. PICK h: Sums(X, G, h) /\ RecordsWorth(X) = h[X]
    BY <2>4, <2>8, RecordsSum
  <2> HIDE DEF G
  <2>11. h[X] = g[{j[r] : r \in X}]
    BY <2>1, <2>4, <2>8, <2>9, <2>10, AftercareFacts, BookingsFinite, SumsRenamed
  <2>12. g[{j[r] : r \in X}] <= g[Done]
    BY <2>1, <2>6, <2>7, AftercareFacts, BookingsFinite, SumsMonotone
  <2>13. BookingsWorth(Done) = g[Done]
    BY <2>1, <2>6, BookingsSum
  <2> QED
    BY <2>10, <2>11, <2>12, <2>13 DEF X
<1>6. R!Revenue(o) = RecordsWorth(Kind("booking.completed"))
  BY DEF R!Revenue, RecordsWorth
<1>7. \A t: R!CountOf(o, t) = Cardinality(Kind(t))
  BY DEF R!CountOf, R!Cardinality, Cardinality
<1> QED
  BY <1>4, <1>5, <1>6, <1>7 DEF BookingsWorth

\* However often an event comes and whichever handler writes it down, the
\* dashboard of an owner counts a booking once and shows the revenue of visits
\* that were announced as completed.
THEOREM DashboardIsHonest == AftercareSpec => []DashboardHonest
<1>1. AftercareInit => EventsNamed
  BY DEF AftercareInit, EventsNamed
<1>2. EventsNamed /\ [AftercareNext]_aftercareVars => EventsNamed'
  BY BusStep DEF BusOnlyGrows
<1> QED
  BY <1>1, <1>2, DashInit, DashStep, Figures, PTL DEF AftercareSpec

-----------------------------------------------------------------------------
(* Loyalty. Ledger and account are written one after the other, so the     *)
(* account is bounded by what the ledger is worth without the visits whose *)
(* run has made its entry and not saved the account yet.                   *)

\* What visits are worth in points.
Worth(B) == L!MapThenSumSet(L!Points, B)

LEMMA WorthIs ==
  ASSUME NEW B \in SUBSET Bookings
  PROVE  /\ Worth(B) \in Nat
         /\ \A V \in SUBSET B: Worth(V) <= Worth(B)
         /\ \A b \in Bookings \ B: Worth(B \cup {b}) = Worth(B) + L!Points(b)
<1> DEFINE F == [b \in Bookings |-> L!Points(b)]
<1>1. F \in [Bookings -> Nat] /\ \A b \in Bookings: F[b] = L!Points(b)
  BY AftercareFacts DEF L!Points
<1> HIDE DEF F
<1>2. PICK g \in [SUBSET Bookings -> Nat]: Sums(Bookings, F, g)
  BY <1>1, BookingsFinite, SumsExist
<1>3. ASSUME NEW V \in SUBSET Bookings
      PROVE  Worth(V) = g[V]
  <2> DEFINE G == [b \in V |-> F[b]]
             P(h) == h = [C \in SUBSET V |-> IF C = {} THEN 0
                            ELSE L!Points(CHOOSE b \in C: TRUE) + h[C \ {CHOOSE b \in C: TRUE}]]
  <2>1. Worth(V) = (CHOOSE h: P(h))[V]
    BY DEF Worth, L!MapThenSumSet, L!MapThenFoldSet
  <2>2. G \in [V -> Nat] /\ IsFiniteSet(V) /\ \A b \in V: G[b] = F[b]
    BY <1>1, BookingsFinite, FS_Subset
  <2>3. \A C \in SUBSET V: C # {} => G[Pick(C)] = L!Points(CHOOSE b \in C: TRUE)
    BY <1>1 DEF Pick
  <2> HIDE DEF G
  <2>4. \A h: Sums(V, G, h) <=> P(h)
    BY <2>3 DEF Sums, Pick
  <2> HIDE DEF P
  <2>5. P(CHOOSE h: P(h))
    BY <2>2, <2>4, SumsExist
  <2>6. Sums(V, G, CHOOSE h: P(h))
    BY <2>4, <2>5
  <2> QED
    BY <1>1, <1>2, <2>1, <2>2, <2>6, BookingsFinite, SumsUnique
<1>4. \A V \in SUBSET B: g[V] <= g[B]
  BY <1>1, <1>2, BookingsFinite, SumsMonotone
<1>5. ASSUME NEW b \in Bookings \ B
      PROVE  g[B \cup {b}] = g[B] + F[b]
  <2> DEFINE U == B \cup {b}
  <2>1. U \ {b} = B /\ U \in SUBSET Bookings /\ b \in U
    OBVIOUS
  <2> HIDE DEF U
  <2>2. g[U] = F[b] + g[U \ {b}]
    BY <1>1, <1>2, <2>1, BookingsFinite, SumsRemove
  <2>3. g[B] \in Nat /\ F[b] \in Nat
    BY <1>1, <1>2
  <2>4. g[U] = F[b] + g[B]
    BY <2>1, <2>2, Zenon
  <2>5. g[U] = g[B] + F[b]
    BY <2>3, <2>4
  <2> QED
    BY <2>5 DEF U
<1>6. \A V \in SUBSET B: V \in SUBSET Bookings
  OBVIOUS
<1>7. ASSUME NEW b \in Bookings \ B
      PROVE  Worth(B \cup {b}) = Worth(B) + L!Points(b)
  <2>1. B \cup {b} \in SUBSET Bookings
    OBVIOUS
  <2> QED
    BY <1>1, <1>3, <1>5, <2>1
<1> QED
  BY <1>2, <1>3, <1>4, <1>6, <1>7

\* A run that has made its entry, and the visits such a run is yet to add.
Past(r) == r.step \in {"entered", "missing", "read"}
Counting(b) == \E r \in lruns: Past(r) /\ r.event.rk = "booking.completed" /\ r.event.booking = b
Settled(c) == {b \in L!EarnedBy(c): ~Counting(b)}

LoyaltyTypeOK ==
  /\ account \in [Customers -> Nat \cup {NoAccount}]
  /\ ledger \subseteq [type: {"earn", "reverse"}, booking: Bookings]
  /\ lruns \subseteq [event: {e \in bus: e.rk \in L!LoyaltyKeys},
                      step: {"due", "entered", "missing", "read"}, points: Nat]

\* What stands in the ledger was announced.
LedgerBacked ==
  \A b \in Bookings:
    /\ L!Earned(b) => PublishedOn(bus, "booking.completed", b)
    /\ L!Entry("reverse", b) \in ledger => L!Earned(b) /\ PublishedOn(bus, "payment.refunded", b)

\* Runs past their entry have it in the ledger, each its own.
RunsBacked ==
  /\ \A r \in lruns:
       /\ Past(r) => L!EntryOf(r.event) \in ledger
       /\ r.event.rk = "payment.refunded" => L!Earned(r.event.booking)
       /\ r.step # "read" => r.points = 0
  /\ \A r, q \in lruns: Past(r) /\ Past(q) /\ L!EntryOf(r.event) = L!EntryOf(q.event) => r = q

\* Neither an account nor what a run has read of it exceeds the settled visits.
CreditBacked ==
  /\ \A c \in Customers: account[c] # NoAccount => account[c] <= Worth(Settled(c))
  /\ \A r \in lruns: r.step = "read" => r.points <= Worth(Settled(L!Owner(r)))

LoyaltyInv == LoyaltyTypeOK /\ LedgerBacked /\ RunsBacked /\ CreditBacked

LEMMA LoyaltyInit == AftercareInit => LoyaltyInv
<1> SUFFICES ASSUME ledger = {}, account = [c \in Customers |-> NoAccount], lruns = {} PROVE LoyaltyInv
  BY DEF AftercareInit, L!LoyaltyInit
<1>1. LoyaltyTypeOK
  BY DEF LoyaltyTypeOK
<1>2. LedgerBacked /\ RunsBacked /\ CreditBacked
  BY DEF LedgerBacked, L!Earned, RunsBacked, CreditBacked
<1> QED
  BY <1>1, <1>2 DEF LoyaltyInv

\* Every point is of a visit in the ledger.
LEMMA Credits == LoyaltyInv => NeverOverCredited
<1> SUFFICES ASSUME LoyaltyInv PROVE NeverOverCredited
  OBVIOUS
<1>1. ASSUME NEW c \in Customers, account[c] # NoAccount
      PROVE  account[c] <= Worth(L!EarnedBy(c))
  <2>1. Settled(c) \in SUBSET L!EarnedBy(c) /\ L!EarnedBy(c) \in SUBSET Bookings
    BY DEF Settled, L!EarnedBy
  <2>2. account[c] <= Worth(Settled(c)) /\ account[c] \in Nat
    BY <1>1 DEF LoyaltyInv, CreditBacked, LoyaltyTypeOK
  <2>3. Settled(c) \in SUBSET Bookings
    BY <2>1
  <2>4. Worth(Settled(c)) <= Worth(L!EarnedBy(c)) /\ Worth(Settled(c)) \in Nat /\ Worth(L!EarnedBy(c)) \in Nat
    BY <2>1, <2>3, WorthIs
  <2> QED
    BY <2>2, <2>4
<1>2. \A b \in Bookings:
        /\ L!Earned(b) => L!PublishedOn(bus, "booking.completed", b)
        /\ L!Entry("reverse", b) \in ledger => L!Earned(b) /\ L!PublishedOn(bus, "payment.refunded", b)
  BY DEF LoyaltyInv, LedgerBacked, PublishedOn, L!PublishedOn
<1>3. \A c \in Customers: account[c] # NoAccount => account[c] <= L!MapThenSumSet(L!Points, L!EarnedBy(c))
  BY <1>1 DEF Worth
<1> QED
  BY <1>2, <1>3 DEF NeverOverCredited, L!NeverOverCredited

LEMMA SettledIn == \A c: Settled(c) \in SUBSET Bookings
BY DEF Settled, L!EarnedBy

\* What is known of the event of a run, and of what the run has read.
LEMMA RunFacts ==
  ASSUME EventsNamed, LoyaltyInv, NEW r \in lruns
  PROVE  /\ r.event \in bus /\ r.event.booking \in Bookings /\ L!Owner(r) \in Customers
         /\ r.event.rk \in {"booking.completed", "payment.refunded"} /\ r.points \in Nat
         /\ r = [event |-> r.event, step |-> r.step, points |-> r.points]
         /\ L!Points(r.event.booking) \in Nat
BY AftercareFacts DEF EventsNamed, LoyaltyInv, LoyaltyTypeOK, L!LoyaltyKeys, L!Owner, L!Points

\* A run counts its own visit, which is not settled before the account is saved.
LEMMA OwnVisit ==
  ASSUME EventsNamed, LoyaltyInv, NEW r \in lruns, Past(r), r.event.rk = "booking.completed"
  PROVE  /\ r.event.booking \in L!EarnedBy(L!Owner(r))
         /\ r.event.booking \notin Settled(L!Owner(r))
<1>1. r.event.booking \in Bookings /\ L!EntryOf(r.event) \in ledger
  BY RunFacts DEF LoyaltyInv, RunsBacked
<1>2. L!Earned(r.event.booking)
  BY <1>1 DEF L!Earned, L!EntryOf
<1>3. Counting(r.event.booking)
  BY DEF Counting
<1> QED
  BY <1>1, <1>2, <1>3 DEF Settled, L!EarnedBy, L!Owner

\* What a run saves is covered by the settled visits and the one it counts.
LEMMA ChangedBacked ==
  ASSUME EventsNamed, LoyaltyInv, NEW r \in lruns, r.step = "read",
         NEW V \in SUBSET Bookings, Settled(L!Owner(r)) \subseteq V,
         r.event.rk = "booking.completed" => r.event.booking \in V
  PROVE  /\ L!Changed(r.event, r.points) \in Nat
         /\ L!Changed(r.event, r.points) <= Worth(V)
<1> DEFINE b == r.event.booking
           U == Settled(L!Owner(r))
<1>1. /\ b \in Bookings /\ r.points \in Nat /\ L!Points(b) \in Nat
      /\ r.event.rk \in {"booking.completed", "payment.refunded"}
  BY RunFacts
<1>2. r.points <= Worth(U)
  BY DEF LoyaltyInv, CreditBacked
<1>3. U \in SUBSET Bookings /\ U \in SUBSET V
  BY SettledIn
<1>4. CASE r.event.rk = "booking.completed"
  <2>1. b \notin U
    BY <1>4, OwnVisit DEF Past
  <2>2. b \in Bookings \ U /\ U \cup {b} \in SUBSET V /\ U \cup {b} \in SUBSET Bookings
    BY <1>1, <1>3, <1>4, <2>1
  <2> HIDE DEF U
  <2>3. Worth(U \cup {b}) = Worth(U) + L!Points(b) /\ Worth(U) \in Nat
    BY <1>3, <2>2, WorthIs
  <2>4. Worth(U \cup {b}) <= Worth(V) /\ Worth(U \cup {b}) \in Nat /\ Worth(V) \in Nat
    BY <2>2, WorthIs
  <2>5. L!Changed(r.event, r.points) = r.points + L!Points(b)
    BY <1>4 DEF L!Changed
  <2> HIDE DEF b
  <2> QED
    BY <1>1, <1>2, <2>3, <2>4, <2>5
<1>5. CASE r.event.rk = "payment.refunded"
  <2>1. Worth(U) <= Worth(V) /\ Worth(U) \in Nat /\ Worth(V) \in Nat
    BY <1>3, WorthIs
  <2>2. L!Changed(r.event, r.points) = IF r.points > L!Points(b) THEN r.points - L!Points(b) ELSE 0
    BY <1>5 DEF L!Changed
  <2> HIDE DEF U, b
  <2> QED
    BY <1>1, <1>2, <2>1, <2>2
<1> QED
  BY <1>1, <1>4, <1>5

\* The settled visits only become more, so what was covered still is.
LEMMA CreditKept ==
  ASSUME LoyaltyInv, EventsNamed', LoyaltyTypeOK', \A c \in Customers: Settled(c) \subseteq Settled(c)',
         \A c \in Customers: account'[c] # NoAccount =>
           account'[c] = account[c] \/ account'[c] <= Worth(Settled(c)'),
         \A r \in lruns': r.step = "read" =>
           r \in lruns \/ r.points <= Worth(Settled(L!Owner(r))')
  PROVE  CreditBacked'
<1>1. ASSUME NEW c \in Customers, NEW n \in Nat, n <= Worth(Settled(c))
      PROVE  n <= Worth(Settled(c)')
  <2>1. Settled(c) \in SUBSET (Settled(c)') /\ Settled(c)' \in SUBSET Bookings
    BY DEF Settled, L!EarnedBy
  <2>2. Settled(c) \in SUBSET Bookings
    BY SettledIn
  <2>3. Worth(Settled(c)) \in Nat
    BY <2>2, WorthIs
  <2>4. Worth(Settled(c)) <= Worth(Settled(c)') /\ Worth(Settled(c)') \in Nat
    BY <2>1, WorthIs
  <2> QED
    BY <1>1, <2>3, <2>4
<1>2. ASSUME NEW c \in Customers, account'[c] # NoAccount
      PROVE  account'[c] <= Worth(Settled(c)')
  <2>1. account'[c] \in Nat
    BY <1>2 DEF LoyaltyTypeOK
  <2>2. CASE account'[c] = account[c]
    BY <1>1, <1>2, <2>1, <2>2 DEF LoyaltyInv, CreditBacked
  <2> QED
    BY <1>2, <2>2
<1>3. ASSUME NEW r \in lruns', r.step = "read"
      PROVE  r.points <= Worth(Settled(L!Owner(r))')
  <2>1. r.points \in Nat /\ L!Owner(r) \in Customers
    BY AftercareFacts DEF LoyaltyTypeOK, EventsNamed, L!Owner
  <2>2. CASE r \in lruns
    BY <1>1, <1>3, <2>1, <2>2 DEF LoyaltyInv, CreditBacked
  <2> QED
    BY <1>3, <2>2
<1> QED
  BY <1>2, <1>3 DEF CreditBacked

\* The run r ends or goes on as q: no visit is unsettled by it.
LEMMA RunMoves ==
  ASSUME LoyaltyInv, NEW r \in lruns, NEW Q,
         \A q \in Q: /\ q \in [event: {r.event}, step: {"due", "entered", "missing", "read"}, points: Nat]
                     /\ Past(q) => Past(r)
                     /\ q.step # "read" => q.points = 0,
         \A p, q \in Q: p = q,
         lruns' = (lruns \ {r}) \cup Q, UNCHANGED <<ledger, bus>>,
         account' \in [Customers -> Nat \cup {NoAccount}]
  PROVE  /\ LoyaltyTypeOK' /\ LedgerBacked' /\ RunsBacked'
         /\ \A c \in Customers: Settled(c) \subseteq Settled(c)'
<1> USE DEF LoyaltyInv
<1>1. \A q \in Q: /\ q.event = r.event /\ q.step \in {"due", "entered", "missing", "read"} /\ q.points \in Nat
                  /\ q = [event |-> q.event, step |-> q.step, points |-> q.points]
  OBVIOUS
<1>2. LoyaltyTypeOK'
  BY <1>1 DEF LoyaltyTypeOK
<1>3. LedgerBacked'
  BY DEF LedgerBacked, L!Earned
<1>4. RunsBacked'
  <2>1. ASSUME NEW q \in lruns'
        PROVE  /\ Past(q) => L!EntryOf(q.event) \in ledger'
               /\ q.event.rk = "payment.refunded" => L!Earned(q.event.booking)'
               /\ q.step # "read" => q.points = 0
    BY <1>1 DEF RunsBacked, L!Earned
  <2>2. ASSUME NEW p \in lruns', NEW q \in lruns', Past(p), Past(q), L!EntryOf(p.event) = L!EntryOf(q.event)
        PROVE  p = q
    <3>1. CASE p \in Q /\ q \in Q
      BY <3>1
    <3>2. CASE p \in Q /\ q \notin Q
      <4>1. q \in lruns /\ q # r /\ Past(r) /\ L!EntryOf(r.event) = L!EntryOf(q.event)
        BY <1>1, <2>2, <3>2
      <4> QED
        BY <2>2, <4>1 DEF RunsBacked
    <3>3. CASE p \notin Q /\ q \in Q
      <4>1. p \in lruns /\ p # r /\ Past(r) /\ L!EntryOf(r.event) = L!EntryOf(p.event)
        BY <1>1, <2>2, <3>3
      <4> QED
        BY <2>2, <4>1 DEF RunsBacked
    <3>4. CASE p \notin Q /\ q \notin Q
      BY <2>2, <3>4 DEF RunsBacked
    <3> QED
      BY <3>1, <3>2, <3>3, <3>4
  <2> QED
    BY <2>1, <2>2 DEF RunsBacked
<1>5. \A b: Counting(b)' => Counting(b)
  BY <1>1 DEF Counting
<1> QED
  BY <1>2, <1>3, <1>4, <1>5 DEF Settled, L!EarnedBy, L!Earned

LEMMA LoyaltyStep == EventsNamed /\ LoyaltyInv /\ [AftercareNext]_aftercareVars => LoyaltyInv'
<1> SUFFICES ASSUME EventsNamed, LoyaltyInv, [AftercareNext]_aftercareVars PROVE LoyaltyInv'
  OBVIOUS
<1> USE DEF LoyaltyInv
<1>1. bus \subseteq bus' /\ EventsNamed'
  BY BusStep DEF BusOnlyGrows
<1>2. \A r \in lruns:
        /\ r.event \in bus /\ r.event.rk \in L!LoyaltyKeys /\ r.points \in Nat
        /\ r.step \in {"due", "entered", "missing", "read"}
        /\ r = [event |-> r.event, step |-> r.step, points |-> r.points]
  BY DEF LoyaltyTypeOK
<1>3. account \in [Customers -> Nat \cup {NoAccount}]
  BY DEF LoyaltyTypeOK
<1>4. ASSUME UNCHANGED <<ledger, account>>, lruns' \subseteq lruns \cup
               {[event |-> e, step |-> "due", points |-> 0] : e \in {f \in bus: f.rk \in L!LoyaltyKeys /\ L!Due(f)}},
             lruns \subseteq lruns'
      PROVE  LoyaltyInv'
  <2> DEFINE New == lruns' \ lruns
  <2>1. \A q \in New: /\ q.event \in bus /\ q.event.rk \in L!LoyaltyKeys /\ L!Due(q.event)
                      /\ q.step = "due" /\ q.points = 0
                      /\ q = [event |-> q.event, step |-> "due", points |-> 0]
    BY <1>4
  <2>2. LoyaltyTypeOK'
    BY <1>1, <1>2, <1>4, <2>1 DEF LoyaltyTypeOK
  <2>3. LedgerBacked'
    BY <1>1, <1>4 DEF LedgerBacked, L!Earned, PublishedOn
  <2>4. RunsBacked'
    <3>1. \A q \in New: ~Past(q) /\ (q.event.rk = "payment.refunded" => L!Earned(q.event.booking))
      BY <2>1 DEF Past, L!Due
    <3> QED
      BY <1>4, <2>1, <3>1 DEF RunsBacked, L!Earned
  <2>5. \A c \in Customers: Settled(c) \subseteq Settled(c)'
    <3>1. \A q \in New: ~Past(q)
      BY <2>1 DEF Past
    <3>2. \A b: Counting(b)' => Counting(b)
      BY <3>1 DEF Counting
    <3> QED
      BY <1>4, <3>2 DEF Settled, L!EarnedBy, L!Earned
  <2>6. \A q \in lruns': q.step = "read" => q \in lruns
    BY <2>1
  <2>7. CreditBacked'
    BY <1>1, <1>4, <2>2, <2>5, <2>6, CreditKept
  <2> QED
    BY <2>2, <2>3, <2>4, <2>7
<1>5. CASE UNCHANGED loyaltyVars
  BY <1>4, <1>5 DEF loyaltyVars
<1>6. CASE \E e \in bus: L!Look(e)
  BY <1>4, <1>6 DEF L!Look, L!Unread
<1>7. ASSUME NEW r \in lruns, L!InsertEntry(r)
      PROVE  LoyaltyInv'
  <2>1. r.step = "due" /\ UNCHANGED <<account, bus>>
    BY <1>7 DEF L!InsertEntry
  <2>2. CASE L!EntryOf(r.event) \in ledger
    <3> DEFINE Q == {}
    <3>1. lruns' = (lruns \ {r}) \cup Q /\ ledger' = ledger
      BY <1>7, <2>2 DEF L!InsertEntry
    <3> HIDE DEF Q
    <3>2. LoyaltyTypeOK' /\ LedgerBacked' /\ RunsBacked' /\ \A c \in Customers: Settled(c) \subseteq Settled(c)'
      <4>1. \A q \in Q: FALSE
        BY DEF Q
      <4> QED
        BY <1>3, <2>1, <3>1, <4>1, RunMoves
    <3>3. CreditBacked'
      BY <1>1, <2>1, <3>1, <3>2, CreditKept DEF Q
    <3> QED
      BY <3>2, <3>3
  <2>3. CASE L!EntryOf(r.event) \notin ledger
    <3> DEFINE q == [event |-> r.event, step |-> "entered", points |-> r.points]
    <3>1. lruns' = (lruns \ {r}) \cup {q} /\ ledger' = ledger \cup {L!EntryOf(r.event)}
      BY <1>2, <1>7, <2>3 DEF L!InsertEntry
    <3>2. q.event = r.event /\ q.step = "entered" /\ q.points = 0
      BY <2>1 DEF RunsBacked
    <3> HIDE DEF q
    <3>3. /\ r.event \in bus /\ r.event.booking \in Bookings
          /\ r.event.rk \in {"booking.completed", "payment.refunded"}
      BY RunFacts
    <3>4. L!EntryOf(r.event) = [type |-> IF r.event.rk = "booking.completed" THEN "earn" ELSE "reverse",
                                booking |-> r.event.booking]
      BY DEF L!EntryOf, L!Entry
    <3>5. LoyaltyTypeOK'
      <4>1. q \in [event: {e \in bus: e.rk \in L!LoyaltyKeys}, step: {"due", "entered", "missing", "read"}, points: Nat]
        BY <1>2 DEF q
      <4> QED
        BY <1>1, <2>1, <3>1, <3>3, <3>4, <4>1 DEF LoyaltyTypeOK
    <3>6. LedgerBacked'
      <4>1. r.event.rk = "payment.refunded" => L!Earned(r.event.booking)
        BY DEF RunsBacked
      <4>2. \A x: x \in ledger' <=> x \in ledger \/ x = L!EntryOf(r.event)
        BY <3>1
      <4>3. /\ \A b: L!EntryOf(r.event) = L!Entry("earn", b) => r.event.booking = b /\ r.event.rk = "booking.completed"
            /\ \A b: L!EntryOf(r.event) = L!Entry("reverse", b) => r.event.booking = b /\ r.event.rk = "payment.refunded"
        BY <3>3, <3>4 DEF L!Entry
      <4>4. \A b \in Bookings: L!Earned(b)' => PublishedOn(bus, "booking.completed", b)
        BY <3>3, <4>2, <4>3 DEF LedgerBacked, L!Earned, PublishedOn
      <4>5. \A b \in Bookings: L!Entry("reverse", b) \in ledger' =>
              L!Earned(b)' /\ PublishedOn(bus, "payment.refunded", b)
        BY <3>3, <4>1, <4>2, <4>3 DEF LedgerBacked, L!Earned, PublishedOn
      <4> QED
        BY <2>1, <4>4, <4>5 DEF LedgerBacked
    <3>7. RunsBacked'
      <4>1. \A p \in lruns: Past(p) => L!EntryOf(p.event) # L!EntryOf(q.event) /\ L!EntryOf(p.event) \in ledger
        BY <2>3, <3>2 DEF RunsBacked
      <4> QED
        BY <3>1, <3>2, <4>1 DEF RunsBacked, L!Earned
    <3>8. \A c \in Customers: Settled(c) \subseteq Settled(c)'
      <4>1. ASSUME NEW b, L!Earned(b), Counting(b)'
            PROVE  Counting(b)
        <5>1. ~(r.event.rk = "booking.completed" /\ r.event.booking = b)
          BY <2>3, <4>1 DEF L!EntryOf, L!Earned
        <5> QED
          BY <3>1, <3>2, <4>1, <5>1 DEF Counting
      <4> QED
        BY <3>1, <4>1 DEF Settled, L!EarnedBy, L!Earned
    <3>9. CreditBacked'
      BY <1>1, <2>1, <3>1, <3>2, <3>5, <3>8, CreditKept
    <3> QED
      BY <3>5, <3>6, <3>7, <3>9
  <2> QED
    BY <2>2, <2>3
<1>8. ASSUME NEW r \in lruns, L!ReadAccount(r)
      PROVE  LoyaltyInv'
  <2> DEFINE c == L!Owner(r)
             q == IF account[c] = NoAccount THEN [event |-> r.event, step |-> "missing", points |-> r.points]
                  ELSE [event |-> r.event, step |-> "read", points |-> account[c]]
             Q == {q}
  <2>1. /\ r.step = "entered" /\ UNCHANGED <<ledger, account, bus>>
        /\ lruns' = (lruns \ {r}) \cup Q
    <3>1. PICK e, s, n: r = [event |-> e, step |-> s, points |-> n]
      BY <1>2
    <3>2. [r EXCEPT !.step = "missing"] = [event |-> r.event, step |-> "missing", points |-> r.points]
      BY <3>1
    <3>3. ASSUME NEW m
          PROVE  [r EXCEPT !.step = "read", !.points = m] = [event |-> r.event, step |-> "read", points |-> m]
      <4>1. [r EXCEPT !.step = "read", !.points = m] = [[r EXCEPT !.step = "read"] EXCEPT !.points = m]
        BY <3>1
      <4>2. [r EXCEPT !.step = "read"] = [event |-> r.event, step |-> "read", points |-> r.points]
        BY <3>1
      <4>3. ASSUME NEW x, x = [event |-> r.event, step |-> "read", points |-> r.points]
            PROVE  [x EXCEPT !.points = m] = [event |-> r.event, step |-> "read", points |-> m]
        BY <4>3
      <4> QED
        BY <4>1, <4>2, <4>3
    <3> QED
      BY <1>8, <3>2, <3>3 DEF L!ReadAccount
  <2>2. c \in Customers /\ r.points = 0 /\ Past(r)
    BY <2>1, RunFacts DEF RunsBacked, Past
  <2>3. /\ q \in [event: {r.event}, step: {"due", "entered", "missing", "read"}, points: Nat]
        /\ q.step # "read" => q.points = 0
        /\ q.step = "read" => account[c] # NoAccount /\ q.points = account[c]
    BY <1>2, <1>3, <2>2
  <2>4. q.event = r.event
    OBVIOUS
  <2> HIDE DEF q, Q, c
  <2>5. LoyaltyTypeOK' /\ LedgerBacked' /\ RunsBacked' /\ \A d \in Customers: Settled(d) \subseteq Settled(d)'
    <3>1. \A p \in Q: p = q
      BY DEF Q
    <3> QED
      BY <1>3, <2>1, <2>2, <2>3, <3>1, RunMoves
  <2>6. q.step = "read" => q.points <= Worth(Settled(c)')
    <3>1. Settled(c) \in SUBSET (Settled(c)') /\ Settled(c)' \in SUBSET Bookings
      BY <2>2, <2>5 DEF Settled, L!EarnedBy
    <3>2. Settled(c) \in SUBSET Bookings
      BY SettledIn
    <3>3. Worth(Settled(c)) <= Worth(Settled(c)') /\ Worth(Settled(c)) \in Nat /\ Worth(Settled(c)') \in Nat
      BY <3>1, <3>2, WorthIs
    <3>4. q.step = "read" => q.points <= Worth(Settled(c)) /\ q.points \in Nat
      BY <2>2, <2>3 DEF CreditBacked
    <3> QED
      BY <3>3, <3>4
  <2>7. CreditBacked'
    BY <1>1, <2>1, <2>4, <2>5, <2>6, CreditKept DEF L!Owner, c, Q
  <2> QED
    BY <2>5, <2>7
<1>9. ASSUME NEW r \in lruns, L!CreateAccount(r)
      PROVE  LoyaltyInv'
  <2> DEFINE c == L!Owner(r)
             q == [event |-> r.event, step |-> "read", points |-> r.points]
             Q == IF account[c] = NoAccount THEN {q} ELSE {}
  <2>1. /\ r.step = "missing" /\ UNCHANGED <<ledger, bus>> /\ lruns' = (lruns \ {r}) \cup Q
        /\ account' = account \/ account' = [account EXCEPT ![c] = 0]
    BY <1>2, <1>9 DEF L!CreateAccount
  <2>2. c \in Customers /\ r.points = 0 /\ Past(r)
    BY <2>1, RunFacts DEF RunsBacked, Past
  <2>3. account' \in [Customers -> Nat \cup {NoAccount}]
    BY <1>3, <2>1
  <2>4. \A p \in Q: /\ p \in [event: {r.event}, step: {"due", "entered", "missing", "read"}, points: Nat]
                    /\ p.step = "read" /\ p.points = 0
    BY <2>2
  <2>5. \A p1, p2 \in Q: p1 = p2
    OBVIOUS
  <2> HIDE DEF Q, c
  <2>6. LoyaltyTypeOK' /\ LedgerBacked' /\ RunsBacked' /\ \A d \in Customers: Settled(d) \subseteq Settled(d)'
    BY <2>1, <2>2, <2>3, <2>4, <2>5, RunMoves
  <2>7. ASSUME NEW d \in Customers
        PROVE  0 <= Worth(Settled(d)')
    <3>1. Settled(d)' \in SUBSET Bookings
      BY DEF Settled, L!EarnedBy
    <3> QED
      BY <3>1, WorthIs
  <2>8. \A d \in Customers: account'[d] # account[d] => account'[d] = 0
    BY <1>3, <2>1
  <2>9. \A p \in lruns': p.step = "read" => p \in lruns \/ (p.points = 0 /\ L!Owner(p) \in Customers)
    BY <2>1, <2>2, <2>4 DEF L!Owner, c
  <2>10. CreditBacked'
    BY <1>1, <2>6, <2>7, <2>8, <2>9, CreditKept
  <2> QED
    BY <2>6, <2>10
<1>10. ASSUME NEW r \in lruns, L!SaveAccount(r)
       PROVE  LoyaltyInv'
  <2> DEFINE c == L!Owner(r)
             n == L!Changed(r.event, r.points)
             Q == {}
  <2>1. /\ r.step = "read" /\ UNCHANGED <<ledger, bus>> /\ lruns' = (lruns \ {r}) \cup Q
        /\ account' = [account EXCEPT ![c] = n]
    BY <1>10 DEF L!SaveAccount
  <2>2. c \in Customers /\ Past(r) /\ r.event.booking \in Bookings
    BY <2>1, RunFacts DEF Past
  <2>3. n \in Nat
    BY <2>1, RunFacts DEF L!Changed
  <2> HIDE DEF n, Q
  <2>4. account' \in [Customers -> Nat \cup {NoAccount}]
    BY <1>3, <2>1, <2>3
  <2>5. LoyaltyTypeOK' /\ LedgerBacked' /\ RunsBacked' /\ \A d \in Customers: Settled(d) \subseteq Settled(d)'
    <3>1. \A q \in Q: FALSE
      BY DEF Q
    <3> QED
      BY <2>1, <2>4, <3>1, RunMoves
  <2>6. r.event.rk = "booking.completed" => r.event.booking \in Settled(c)'
    <3> SUFFICES ASSUME r.event.rk = "booking.completed" PROVE r.event.booking \in Settled(c)'
      OBVIOUS
    <3>1. r.event.booking \in L!EarnedBy(c)
      BY <2>2, OwnVisit
    <3>2. \A q \in lruns: Past(q) /\ q.event.rk = "booking.completed" /\ q.event.booking = r.event.booking => q = r
      BY <2>2 DEF RunsBacked, L!EntryOf
    <3>3. ~\E q \in lruns': Past(q) /\ q.event.rk = "booking.completed" /\ q.event.booking = r.event.booking
      BY <2>1, <3>2 DEF Q
    <3> QED
      BY <2>1, <3>1, <3>3 DEF Settled, Counting, L!EarnedBy, L!Earned
  <2>7. n <= Worth(Settled(c)')
    <3>1. Settled(c)' \in SUBSET Bookings
      BY DEF Settled, L!EarnedBy
    <3>2. Settled(c) \subseteq Settled(c)'
      BY <2>2, <2>5
    <3> QED
      BY <2>1, <2>6, <3>1, <3>2, ChangedBacked DEF n
  <2> HIDE DEF c
  <2>8. \A d \in Customers: account'[d] = account[d] \/ account'[d] <= Worth(Settled(d)')
    BY <1>3, <2>1, <2>2, <2>7
  <2>9. CreditBacked'
    BY <1>1, <2>1, <2>5, <2>8, CreditKept DEF Q
  <2> QED
    BY <2>5, <2>9
<1>11. ASSUME NEW r \in lruns, L!RunThrows(r)
       PROVE  LoyaltyInv'
  <2> DEFINE Q == {}
  <2>1. lruns' = (lruns \ {r}) \cup Q /\ UNCHANGED <<ledger, account, bus>>
    BY <1>11 DEF L!RunThrows
  <2> HIDE DEF Q
  <2>2. LoyaltyTypeOK' /\ LedgerBacked' /\ RunsBacked' /\ \A c \in Customers: Settled(c) \subseteq Settled(c)'
    <3>1. \A q \in Q: FALSE
      BY DEF Q
    <3> QED
      BY <1>3, <2>1, <3>1, RunMoves
  <2>3. CreditBacked'
    BY <1>1, <2>1, <2>2, CreditKept DEF Q
  <2> QED
    BY <2>2, <2>3
<1>12. ASSUME NEW c \in Customers, L!GetMe(c)
       PROVE  LoyaltyInv'
  <2>1. account' = [account EXCEPT ![c] = 0] /\ UNCHANGED <<ledger, lruns, bus>>
    BY <1>12 DEF L!GetMe
  <2>2. LoyaltyTypeOK' /\ LedgerBacked' /\ RunsBacked'
    BY <2>1 DEF LoyaltyTypeOK, LedgerBacked, RunsBacked, L!Earned
  <2>3. \A d \in Customers: Settled(d)' = Settled(d)
    BY <2>1 DEF Settled, Counting, L!EarnedBy, L!Earned
  <2>4. ASSUME NEW d \in Customers
        PROVE  0 <= Worth(Settled(d)')
    <3>1. Settled(d)' \in SUBSET Bookings
      BY DEF Settled, L!EarnedBy
    <3> QED
      BY <3>1, WorthIs
  <2>5. \A d \in Customers: account'[d] # account[d] => account'[d] = 0
    BY <1>3, <2>1
  <2>6. CreditBacked'
    BY <1>1, <2>1, <2>2, <2>3, <2>4, <2>5, CreditKept
  <2> QED
    BY <2>2, <2>6
<1>13. CASE L!LoyaltyCrash
  <2>1. lruns' = {} /\ UNCHANGED <<ledger, bus>>
    BY <1>13 DEF L!LoyaltyCrash
  <2>2. PICK S \in SUBSET {r \in lruns: r.step = "read"}:
          account' = [c \in Customers |->
            IF \E r \in S: L!Owner(r) = c
              THEN LET last == CHOOSE r \in S: L!Owner(r) = c IN L!Changed(last.event, last.points)
              ELSE account[c]]
    BY <1>13 DEF L!LoyaltyCrash
  <2>3. ASSUME NEW c \in Customers
        PROVE  account'[c] = account[c] \/ \E r \in S: L!Owner(r) = c /\ account'[c] = L!Changed(r.event, r.points)
    BY <2>2
  <2>4. account' \in [Customers -> Nat \cup {NoAccount}]
    <3>1. \A r \in S: L!Changed(r.event, r.points) \in Nat
      BY <2>2, RunFacts DEF L!Changed
    <3>2. \A c \in Customers: account'[c] \in Nat \cup {NoAccount}
      BY <1>3, <2>3, <3>1
    <3>3. account' = [c \in Customers |-> account'[c]]
      BY <2>2
    <3> QED
      BY <3>2, <3>3
  <2>5. LoyaltyTypeOK' /\ LedgerBacked' /\ RunsBacked'
    BY <2>1, <2>4 DEF LoyaltyTypeOK, LedgerBacked, RunsBacked, L!Earned
  <2>6. \A c \in Customers: Settled(c)' = L!EarnedBy(c)
    BY <2>1 DEF Settled, Counting, L!EarnedBy, L!Earned
  <2>7. ASSUME NEW r \in S
        PROVE  L!Changed(r.event, r.points) <= Worth(L!EarnedBy(L!Owner(r)))
    <3>1. r \in lruns /\ r.step = "read" /\ Past(r)
      BY <2>2 DEF Past
    <3>2. L!EarnedBy(L!Owner(r)) \in SUBSET Bookings /\ Settled(L!Owner(r)) \subseteq L!EarnedBy(L!Owner(r))
      BY DEF L!EarnedBy, Settled
    <3>3. r.event.rk = "booking.completed" => r.event.booking \in L!EarnedBy(L!Owner(r))
      BY <3>1, OwnVisit
    <3> QED
      BY <3>1, <3>2, <3>3, ChangedBacked
  <2>8. \A c \in Customers: Settled(c) \subseteq Settled(c)'
    BY <2>6 DEF Settled
  <2>9. \A c \in Customers: account'[c] = account[c] \/ account'[c] <= Worth(Settled(c)')
    BY <2>3, <2>6, <2>7
  <2>10. CreditBacked'
    BY <1>1, <2>1, <2>5, <2>8, <2>9, CreditKept
  <2> QED
    BY <2>5, <2>10
<1> QED
  BY <1>5, <1>6, <1>7, <1>8, <1>9, <1>10, <1>11, <1>12, <1>13, Parts DEF L!LoyaltyNext, L!RunOn

\* However often messages come again, race or are cut short by a crash, no
\* customer holds more points than the visits in the ledger are worth, and what
\* stands there was announced.
THEOREM NobodyOverCredited == AftercareSpec => []NeverOverCredited
<1>1. AftercareInit => EventsNamed
  BY DEF AftercareInit, EventsNamed
<1>2. EventsNamed /\ [AftercareNext]_aftercareVars => EventsNamed'
  BY BusStep DEF BusOnlyGrows
<1> QED
  BY <1>1, <1>2, LoyaltyInit, LoyaltyStep, Credits, PTL DEF AftercareSpec
=============================================================================
