---------------------------- MODULE BookingProofs ----------------------------
(***************************************************************************)
(* What holds of Booking for any number of bookings, slots and workers.    *)
(***************************************************************************)
EXTENDS Booking, TLAPS

-----------------------------------------------------------------------------
(* Lemmas about the operators.                                             *)

\* Every operation leaves a row of the table, and never a PENDING one.
LEMMA AssignedRow ==
  ASSUME NEW o \in Ops, NEW e \in Rows
  PROVE  /\ Assigned(o, e) \in Rows
         /\ Assigned(o, e).status \in Statuses \ {"pending"}
<1>1. CASE o = "confirm"
  BY <1>1 DEF Assigned, Rows, Statuses, ReleaseOps
<1>2. CASE o \in ReleaseOps
  BY <1>2 DEF Assigned, Rows, Statuses, ReleaseOps
<1>3. CASE o = "complete"
  BY <1>3 DEF Assigned, Rows, Statuses, ReleaseOps
<1>4. CASE o = "no_show"
  BY <1>4 DEF Assigned, Rows, Statuses, ReleaseOps
<1> QED
  BY <1>1, <1>2, <1>3, <1>4 DEF Ops, RequestOps, OutcomeOps, ReleaseOps

\* The operations announce events of the booking service only, slot.freed
\* only when they release, and a cancellation to refund only of a paid entity.
LEMMA AnnouncedKeys ==
  ASSUME NEW o \in Ops, NEW e \in Rows
  PROVE  /\ RoutingKeys(o, e) \subseteq BookingKeys
         /\ "slot.freed" \in RoutingKeys(o, e) => o \in ReleaseOps
         /\ "booking.cancelled" \in RoutingKeys(o, e) => e.paymentStatus = "paid"
<1>1. CASE o = "confirm"
  BY <1>1 DEF RoutingKeys, BookingKeys
<1>2. CASE o = "complete"
  BY <1>2 DEF RoutingKeys, BookingKeys
<1>3. CASE o = "no_show"
  BY <1>3 DEF RoutingKeys, BookingKeys
<1>4. CASE o \in ReleaseOps
  BY <1>4 DEF RoutingKeys, BookingKeys, ReleaseOps
<1> QED
  BY <1>1, <1>2, <1>3, <1>4 DEF Ops, RequestOps, OutcomeOps, ReleaseOps

\* Two bookings of one slot overlap, so the conflict query sees the other.
LEMMA SameKeyOverlaps ==
  ASSUME NEW s \in Slots, NEW t \in Slots,
         s.resource = t.resource, s.start = t.start
  PROVE  Overlaps(s, t)
BY SlotsAreIntervals DEF Overlaps

-----------------------------------------------------------------------------
(* The inductive invariant. CreatesExclusive and OnePendingPerSlot are not *)
(* inductive: they hold because a call in flight still has its lock, which *)
(* holds because nobody releases the lock of a booking that has no row     *)
(* yet, which holds because every worker works on a row it has read.       *)

Busy(w) == pc[w] \in {"loaded", "saved", "unlocked"}

\* A worker between its read and its end has loaded a call.
CallsLoaded == \A w \in Workers: Busy(w) => call[w] \in Calls

\* A row appears with the INSERT of its own create and not before.
NoRowBeforeInsert ==
  \A b \in Bookings: creq[b] \in {"idle", "locked", "checked"} => row[b].status = "none"

\* Workers only ever work on bookings whose row they have read.
WorkOnRows ==
  /\ \A w \in Workers: Busy(w) => row[call[w].booking].status # "none"
  /\ \A w \in Sweeps: \A t \in todo[w]: row[t.booking].status # "none"

\* A create in flight still owns the lock of its slot.
InFlightHoldsLock == \A b \in Bookings: InFlight(b) => lock[Key(b)] = b

\* After its conflict check no other booking of the slot is PENDING.
CheckedAlone ==
  \A b, c \in Bookings:
    creq[b] = "checked" /\ row[c].status = "pending" => Key(b) # Key(c)

LockInv == /\ TypeOK /\ CallsLoaded /\ NoRowBeforeInsert /\ WorkOnRows
           /\ InFlightHoldsLock /\ CheckedAlone /\ OnePendingPerSlot

\* What a row, an entity in memory or an event says was paid, was paid.
PaidRows ==
  \A b \in Bookings:
    \/ row[b].status \in {"confirmed", "completed", "no_show"}
    \/ row[b].paymentStatus = "paid"
    => Published("payment.completed", b)

PaidCalls ==
  \A w \in Workers: pc[w] = "loaded" /\ call[w].op \in {"confirm", "complete", "no_show"} =>
    Published("payment.completed", call[w].booking)

PaidEntities ==
  /\ \A w \in Workers: Busy(w) /\ call[w].entity.paymentStatus = "paid" =>
       Published("payment.completed", call[w].booking)
  /\ \A w \in Sweeps: \A t \in todo[w]: t.entity.paymentStatus = "paid" =>
       Published("payment.completed", t.booking)

PaidInv == TypeOK /\ CallsLoaded /\ PaidRows /\ PaidCalls /\ PaidEntities /\ RefundOnlyIfPaid

-----------------------------------------------------------------------------
(* Type correctness.                                                       *)

TypeInv == TypeOK /\ CallsLoaded

LEMMA KeyInKeys ==
  ASSUME TypeOK, NEW b \in Bookings
  PROVE  Key(b) \in Keys
BY DEF TypeOK, Key, Keys

\* releaseLock leaves a table of locks.
LEMMA UnlockedType ==
  ASSUME TypeOK, NEW k \in Keys, NEW b \in Bookings
  PROVE  Unlocked(k, b) \in [Keys -> Bookings \cup {NoOne}]
BY DEF TypeOK, Unlocked

LEMMA AnnouncedType ==
  ASSUME NEW w \in Workers, call[w] \in Calls
  PROVE  Announced(w) \subseteq Events
<1> DEFINE o == call[w].op  e == call[w].entity
<1>1. o \in Ops /\ e \in Rows /\ call[w].booking \in Bookings
  BY DEF Calls
<1>2. ASSUME NEW rk \in RoutingKeys(o, e)
      PROVE  Event(rk, call[w].booking, w, IF rk = "slot.freed" THEN o ELSE "-") \in Events
  BY <1>1, AnnouncedKeys DEF Event, Events
<1> QED
  BY <1>2 DEF Announced

LEMMA TypeInit == Init => TypeInv
BY FaultsKnown DEF Init, TypeInv, TypeOK, CallsLoaded, Busy, Rows, NoRow

\* create only moves its own call, the lock of its key and its own row.
LEMMA TypeCreate ==
  ASSUME TypeInv, NEW b \in Bookings, Create(b)
  PROVE  TypeInv'
<1> USE DEF TypeInv
<1>1. Key(b) \in Keys
  BY KeyInKeys
<1>2. /\ creq' \in [Bookings -> {"idle", "locked", "checked", "inserted", "releasing",
                               "booked", "refused", "dead"}]
      /\ row' \in [Bookings -> Rows]
      /\ bus' \subseteq Events
      /\ lock' \in [Keys -> Bookings \cup {NoOne}]
  <2>1. CASE RejectCreate(b) \/ LockTaken(b) \/ CheckConflict(b) \/ TransactionFails(b)
             \/ PublishPendingThrows(b)
    BY <2>1 DEF TypeOK, RejectCreate, LockTaken, CheckConflict, TransactionFails,
                PublishPendingThrows
  <2>2. CASE AcquireLock(b) \/ LockStranded(b)
    BY <2>2, <1>1 DEF TypeOK, AcquireLock, LockStranded
  <2>3. CASE Insert(b)
    BY <2>3 DEF TypeOK, Insert, Rows, Statuses
  <2>4. CASE PublishPending(b)
    BY <2>4 DEF TypeOK, PublishPending, Event, Events, BookingKeys
  <2>5. CASE ReleaseAfterFailure(b)
    BY <2>5, <1>1, UnlockedType DEF TypeOK, ReleaseAfterFailure
  <2> QED
    BY <2>1, <2>2, <2>3, <2>4, <2>5 DEF Create
<1>3. UNCHANGED <<slot, pc, call, todo, crashes>>
  BY DEF Create, RejectCreate, AcquireLock, LockTaken, LockStranded, CheckConflict, Insert,
         TransactionFails, PublishPending, PublishPendingThrows, ReleaseAfterFailure
<1> QED
  BY <1>2, <1>3 DEF TypeOK, CallsLoaded, Busy, Keys

PcValues == {"idle", "sweeping", "loaded", "saved", "unlocked", "done"}

LEMMA TypeHandleRequest ==
  ASSUME TypeInv, NEW w \in Requests, HandleRequest(w)
  PROVE  TypeInv'
<1> USE DEF TypeInv
<1>1. PICK b \in Bookings, o \in RequestOps:
        IF Permitted(o, row[b].status)
          THEN Load(w, o, b, row[b])
          ELSE pc' = [pc EXCEPT ![w] = "done"] /\ UNCHANGED call
  BY DEF HandleRequest
<1>2. [op |-> o, booking |-> b, entity |-> row[b]] \in Calls
  BY DEF TypeOK, Calls, Ops
<1>3. w \in Workers
  BY DEF Workers
<1>4. pc' \in [Workers -> PcValues] /\ call' \in [Workers -> Calls \cup {NoCall}] /\ CallsLoaded'
  BY <1>1, <1>2, <1>3 DEF TypeOK, Load, PcValues, CallsLoaded, Busy
<1> QED
  BY <1>4 DEF TypeOK, HandleRequest, PcValues, Keys

LEMMA TypeHandleOutcome ==
  ASSUME TypeInv, NEW m \in Deliveries, HandleOutcome(m)
  PROVE  TypeInv'
<1> USE DEF TypeInv
<1>1. PICK e \in bus:
        LET o == IF e.rk = "payment.completed" THEN "confirm" ELSE "payment_failed"
        IN IF Permitted(o, row[e.booking].status)
             THEN Load(m, o, e.booking, row[e.booking])
             ELSE pc' = [pc EXCEPT ![m] = "done"] /\ UNCHANGED call
  BY DEF HandleOutcome
<1> DEFINE o == IF e.rk = "payment.completed" THEN "confirm" ELSE "payment_failed"
<1>2. e.booking \in Bookings
  BY DEF TypeOK, Events
<1>3. [op |-> o, booking |-> e.booking, entity |-> row[e.booking]] \in Calls
  BY <1>2 DEF TypeOK, Calls, Ops, OutcomeOps
<1>4. m \in Workers
  BY DEF Workers
<1>5. pc' \in [Workers -> PcValues] /\ call' \in [Workers -> Calls \cup {NoCall}] /\ CallsLoaded'
  BY <1>1, <1>3, <1>4 DEF TypeOK, Load, PcValues, CallsLoaded, Busy
<1> QED
  BY <1>5 DEF TypeOK, HandleOutcome, PcValues, Keys

LEMMA TypeFindExpired ==
  ASSUME TypeInv, NEW w \in Sweeps, FindExpired(w)
  PROVE  TypeInv'
<1> DEFINE expired == {b \in Bookings: row[b].status = "pending" /\ row[b].deadline = "passed"}
           found == {[booking |-> b, entity |-> row[b]] : b \in expired}
<1>1. found \subseteq [booking: Bookings, entity: Rows]
  BY DEF TypeInv, TypeOK
<1>2. todo' = [todo EXCEPT ![w] = found] /\ pc' = [pc EXCEPT ![w] = "sweeping"]
  BY DEF FindExpired
<1>3. UNCHANGED <<slot, row, lock, creq, call, bus, crashes>>
  BY DEF FindExpired
<1> HIDE DEF found
<1>4. todo' \in [Sweeps -> SUBSET [booking: Bookings, entity: Rows]]
  BY <1>1, <1>2 DEF TypeInv, TypeOK
<1> QED
  BY <1>2, <1>3, <1>4 DEF TypeInv, TypeOK, CallsLoaded, Busy, Keys, Workers

LEMMA TypeNextExpired ==
  ASSUME TypeInv, NEW w \in Sweeps, NextExpired(w)
  PROVE  TypeInv'
<1> USE DEF TypeInv
<1>1. PICK t \in todo[w]:
        todo' = [todo EXCEPT ![w] = @ \ {t}] /\ Load(w, "payment_timeout", t.booking, t.entity)
  BY DEF NextExpired
<1>2. [op |-> "payment_timeout", booking |-> t.booking, entity |-> t.entity] \in Calls
  BY DEF TypeOK, Calls, Ops
<1>3. w \in Workers
  BY DEF Workers
<1>4. pc' \in [Workers -> PcValues] /\ call' \in [Workers -> Calls \cup {NoCall}] /\ CallsLoaded'
  BY <1>1, <1>2, <1>3 DEF TypeOK, Load, PcValues, CallsLoaded, Busy
<1>5. todo' \in [Sweeps -> SUBSET [booking: Bookings, entity: Rows]]
  BY <1>1 DEF TypeOK
<1> QED
  BY <1>4, <1>5 DEF TypeOK, NextExpired, PcValues, Keys

\* An exception leaves a worker idle or done, and nothing of its call.
LEMMA TypeAbort ==
  ASSUME TypeInv, NEW w \in Workers, Abort(w)
  PROVE  /\ creq' = creq
         /\ pc' \in [Workers -> PcValues]
         /\ call' \in [Workers -> Calls \cup {NoCall}]
         /\ todo' \in [Sweeps -> SUBSET [booking: Bookings, entity: Rows]]
         /\ CallsLoaded'
BY DEF TypeInv, TypeOK, Abort, PcValues, CallsLoaded, Busy

\* The end of the process leaves nothing in progress.
LEMMA TypeDie ==
  ASSUME TypeInv, Die
  PROVE  /\ creq' \in [Bookings -> {"idle", "refused", "booked", "dead"}]
         /\ pc' \in [Workers -> {"idle", "done"}]
         /\ call' \in [Workers -> {NoCall}]
         /\ todo' \in [Sweeps -> {{}}]
BY DEF TypeInv, TypeOK, Die

\* Every step of a worker on the call it has loaded.
LEMMA TypeWork ==
  ASSUME TypeInv, NEW w \in Workers, Work(w)
  PROVE  TypeInv'
<1> USE DEF TypeInv
<1>1. CASE Save(w)
  <2>1. call[w] \in Calls
    BY <1>1 DEF CallsLoaded, Save, Busy
  <2>2. Assigned(call[w].op, call[w].entity) \in Rows
    BY <2>1, AssignedRow DEF Calls
  <2> QED
    BY <1>1, <2>1, <2>2 DEF Save, TypeOK, CallsLoaded, Busy, Keys
<1>2. CASE ReleaseLock(w)
  <2>1. call[w].booking \in Bookings
    BY <1>2 DEF CallsLoaded, ReleaseLock, Busy, Calls
  <2>2. lock' \in [Keys -> Bookings \cup {NoOne}]
    BY <1>2, <2>1, KeyInKeys, UnlockedType DEF ReleaseLock
  <2> QED
    BY <1>2, <2>2 DEF ReleaseLock, TypeOK, CallsLoaded, Busy, Keys
<1>3. CASE Publish(w)
  <2>1. bus' \subseteq Events
    BY <1>3, AnnouncedType DEF Publish, TypeOK, CallsLoaded, Busy
  <2> QED
    BY <1>3, <2>1 DEF Publish, TypeOK, CallsLoaded, Busy, Keys
<1>4. CASE SaveFails(w)
  BY <1>4, TypeAbort DEF SaveFails, TypeOK, PcValues, Keys
<1>5. CASE PublishThrows(w)
  <2>1. CASE w \in Deliveries
    BY <1>5, <2>1, TypeDie DEF PublishThrows, TypeOK, CallsLoaded, Busy, Keys
  <2>2. CASE w \notin Deliveries
    BY <1>5, <2>2, TypeAbort DEF PublishThrows, TypeOK, PcValues, Keys
  <2> QED
    BY <2>1, <2>2
<1> QED
  BY <1>1, <1>2, <1>3, <1>4, <1>5 DEF Work

\* Clocks, a crash and the payment service.
LEMMA TypeEnvironment ==
  ASSUME TypeInv,
         \/ \E b \in Bookings: DeadlinePasses(b)
         \/ \E k \in Keys: LockExpires(k)
         \/ Crash
         \/ \E m \in Deliveries: PaymentOutcome(m)
  PROVE  TypeInv'
<1> USE DEF TypeInv
<1>1. CASE \E b \in Bookings: DeadlinePasses(b)
  BY <1>1 DEF DeadlinePasses, TypeOK, Rows, CallsLoaded, Busy, Keys
<1>2. CASE \E k \in Keys: LockExpires(k)
  BY <1>2 DEF LockExpires, TypeOK, CallsLoaded, Busy, Keys
<1>3. CASE Crash
  BY <1>3, TypeDie, FaultsKnown DEF Crash, TypeOK, CallsLoaded, Busy, Keys
<1>4. CASE \E m \in Deliveries: PaymentOutcome(m)
  BY <1>4 DEF PaymentOutcome, TypeOK, CallsLoaded, Busy, Keys, Event, Events, Workers
<1> QED
  BY <1>1, <1>2, <1>3, <1>4

LEMMA TypeStep == TypeInv /\ [Next]_vars => TypeInv'
<1> SUFFICES ASSUME TypeInv, [Next]_vars PROVE TypeInv'
  OBVIOUS
<1>1. CASE UNCHANGED vars
  BY <1>1 DEF vars, TypeInv, TypeOK, CallsLoaded, Busy, Keys
<1>2. CASE Rest
  BY <1>1, <1>2 DEF Rest
<1> QED
  BY <1>1, <1>2, TypeCreate, TypeHandleRequest, TypeHandleOutcome, TypeFindExpired,
     TypeNextExpired, TypeWork, TypeEnvironment DEF Next, ServiceNext

\* The state of the booking service never leaves its types: every row of the
\* table, lock, event and loaded entity is one the schema and the code allow.
THEOREM TypeCorrect == Spec => []TypeOK
<1>1. TypeInv => TypeOK
  BY DEF TypeInv
<1> QED
  BY <1>1, TypeInit, TypeStep, PTL DEF Spec

-----------------------------------------------------------------------------
(* The lock protects the check-and-insert of create.                       *)

LEMMA LockInit == Init => LockInv
BY TypeInit DEF Init, TypeInv, LockInv, NoRowBeforeInsert, WorkOnRows, Busy, InFlightHoldsLock,
   InFlight, CheckedAlone, OnePendingPerSlot, NoRow

\* The parts of LockInv other than the types speak of row, lock, creq, slot
\* and of the calls of busy workers and sweeps only.
LEMMA LockCreate ==
  ASSUME LockInv, NEW b \in Bookings, Create(b)
  PROVE  LockInv'
<1> USE DEF LockInv
<1>1. TypeInv'
  BY TypeCreate DEF TypeInv
<1>2. UNCHANGED <<slot, pc, call, todo>>
  BY DEF Create, RejectCreate, AcquireLock, LockTaken, LockStranded, CheckConflict, Insert,
         TransactionFails, PublishPending, PublishPendingThrows, ReleaseAfterFailure
<1>3. \A c \in Bookings: Key(c)' = Key(c) /\ Key(c) \in Keys
  BY <1>2, KeyInKeys DEF Key
<1>4. CASE RejectCreate(b) \/ LockTaken(b) \/ TransactionFails(b) \/ PublishPending(b)
           \/ PublishPendingThrows(b)
  <2>1. /\ UNCHANGED <<row, lock>>
        /\ \A c \in Bookings: creq'[c] = creq[c] \/ creq'[c] \in {"refused", "releasing", "booked"}
    BY <1>4 DEF RejectCreate, LockTaken, TransactionFails, PublishPending,
                PublishPendingThrows, TypeOK
  <2> QED
    BY <1>1, <1>2, <1>3, <2>1 DEF TypeInv, NoRowBeforeInsert, WorkOnRows, Busy,
       InFlightHoldsLock, InFlight, CheckedAlone, OnePendingPerSlot
<1>5. CASE AcquireLock(b) \/ LockStranded(b)
  <2>1. InFlightHoldsLock'
    BY <1>3, <1>5, NamesDiffer DEF AcquireLock, LockStranded, InFlightHoldsLock, InFlight, TypeOK
  <2> QED
    BY <1>1, <1>2, <1>3, <1>5, <2>1 DEF AcquireLock, LockStranded, TypeInv, TypeOK, NoRowBeforeInsert, WorkOnRows,
       Busy, CheckedAlone, OnePendingPerSlot
<1>6. CASE CheckConflict(b)
  <2>1. CheckedAlone'
    <3> SUFFICES ASSUME NEW d \in Bookings, NEW c \in Bookings,
                        creq'[d] = "checked", row'[c].status = "pending", Key(d)' = Key(c)'
                 PROVE  FALSE
      BY DEF CheckedAlone
    <3>1. d = b /\ Conflicts(b) = {}
      BY <1>3, <1>6 DEF CheckConflict, CheckedAlone, TypeOK
    <3>2. Key(c) = Key(b)
      BY <1>3, <3>1
    <3>3. Overlaps(slot[c], slot[b])
      BY <3>2, SameKeyOverlaps DEF Key, TypeOK
    <3> QED
      BY <1>6, <3>1, <3>3 DEF CheckConflict, Conflicts, Active
  <2> QED
    BY <1>1, <1>2, <1>3, <1>6, <2>1 DEF CheckConflict, TypeInv, TypeOK, NoRowBeforeInsert, WorkOnRows,
       Busy, InFlightHoldsLock, InFlight, OnePendingPerSlot
<1>7. CASE Insert(b)
  <2>1. \A c \in Bookings: c # b /\ row[c].status = "pending" => Key(c) # Key(b)
    BY <1>7 DEF Insert, CheckedAlone
  <2>2. OnePendingPerSlot'
    BY <1>3, <1>7, <2>1 DEF Insert, TypeOK, OnePendingPerSlot
  <2>3. CheckedAlone'
    BY <1>3, <1>7 DEF Insert, TypeOK, CheckedAlone, InFlightHoldsLock, InFlight
  <2> QED
    BY <1>1, <1>2, <1>3, <1>7, <2>2, <2>3 DEF Insert, TypeInv, TypeOK, NoRowBeforeInsert, WorkOnRows,
       Busy, Calls, InFlightHoldsLock, InFlight, CallsLoaded
<1>8. CASE ReleaseAfterFailure(b)
  <2>1. \A k \in Keys: lock[k] # b => lock'[k] = lock[k]
    BY <1>3, <1>8 DEF ReleaseAfterFailure, Unlocked, TypeOK
  <2> QED
    BY <1>1, <1>2, <1>3, <1>8, <2>1 DEF ReleaseAfterFailure, TypeInv, TypeOK, NoRowBeforeInsert,
       WorkOnRows, Busy, InFlightHoldsLock, InFlight, CheckedAlone, OnePendingPerSlot
<1> QED
  BY <1>4, <1>5, <1>6, <1>7, <1>8 DEF Create

\* Reads only add workers, on bookings that have a row.
LEMMA LockRead ==
  ASSUME LockInv,
         \/ \E w \in Requests: HandleRequest(w)
         \/ \E m \in Deliveries: HandleOutcome(m)
         \/ \E w \in Sweeps: FindExpired(w) \/ NextExpired(w)
  PROVE  LockInv'
<1> USE DEF LockInv
<1>1. TypeInv'
  BY TypeHandleRequest, TypeHandleOutcome, TypeFindExpired, TypeNextExpired DEF TypeInv
<1>2. UNCHANGED <<slot, row, lock, creq>>
  BY DEF HandleRequest, HandleOutcome, FindExpired, NextExpired
<1>3. WorkOnRows'
  <2>1. CASE \E w \in Requests: HandleRequest(w)
    <3>1. PICK w \in Requests: HandleRequest(w)
      BY <2>1
    <3>2. todo' = todo /\ w \in Workers
      BY <3>1 DEF HandleRequest, Workers
    <3>3. PICK b \in Bookings, o \in RequestOps:
            /\ row[b].status # "none"
            /\ IF Permitted(o, row[b].status)
                 THEN Load(w, o, b, row[b])
                 ELSE pc' = [pc EXCEPT ![w] = "done"] /\ UNCHANGED call
      BY <3>1 DEF HandleRequest
    <3> QED
      BY <1>2, <3>2, <3>3 DEF WorkOnRows, Busy, Load, TypeOK
  <2>2. CASE \E m \in Deliveries: HandleOutcome(m)
    <3>1. PICK m \in Deliveries: HandleOutcome(m)
      BY <2>2
    <3>2. todo' = todo /\ m \in Workers
      BY <3>1 DEF HandleOutcome, Workers
    <3>3. PICK e \in bus:
            LET o == IF e.rk = "payment.completed" THEN "confirm" ELSE "payment_failed"
            IN IF Permitted(o, row[e.booking].status)
                 THEN Load(m, o, e.booking, row[e.booking])
                 ELSE pc' = [pc EXCEPT ![m] = "done"] /\ UNCHANGED call
      BY <3>1 DEF HandleOutcome
    <3>4. \A o \in OutcomeOps: Permitted(o, row[e.booking].status) => row[e.booking].status # "none"
      BY DEF Permitted, OutcomeOps
    <3> QED
      BY <1>2, <3>2, <3>3, <3>4 DEF WorkOnRows, Busy, Load, TypeOK, OutcomeOps
  <2>3. CASE \E w \in Sweeps: FindExpired(w)
    <3>1. PICK w \in Sweeps: FindExpired(w)
      BY <2>3
    <3>2. /\ pc' = [pc EXCEPT ![w] = "sweeping"] /\ call' = call
          /\ \A v \in Sweeps: \A t \in todo'[v]: t \in todo[v] \/ row[t.booking].status = "pending"
      BY <3>1 DEF FindExpired, TypeOK
    <3> QED
      BY <1>2, <3>2 DEF WorkOnRows, Busy, TypeOK, Workers
  <2>4. CASE \E w \in Sweeps: NextExpired(w)
    <3>1. PICK w \in Sweeps: NextExpired(w)
      BY <2>4
    <3>2. PICK t \in todo[w]:
            todo' = [todo EXCEPT ![w] = @ \ {t}] /\ Load(w, "payment_timeout", t.booking, t.entity)
      BY <3>1 DEF NextExpired
    <3> QED
      BY <1>2, <3>2 DEF WorkOnRows, Busy, Load, TypeOK, Workers
  <2> QED
    BY <2>1, <2>2, <2>3, <2>4
<1> QED
  BY <1>1, <1>2, <1>3 DEF TypeInv, NoRowBeforeInsert, InFlightHoldsLock, InFlight, Key, CheckedAlone,
     OnePendingPerSlot

\* The end of the process takes every claim in progress with it.
LEMMA LockDie ==
  ASSUME LockInv, TypeInv', Die, UNCHANGED <<slot, row, lock>>
  PROVE  LockInv'
<1> USE DEF LockInv
<1>1. /\ \A b \in Bookings: creq'[b] \in {"idle", "refused", "booked", "dead"}
      /\ \A b \in Bookings: creq'[b] = "idle" => creq[b] = "idle"
      /\ \A v \in Workers: ~Busy(v)'
      /\ \A v \in Sweeps: todo'[v] = {}
  BY DEF Die, TypeOK, Busy
<1> QED
  BY <1>1 DEF TypeInv, NoRowBeforeInsert, WorkOnRows, InFlightHoldsLock, InFlight, Key,
     CheckedAlone, OnePendingPerSlot

\* A worker saves no PENDING row, and releases no lock of a call in flight:
\* the lock it names belongs to a booking that has a row already.
LEMMA LockWork ==
  ASSUME LockInv, NEW w \in Workers, Work(w)
  PROVE  LockInv'
<1> USE DEF LockInv
<1>1. TypeInv'
  BY TypeWork DEF TypeInv
<1>2. slot' = slot
  BY DEF Work, Save, SaveFails, ReleaseLock, Publish, PublishThrows
<1>3. \A c \in Bookings: Key(c)' = Key(c) /\ Key(c) \in Keys
  BY <1>2, KeyInKeys DEF Key
<1>4. CASE Save(w)
  <2> DEFINE b == call[w].booking
  <2>1. /\ b \in Bookings /\ row[b].status # "none"
        /\ Assigned(call[w].op, call[w].entity).status \in Statuses \ {"pending"}
    BY <1>4, AssignedRow DEF Save, CallsLoaded, Busy, Calls, WorkOnRows
  <2>2. /\ \A c \in Bookings:
             \/ row'[c] = row[c]
             \/ row[c].status # "none" /\ row'[c].status \notin {"none", "pending"}
        /\ UNCHANGED <<lock, creq, call, todo>>
        /\ \A v \in Workers: Busy(v)' => Busy(v)
    BY <1>4, <2>1 DEF Save, TypeOK, Statuses, Busy
  <2>3. WorkOnRows'
    BY <2>2 DEF WorkOnRows, TypeOK, CallsLoaded, Calls
  <2> QED
    BY <1>1, <1>2, <1>3, <2>2, <2>3 DEF TypeInv, NoRowBeforeInsert, InFlightHoldsLock, InFlight, CheckedAlone,
       OnePendingPerSlot
<1>5. CASE ReleaseLock(w)
  <2> DEFINE b == call[w].booking
  <2>1. b \in Bookings /\ ~InFlight(b)
    BY <1>5 DEF ReleaseLock, CallsLoaded, Busy, Calls, WorkOnRows, NoRowBeforeInsert, InFlight
  <2>2. \A k \in Keys: lock[k] # b => lock'[k] = lock[k]
    BY <1>3, <1>5, <2>1 DEF ReleaseLock, Unlocked, TypeOK
  <2>3. UNCHANGED <<row, creq, call, todo>> /\ \A v \in Workers: Busy(v)' => Busy(v)
    BY <1>5 DEF ReleaseLock, TypeOK, Busy
  <2> QED
    BY <1>1, <1>2, <1>3, <2>1, <2>2, <2>3 DEF TypeInv, NoRowBeforeInsert, WorkOnRows, InFlightHoldsLock,
       InFlight, CheckedAlone, OnePendingPerSlot
<1>6. CASE Publish(w) \/ SaveFails(w) \/ (PublishThrows(w) /\ w \notin Deliveries)
  <2>1. /\ UNCHANGED <<row, lock, creq>>
        /\ \A v \in Workers: Busy(v)' => Busy(v) /\ call'[v] = call[v]
        /\ \A v \in Sweeps: todo'[v] \subseteq todo[v]
    BY <1>6 DEF Publish, SaveFails, PublishThrows, Abort, TypeOK, Busy
  <2> QED
    BY <1>1, <1>2, <1>3, <2>1 DEF TypeInv, NoRowBeforeInsert, WorkOnRows, InFlightHoldsLock,
       InFlight, CheckedAlone, OnePendingPerSlot
<1>7. CASE PublishThrows(w) /\ w \in Deliveries
  BY <1>1, <1>7, LockDie DEF PublishThrows
<1> QED
  BY <1>4, <1>5, <1>6, <1>7 DEF Work

LEMMA LockEnvironment ==
  ASSUME "slow" \notin Faults, LockInv,
         \/ \E b \in Bookings: DeadlinePasses(b)
         \/ \E k \in Keys: LockExpires(k)
         \/ Crash
         \/ \E m \in Deliveries: PaymentOutcome(m)
  PROVE  LockInv'
<1> USE DEF LockInv
<1>1. TypeInv'
  BY TypeEnvironment DEF TypeInv
<1>2. CASE \E b \in Bookings: DeadlinePasses(b)
  <2>1. /\ UNCHANGED <<slot, lock, creq, pc, call, todo>>
        /\ \A c \in Bookings: row'[c].status = row[c].status
    BY <1>2 DEF DeadlinePasses, TypeOK, Rows
  <2>2. WorkOnRows'
    <3>1. \A w \in Workers: Busy(w) => call[w].booking \in Bookings
      BY DEF CallsLoaded, Calls
    <3>2. \A w \in Sweeps: \A t \in todo[w]: t.booking \in Bookings
      BY DEF TypeOK
    <3> QED
      BY <2>1, <3>1, <3>2 DEF WorkOnRows, Busy
  <2> QED
    BY <1>1, <2>1, <2>2 DEF TypeInv, NoRowBeforeInsert, InFlightHoldsLock, InFlight, Key,
       CheckedAlone, OnePendingPerSlot
<1>3. CASE \E k \in Keys: LockExpires(k)
  <2>1. UNCHANGED <<slot, row, creq, pc, call, todo>>
    BY <1>3 DEF LockExpires
  <2>2. InFlightHoldsLock'
    BY <1>3, <2>1, KeyInKeys DEF LockExpires, InFlightHoldsLock, InFlight, Key, TypeOK
  <2> QED
    BY <1>1, <2>1, <2>2 DEF TypeInv, NoRowBeforeInsert, WorkOnRows, Busy, Key, CheckedAlone,
       OnePendingPerSlot
<1>4. CASE Crash
  BY <1>1, <1>4, LockDie DEF Crash
<1>5. CASE \E m \in Deliveries: PaymentOutcome(m)
  BY <1>1, <1>5 DEF PaymentOutcome, TypeInv, NoRowBeforeInsert, WorkOnRows, Busy, InFlightHoldsLock,
     InFlight, Key, CheckedAlone, OnePendingPerSlot
<1> QED
  BY <1>2, <1>3, <1>4, <1>5

LEMMA LockStep ==
  ASSUME "slow" \notin Faults
  PROVE  LockInv /\ [Next]_vars => LockInv'
<1> SUFFICES ASSUME LockInv, [Next]_vars PROVE LockInv'
  OBVIOUS
<1>1. CASE UNCHANGED vars
  <2>1. TypeInv'
    BY <1>1, TypeStep DEF LockInv, TypeInv
  <2> QED
    BY <1>1, <2>1 DEF vars, LockInv, TypeInv, NoRowBeforeInsert, WorkOnRows, Busy,
     InFlightHoldsLock, InFlight, Key, CheckedAlone, OnePendingPerSlot
<1>2. CASE Rest
  BY <1>1, <1>2 DEF Rest
<1> QED
  BY <1>1, <1>2, LockCreate, LockRead, LockWork, LockEnvironment DEF Next, ServiceNext

\* As long as a create is faster than its TTL, Redis admits one create per
\* slot to the check-and-insert transaction.
THEOREM LockExcludes ==
  ASSUME "slow" \notin Faults
  PROVE  Spec => []CreatesExclusive
<1>1. LockInv => CreatesExclusive
  BY DEF LockInv, InFlightHoldsLock, CreatesExclusive
<1> QED
  BY <1>1, LockInit, LockStep, PTL DEF Spec

\* Under the same assumption no slot ever has two PENDING bookings, whatever
\* handlers race, fail or crash, and however long locks have expired.
THEOREM PendingUnique ==
  ASSUME "slow" \notin Faults
  PROVE  Spec => []OnePendingPerSlot
<1>1. LockInv => OnePendingPerSlot
  BY DEF LockInv
<1> QED
  BY <1>1, LockInit, LockStep, PTL DEF Spec

-----------------------------------------------------------------------------
(* Nobody is served, and nobody refunded, without a payment.               *)

\* The bus only grows, so what was published stays published.
LEMMA BusGrows == [Next]_vars => bus \subseteq bus'
<1> SUFFICES ASSUME [Next]_vars PROVE bus \subseteq bus'
  OBVIOUS
<1>1. CASE UNCHANGED vars \/ Rest
  BY <1>1 DEF Rest, vars
<1>2. CASE \E b \in Bookings: Create(b) \/ DeadlinePasses(b)
  BY <1>2 DEF Create, RejectCreate, AcquireLock, LockTaken, LockStranded, CheckConflict, Insert, TransactionFails,
     PublishPending, PublishPendingThrows, ReleaseAfterFailure, DeadlinePasses
<1>3. CASE \E w \in Workers: Work(w)
  BY <1>3 DEF Work, Save, SaveFails, ReleaseLock, Publish, PublishThrows
<1>4. CASE \/ \E w \in Requests: HandleRequest(w)
           \/ \E m \in Deliveries: HandleOutcome(m)
           \/ \E w \in Sweeps: FindExpired(w) \/ NextExpired(w)
           \/ \E k \in Keys: LockExpires(k)
           \/ Crash
  BY <1>4 DEF HandleRequest, HandleOutcome, FindExpired, NextExpired, LockExpires, Crash
<1>5. CASE \E m \in Deliveries: PaymentOutcome(m)
  BY <1>5 DEF PaymentOutcome
<1> QED
  BY <1>1, <1>2, <1>3, <1>4, <1>5 DEF Next, ServiceNext

Paid(b) == Published("payment.completed", b)

LEMMA PaidStable ==
  ASSUME [Next]_vars
  PROVE  \A b \in Bookings: Paid(b) => Paid(b)'
BY BusGrows DEF Paid, Published, PublishedOn

LEMMA PaidInit == Init => PaidInv
BY TypeInit DEF Init, TypeInv, PaidInv, PaidRows, PaidCalls, PaidEntities, RefundOnlyIfPaid, Busy,
   NoRow, Published, PublishedOn

\* Steps that load no call, save no row and announce no refund.
LEMMA PaidQuiet ==
  ASSUME PaidInv, [Next]_vars, TypeInv',
         \A b \in Bookings: \/ row'[b] = row[b]
                            \/ row'[b].status \in {"none", "pending"} /\ row'[b].paymentStatus = "unpaid",
         \A w \in Workers: Busy(w)' => Busy(w) /\ call'[w] = call[w] /\ (pc'[w] = "loaded" => pc[w] = "loaded"),
         \A w \in Sweeps: todo'[w] \subseteq todo[w],
         \A e \in bus': e.rk = "booking.cancelled" => e \in bus
  PROVE  PaidInv'
<1>1. \A w \in Workers: Busy(w) => call[w].booking \in Bookings
  BY DEF PaidInv, CallsLoaded, Calls
<1>2. \A w \in Sweeps: \A t \in todo[w]: t.booking \in Bookings
  BY DEF PaidInv, TypeOK
<1>3. PaidRows'
  BY PaidStable DEF PaidInv, PaidRows, Paid
<1>4. PaidCalls'
  BY <1>1, PaidStable DEF PaidInv, PaidCalls, Paid, Busy
<1>5. PaidEntities'
  BY <1>1, <1>2, PaidStable DEF PaidInv, PaidEntities, Paid
<1>6. RefundOnlyIfPaid'
  BY PaidStable DEF PaidInv, RefundOnlyIfPaid, Paid, Published, PublishedOn
<1> QED
  BY <1>3, <1>4, <1>5, <1>6 DEF PaidInv, TypeInv

\* create, clocks, crashes, and the parts of the handlers around the save.
LEMMA PaidBackground ==
  ASSUME PaidInv, [Next]_vars, TypeInv',
         \/ UNCHANGED vars
         \/ \E b \in Bookings: Create(b) \/ DeadlinePasses(b)
         \/ \E k \in Keys: LockExpires(k)
         \/ Crash
         \/ \E m \in Deliveries: PaymentOutcome(m)
         \/ \E w \in Workers: ReleaseLock(w) \/ SaveFails(w) \/ PublishThrows(w)
  PROVE  PaidInv'
<1> USE DEF PaidInv
<1>1. CASE UNCHANGED vars
  BY <1>1, PaidQuiet DEF vars, Busy
<1>2. CASE \E b \in Bookings: Create(b)
  <2>1. PICK b \in Bookings: Create(b)
    BY <1>2
  <2>2. UNCHANGED <<pc, call, todo>>
    BY <2>1 DEF Create, RejectCreate, AcquireLock, LockTaken, LockStranded, CheckConflict, Insert,
           TransactionFails, PublishPending, PublishPendingThrows, ReleaseAfterFailure
  <2>3. \A c \in Bookings: \/ row'[c] = row[c]
                           \/ row'[c].status = "pending" /\ row'[c].paymentStatus = "unpaid"
    BY <2>1 DEF Create, RejectCreate, AcquireLock, LockTaken, LockStranded, CheckConflict, Insert, TypeOK,
           TransactionFails, PublishPending, PublishPendingThrows, ReleaseAfterFailure
  <2>4. \A e \in bus': e.rk = "booking.cancelled" => e \in bus
    BY <2>1 DEF Create, RejectCreate, AcquireLock, LockTaken, LockStranded, CheckConflict, Insert, Event,
           TransactionFails, PublishPending, PublishPendingThrows, ReleaseAfterFailure
  <2> QED
    BY <2>2, <2>3, <2>4, PaidQuiet DEF Busy
<1>3. CASE \E b \in Bookings: DeadlinePasses(b)
  <2>1. PICK b \in Bookings: DeadlinePasses(b)
    BY <1>3
  <2>2. /\ row'[b].status = "pending" /\ row'[b].paymentStatus = row[b].paymentStatus
        /\ \A c \in Bookings \ {b}: row'[c] = row[c]
        /\ UNCHANGED <<pc, call, todo, bus>>
    BY <2>1 DEF DeadlinePasses, TypeOK, Rows
  <2>3. PaidRows'
    BY <2>2 DEF PaidRows, Published, PublishedOn
  <2> QED
    BY <2>2, <2>3 DEF TypeInv, PaidCalls, PaidEntities, RefundOnlyIfPaid, Published, PublishedOn, Busy
<1>4. CASE (\E k \in Keys: LockExpires(k)) \/ Crash
  BY <1>4, PaidQuiet DEF LockExpires, Crash, Die, TypeOK, Busy
<1>5. CASE \E m \in Deliveries: PaymentOutcome(m)
  BY <1>5, PaidQuiet DEF PaymentOutcome, PaymentKeys, Event, Busy
<1>6. CASE \E w \in Workers: ReleaseLock(w) \/ SaveFails(w) \/ PublishThrows(w)
  <2>1. /\ UNCHANGED <<row, bus>>
        /\ \A v \in Workers: Busy(v)' => Busy(v) /\ call'[v] = call[v] /\ (pc'[v] = "loaded" => pc[v] = "loaded")
        /\ \A v \in Sweeps: todo'[v] \subseteq todo[v]
    BY <1>6 DEF ReleaseLock, SaveFails, PublishThrows, Abort, Die, TypeOK, Busy
  <2> QED
    BY <2>1, PaidQuiet
<1> QED
  BY <1>1, <1>2, <1>3, <1>4, <1>5, <1>6

\* A read takes the evidence of the row or of the message over to the call.
LEMMA PaidRead ==
  ASSUME PaidInv, [Next]_vars, TypeInv',
         \/ \E w \in Requests: HandleRequest(w)
         \/ \E m \in Deliveries: HandleOutcome(m)
         \/ \E w \in Sweeps: FindExpired(w) \/ NextExpired(w)
  PROVE  PaidInv'
<1> USE DEF PaidInv
<1>1. UNCHANGED <<row, bus>>
  BY DEF HandleRequest, HandleOutcome, FindExpired, NextExpired
<1>2. PaidRows' /\ RefundOnlyIfPaid'
  BY <1>1 DEF PaidRows, RefundOnlyIfPaid, Published, PublishedOn
<1>3. \A b: Paid(b)' = Paid(b)
  BY <1>1 DEF Paid, Published, PublishedOn
<1>4. CASE \E w \in Requests: HandleRequest(w)
  <2>1. PICK w \in Requests: HandleRequest(w)
    BY <1>4
  <2>2. w \in Workers /\ todo' = todo
    BY <2>1 DEF Workers, HandleRequest
  <2>3. PICK b \in Bookings, o \in RequestOps:
          IF Permitted(o, row[b].status)
            THEN Load(w, o, b, row[b])
            ELSE pc' = [pc EXCEPT ![w] = "done"] /\ UNCHANGED call
    BY <2>1 DEF HandleRequest
  <2>4. Permitted(o, row[b].status) /\ o \in {"complete", "no_show"} => Paid(b)
    BY DEF Permitted, OutcomeOps, PaidRows, Paid
  <2>5. row[b].paymentStatus = "paid" => Paid(b)
    BY DEF PaidRows, Paid
  <2>6. PaidCalls'
    BY <1>3, <2>2, <2>3, <2>4 DEF PaidCalls, Paid, Load, TypeOK, Busy, RequestOps
  <2>7. PaidEntities'
    BY <1>3, <2>2, <2>3, <2>5 DEF PaidEntities, Paid, Load, TypeOK, Busy
  <2> QED
    BY <1>2, <2>6, <2>7 DEF TypeInv
<1>5. CASE \E m \in Deliveries: HandleOutcome(m)
  <2>1. PICK m \in Deliveries: HandleOutcome(m)
    BY <1>5
  <2>2. m \in Workers /\ todo' = todo
    BY <2>1 DEF Workers, HandleOutcome
  <2>3. PICK e \in bus:
          LET o == IF e.rk = "payment.completed" THEN "confirm" ELSE "payment_failed"
          IN IF Permitted(o, row[e.booking].status)
               THEN Load(m, o, e.booking, row[e.booking])
               ELSE pc' = [pc EXCEPT ![m] = "done"] /\ UNCHANGED call
    BY <2>1 DEF HandleOutcome
  <2>4. e.rk = "payment.completed" => Paid(e.booking)
    BY DEF Paid, Published, PublishedOn
  <2>5. row[e.booking].paymentStatus = "paid" => Paid(e.booking)
    BY DEF PaidRows, Paid, TypeOK, Events
  <2>6. PaidCalls'
    BY <1>3, <2>2, <2>3, <2>4 DEF PaidCalls, Paid, Load, TypeOK, Busy
  <2>7. PaidEntities'
    BY <1>3, <2>2, <2>3, <2>5 DEF PaidEntities, Paid, Load, TypeOK, Busy
  <2> QED
    BY <1>2, <2>6, <2>7 DEF TypeInv
<1>6. CASE \E w \in Sweeps: FindExpired(w)
  <2>1. PICK w \in Sweeps: FindExpired(w)
    BY <1>6
  <2>2. /\ pc' = [pc EXCEPT ![w] = "sweeping"] /\ call' = call /\ w \in Workers
        /\ \A v \in Sweeps: \A t \in todo'[v]:
             t \in todo[v] \/ (t.booking \in Bookings /\ t.entity = row[t.booking])
    BY <2>1 DEF FindExpired, TypeOK, Workers
  <2>3. PaidCalls'
    BY <1>3, <2>2 DEF PaidCalls, Paid, TypeOK
  <2>4. PaidEntities'
    BY <1>3, <2>2 DEF PaidEntities, PaidRows, Paid, TypeOK, Busy
  <2> QED
    BY <1>2, <2>3, <2>4 DEF TypeInv
<1>7. CASE \E w \in Sweeps: NextExpired(w)
  <2>1. PICK w \in Sweeps: NextExpired(w)
    BY <1>7
  <2>2. PICK t \in todo[w]:
          todo' = [todo EXCEPT ![w] = @ \ {t}] /\ Load(w, "payment_timeout", t.booking, t.entity)
    BY <2>1 DEF NextExpired
  <2>3. w \in Workers
    BY DEF Workers
  <2>4. PaidCalls'
    BY <1>3, <2>2, <2>3 DEF PaidCalls, Paid, Load, TypeOK
  <2>5. PaidEntities'
    BY <1>3, <2>2, <2>3 DEF PaidEntities, Paid, Load, TypeOK, Busy
  <2> QED
    BY <1>2, <2>4, <2>5 DEF TypeInv
<1> QED
  BY <1>4, <1>5, <1>6, <1>7

LEMMA PaidSave ==
  ASSUME PaidInv, TypeInv', NEW w \in Workers, Save(w)
  PROVE  PaidInv'
<1> USE DEF PaidInv
<1> DEFINE b == call[w].booking  o == call[w].op  e == call[w].entity
<1>1. o \in Ops /\ b \in Bookings /\ e \in Rows /\ pc[w] = "loaded"
  BY DEF Save, CallsLoaded, Busy, Calls
<1>2. UNCHANGED <<bus, call, todo>> /\ row' = [row EXCEPT ![b] = Assigned(o, e)]
  BY DEF Save
<1>3. \A c: Paid(c)' = Paid(c)
  BY <1>2 DEF Paid, Published, PublishedOn
<1>4. \/ Assigned(o, e).status \in {"confirmed", "completed", "no_show"}
      \/ Assigned(o, e).paymentStatus = "paid"
      => Paid(b)
  <2>1. CASE o \in {"confirm", "complete", "no_show"}
    BY <1>1, <2>1 DEF PaidCalls, Paid
  <2>2. CASE o \in ReleaseOps
    <3>1. Assigned(o, e).status = "cancelled" /\ Assigned(o, e).paymentStatus = e.paymentStatus
      BY <1>1, <2>2 DEF Assigned, ReleaseOps, Rows
    <3> QED
      BY <1>1, <3>1 DEF PaidEntities, Paid, Busy
  <2> QED
    BY <1>1, <2>1, <2>2 DEF Ops, RequestOps, OutcomeOps, ReleaseOps
<1>5. PaidRows'
  BY <1>1, <1>2, <1>3, <1>4 DEF PaidRows, Paid, TypeOK
<1>6. \A v \in Workers: (Busy(v)' => Busy(v)) /\ (pc'[v] = "loaded" => pc[v] = "loaded")
  BY DEF Save, TypeOK, Busy
<1>7. PaidCalls' /\ PaidEntities'
  BY <1>2, <1>3, <1>6 DEF PaidCalls, PaidEntities, Paid
<1>8. RefundOnlyIfPaid'
  BY <1>2 DEF RefundOnlyIfPaid, Published, PublishedOn
<1> QED
  BY <1>5, <1>7, <1>8 DEF TypeInv

LEMMA PaidPublish ==
  ASSUME PaidInv, [Next]_vars, TypeInv', NEW w \in Workers, Publish(w)
  PROVE  PaidInv'
<1> USE DEF PaidInv
<1>1. Busy(w) /\ call[w] \in Calls
  BY DEF Publish, CallsLoaded, Busy
<1>2. UNCHANGED <<row, todo>>
      /\ \A v \in Workers: Busy(v)' => Busy(v) /\ call'[v] = call[v] /\ (pc'[v] = "loaded" => pc[v] = "loaded")
  BY DEF Publish, TypeOK, Busy
<1>3. PaidRows'
  BY <1>2, PaidStable DEF PaidRows, Paid
<1>4. PaidCalls'
  BY <1>2, PaidStable DEF PaidCalls, Paid, CallsLoaded, Calls, Busy
<1>5. PaidEntities'
  <2>1. \A v \in Workers: Busy(v) => call[v].booking \in Bookings
    BY DEF CallsLoaded, Calls
  <2>2. \A v \in Sweeps: \A t \in todo[v]: t.booking \in Bookings
    BY DEF TypeOK
  <2> QED
    BY <1>2, <2>1, <2>2, PaidStable DEF PaidEntities, Paid
<1>6. RefundOnlyIfPaid'
  <2> SUFFICES ASSUME NEW b \in Bookings, Published("booking.cancelled", b)'
               PROVE  Paid(b)'
    BY DEF RefundOnlyIfPaid, Paid
  <2>1. CASE Published("booking.cancelled", b)
    BY <2>1, PaidStable DEF RefundOnlyIfPaid, Paid
  <2>2. CASE ~Published("booking.cancelled", b)
    <3>1. PICK x \in Announced(w): x.rk = "booking.cancelled" /\ x.booking = b
      BY <2>2 DEF Publish, Published, PublishedOn
    <3>2. "booking.cancelled" \in RoutingKeys(call[w].op, call[w].entity) /\ b = call[w].booking
      BY <3>1 DEF Announced, Event
    <3>3. call[w].entity.paymentStatus = "paid"
      BY <1>1, <3>2, AnnouncedKeys DEF Calls
    <3> QED
      BY <1>1, <3>2, <3>3, PaidStable DEF PaidEntities, Paid
  <2> QED
    BY <2>1, <2>2
<1> QED
  BY <1>3, <1>4, <1>5, <1>6 DEF TypeInv

LEMMA PaidStep == PaidInv /\ [Next]_vars => PaidInv'
<1> SUFFICES ASSUME PaidInv, [Next]_vars PROVE PaidInv'
  OBVIOUS
<1>1. TypeInv'
  BY TypeStep DEF PaidInv, TypeInv
<1>2. CASE \E w \in Workers: Save(w) \/ Publish(w)
  BY <1>1, <1>2, PaidSave, PaidPublish
<1>3. CASE \/ UNCHANGED vars
           \/ \E b \in Bookings: Create(b) \/ DeadlinePasses(b)
           \/ \E k \in Keys: LockExpires(k)
           \/ Crash
           \/ \E m \in Deliveries: PaymentOutcome(m)
           \/ \E w \in Workers: ReleaseLock(w) \/ SaveFails(w) \/ PublishThrows(w)
  BY <1>1, <1>3, PaidBackground
<1>4. CASE \/ \E w \in Requests: HandleRequest(w)
           \/ \E m \in Deliveries: HandleOutcome(m)
           \/ \E w \in Sweeps: FindExpired(w) \/ NextExpired(w)
  BY <1>1, <1>4, PaidRead
<1> QED
  BY <1>2, <1>3, <1>4 DEF Next, ServiceNext, Work, Rest

\* No appointment is confirmed, completed or missed without a payment,
\* whatever handlers race over its row and whatever fails.
THEOREM ServedWasPaid == Spec => []ServedOnlyIfPaid
<1>1. PaidInv => ServedOnlyIfPaid
  BY DEF PaidInv, PaidRows, ServedOnlyIfPaid
<1> QED
  BY <1>1, PaidInit, PaidStep, PTL DEF Spec

\* No refund is asked for without a payment.
THEOREM RefundedWasPaid == Spec => []RefundOnlyIfPaid
<1>1. PaidInv => RefundOnlyIfPaid
  BY DEF PaidInv
<1> QED
  BY <1>1, PaidInit, PaidStep, PTL DEF Spec
=============================================================================
