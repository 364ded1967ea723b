------------------------------- MODULE Booking -------------------------------
(***************************************************************************)
(* The booking service (bookings.service.ts) with the slot lock it keeps   *)
(* in Redis (redis.service.ts) and the events it exchanges over RabbitMQ   *)
(* (event-bus.service.ts).                                                 *)
(*                                                                         *)
(* Node runs a handler without interruption up to its next await, so every *)
(* handler is cut there: a step is one database or Redis call together     *)
(* with the synchronous code around it. Everything another handler can do  *)
(* between two awaits of this one is an interleaving of the model.         *)
(***************************************************************************)
EXTENDS Naturals, FiniteSets, Exchange

CONSTANTS
  Bookings,    \* calls of create; each names its would-be row and its token
  Slots,       \* the slots asked for: [resource, start, blockedUntil]
  Requests,    \* HTTP calls of cancel, complete or no-show, each made once
  Deliveries,  \* payment outcomes, each delivered to its own handler run
  Sweeps,      \* runs of the releaseExpired cron, each made again and again
  Faults,      \* which faults may happen: "crash", "bus", "db", "redis", "slow"
  MaxCrashes,  \* bound on the number of crashes
  NoOne        \* the value of a lock that is free

Workers == Requests \cup Deliveries \cup Sweeps

ASSUME SlotsAreIntervals ==
  \A s \in Slots: s.start \in Nat /\ s.blockedUntil \in Nat /\ s.start < s.blockedUntil

ASSUME NamesDiffer ==
  /\ NoOne \notin Bookings
  /\ Bookings \cap Workers = {}
  /\ Requests \cap (Deliveries \cup Sweeps) = {}
  /\ Deliveries \cap Sweeps = {}

ASSUME FaultsKnown ==
  Faults \subseteq {"crash", "bus", "db", "redis", "slow"} /\ MaxCrashes \in Nat

VARIABLES
  slot,     \* slot[b]: what call b asks for, fixed when the call is made
  row,      \* row[b]: the row of table bookings, "none" until inserted
  lock,     \* lock[k]: whose token Redis holds under lock:slot:<k>
  creq,     \* creq[b]: where call b of create stands
  pc,       \* pc[w]: where worker w stands
  call,     \* call[w]: operation, booking and entity worker w has loaded
  todo,     \* todo[w]: what sweep w has found and not yet released
  bus,      \* every event published on the exchange so far
  crashes   \* how often the service has crashed

vars == <<slot, row, lock, creq, pc, call, todo, bus, crashes>>

-----------------------------------------------------------------------------
(* Rows, locks and events.                                                 *)

Statuses == {"pending", "confirmed", "cancelled", "completed", "no_show"}
Active == {"pending", "confirmed"}

\* The deadline is not a time but where the clock stands relative to it.
Rows == [status: Statuses \cup {"none"},
         paymentStatus: {"unpaid", "paid"},
         deadline: {"open", "passed", "null"}]

NoRow == [status |-> "none", paymentStatus |-> "unpaid", deadline |-> "null"]

Keys == {<<s.resource, s.start>> : s \in Slots}
Key(b) == <<slot[b].resource, slot[b].start>>

\* The conflict predicate of the query: same resource, intervals intersect.
Overlaps(s, t) ==
  /\ s.resource = t.resource
  /\ s.start < t.blockedUntil
  /\ s.blockedUntil > t.start

\* Variation: a pending row counts as free once its lock is gone.
Conflicts_LockedOnly(b) ==
  {c \in Bookings: /\ row[c].status = "confirmed" \/ (row[c].status = "pending" /\ lock[Key(c)] = c)
                   /\ Overlaps(slot[c], slot[b])}

Conflicts(b) == {c \in Bookings: row[c].status \in Active /\ Overlaps(slot[c], slot[b])}

\* Compare-and-delete: only the token that holds the lock frees it.
Unlocked(k, b) == [lock EXCEPT ![k] = IF @ = b THEN NoOne ELSE @]

RequestOps == {"customer_cancelled", "complete", "no_show"}
OutcomeOps == {"confirm", "payment_failed"}
Ops == RequestOps \cup OutcomeOps \cup {"payment_timeout"}
ReleaseOps == {"customer_cancelled", "payment_failed", "payment_timeout"}

PaymentKeys == {"payment.completed", "payment.failed"}
BookingKeys == {"booking.pending", "booking.confirmed", "slot.freed",
                "booking.cancelled", "booking.completed", "booking.no_show"}

\* The exchange is Payment's too: it announces its refunds there as well.
Events == [rk: BookingKeys \cup PaymentKeys \cup {"payment.refunded"}, booking: Bookings,
           by: Bookings \cup Workers, reason: ReleaseOps \cup {"-"}]

Calls == [op: Ops, booking: Bookings, entity: Rows]
NoCall == [op |-> "none"]

Published(rk, b) == PublishedOn(bus, rk, b)

Init ==
  /\ slot \in [Bookings -> Slots]
  /\ row = [b \in Bookings |-> NoRow]
  /\ lock = [k \in Keys |-> NoOne]
  /\ creq = [b \in Bookings |-> "idle"]
  /\ pc = [w \in Workers |-> "idle"]
  /\ call = [w \in Workers |-> NoCall]
  /\ todo = [w \in Sweeps |-> {}]
  /\ bus = {}
  /\ crashes = 0

-----------------------------------------------------------------------------
(* create: validate, lock, check and insert in one transaction, publish.   *)

\* The salon, service, staff or start time is refused before any lock.
RejectCreate(b) ==
  /\ creq[b] = "idle"
  /\ creq' = [creq EXCEPT ![b] = "refused"]
  /\ UNCHANGED <<slot, row, lock, pc, call, todo, bus, crashes>>

\* Variation: SET without NX.
AcquireLock_Overwrites(b) ==
  /\ creq[b] = "idle"
  /\ lock' = [lock EXCEPT ![Key(b)] = b]
  /\ creq' = [creq EXCEPT ![b] = "locked"]
  /\ UNCHANGED <<slot, row, pc, call, todo, bus, crashes>>

\* SET key token EX ttl NX.
AcquireLock(b) ==
  /\ creq[b] = "idle"
  /\ lock[Key(b)] = NoOne
  /\ lock' = [lock EXCEPT ![Key(b)] = b]
  /\ creq' = [creq EXCEPT ![b] = "locked"]
  /\ UNCHANGED <<slot, row, pc, call, todo, bus, crashes>>

LockTaken(b) ==
  /\ creq[b] = "idle"
  /\ lock[Key(b)] # NoOne
  /\ creq' = [creq EXCEPT ![b] = "refused"]
  /\ UNCHANGED <<slot, row, lock, pc, call, todo, bus, crashes>>

\* The connection is lost before Redis has answered: ioredis sends SET again,
\* which now finds the key taken, by the call's own token nobody knows of.
LockStranded(b) ==
  /\ "redis" \in Faults
  /\ creq[b] = "idle"
  /\ lock[Key(b)] = NoOne
  /\ lock' = [lock EXCEPT ![Key(b)] = b]
  /\ creq' = [creq EXCEPT ![b] = "refused"]
  /\ UNCHANGED <<slot, row, pc, call, todo, bus, crashes>>

\* Variation: the lock alone decides, nothing is queried.
CheckConflict_NoQuery(b) ==
  /\ creq[b] = "locked"
  /\ creq' = [creq EXCEPT ![b] = "checked"]
  /\ UNCHANGED <<slot, row, lock, pc, call, todo, bus, crashes>>

\* The SELECT of the transaction. READ COMMITTED takes no range lock, so
\* another transaction can insert between it and the INSERT.
CheckConflict(b) ==
  /\ creq[b] = "locked"
  /\ creq' = [creq EXCEPT ![b] = IF Conflicts(b) = {} THEN "checked" ELSE "releasing"]
  /\ UNCHANGED <<slot, row, lock, pc, call, todo, bus, crashes>>

\* Variation: the payment deadline is not stored.
Insert_NoDeadline(b) ==
  /\ creq[b] = "checked"
  /\ row' = [row EXCEPT ![b] =
       [status |-> "pending", paymentStatus |-> "unpaid", deadline |-> "null"]]
  /\ creq' = [creq EXCEPT ![b] = "inserted"]
  /\ UNCHANGED <<slot, lock, pc, call, todo, bus, crashes>>

\* The INSERT and its COMMIT.
Insert(b) ==
  /\ creq[b] = "checked"
  /\ row' = [row EXCEPT ![b] =
       [status |-> "pending", paymentStatus |-> "unpaid", deadline |-> "open"]]
  /\ creq' = [creq EXCEPT ![b] = "inserted"]
  /\ UNCHANGED <<slot, lock, pc, call, todo, bus, crashes>>

\* Postgres refuses a statement of the transaction, which is rolled back.
TransactionFails(b) ==
  /\ "db" \in Faults
  /\ creq[b] \in {"locked", "checked"}
  /\ creq' = [creq EXCEPT ![b] = "releasing"]
  /\ UNCHANGED <<slot, row, lock, pc, call, todo, bus, crashes>>

PublishPending(b) ==
  /\ creq[b] = "inserted"
  /\ bus' = bus \cup {Event("booking.pending", b, b, "-")}
  /\ creq' = [creq EXCEPT ![b] = "booked"]
  /\ UNCHANGED <<slot, row, lock, pc, call, todo, crashes>>

\* amqplib throws on a closed channel; the publish is inside the try block.
PublishPendingThrows(b) ==
  /\ "bus" \in Faults
  /\ creq[b] = "inserted"
  /\ creq' = [creq EXCEPT ![b] = "releasing"]
  /\ UNCHANGED <<slot, row, lock, pc, call, todo, bus, crashes>>

\* The catch block: free the lock and rethrow.
ReleaseAfterFailure(b) ==
  /\ creq[b] = "releasing"
  /\ lock' = Unlocked(Key(b), b)
  /\ creq' = [creq EXCEPT ![b] = "refused"]
  /\ UNCHANGED <<slot, row, pc, call, todo, bus, crashes>>

Create(b) ==
  \/ RejectCreate(b) \/ AcquireLock(b) \/ LockTaken(b) \/ LockStranded(b)
  \/ CheckConflict(b) \/ Insert(b) \/ TransactionFails(b) \/ PublishPending(b)
  \/ PublishPendingThrows(b) \/ ReleaseAfterFailure(b)

-----------------------------------------------------------------------------
(* The other handlers share a shape: read the row, return unless its       *)
(* status permits the operation, assign to the entity in memory, save it   *)
(* whole, release the lock, publish. The row may change after the read.    *)

\* Variation: the owner may complete a booking that is not paid yet.
Permitted_CompletePending(o, status) ==
  CASE o \in OutcomeOps              -> status = "pending"
    [] o = "customer_cancelled"      -> status \in Active
    [] o \in {"complete", "no_show"} -> status \in Active

\* The early return or exception of each operation, on what it has read.
Permitted(o, status) ==
  CASE o \in OutcomeOps              -> status = "pending"
    [] o = "customer_cancelled"      -> status \in Active
    [] o \in {"complete", "no_show"} -> status = "confirmed"

\* Variation: a status outside the enum of the column.
Assigned_Expired(o, e) ==
  CASE o = "confirm"    -> [status |-> "confirmed", paymentStatus |-> "paid",
                            deadline |-> "null"]
    [] o \in ReleaseOps -> [e EXCEPT !.deadline = "null",
         !.status = IF o = "payment_timeout" THEN "expired" ELSE "cancelled"]
    [] o = "complete"   -> [e EXCEPT !.status = "completed"]
    [] o = "no_show"    -> [e EXCEPT !.status = "no_show"]

\* What the operation assigns to the entity it has read.
Assigned(o, e) ==
  CASE o = "confirm"    -> [status |-> "confirmed", paymentStatus |-> "paid",
                            deadline |-> "null"]
    [] o \in ReleaseOps -> [e EXCEPT !.status = "cancelled", !.deadline = "null"]
    [] o = "complete"   -> [e EXCEPT !.status = "completed"]
    [] o = "no_show"    -> [e EXCEPT !.status = "no_show"]

\* Variation: a refund is asked for on every cancellation.
RoutingKeys_AlwaysRefund(o, e) ==
  CASE o = "confirm"    -> {"booking.confirmed"}
    [] o = "complete"   -> {"booking.completed"}
    [] o = "no_show"    -> {"booking.no_show"}
    [] o \in ReleaseOps -> {"slot.freed"} \cup
         IF o = "customer_cancelled" THEN {"booking.cancelled"} ELSE {}

\* Variation: a slot released for want of a payment is not announced.
RoutingKeys_Silent(o, e) ==
  CASE o = "confirm"    -> {"booking.confirmed"}
    [] o = "complete"   -> {"booking.completed"}
    [] o = "no_show"    -> {"booking.no_show"}
    [] o \in {"payment_timeout", "payment_failed"} -> {}
    [] o = "customer_cancelled" -> {"slot.freed"} \cup
         IF e.paymentStatus = "paid" THEN {"booking.cancelled"} ELSE {}

\* The routing keys it publishes at the end. Whether a cancellation asks
\* for a refund is decided by the entity read at the start.
RoutingKeys(o, e) ==
  CASE o = "confirm"    -> {"booking.confirmed"}
    [] o = "complete"   -> {"booking.completed"}
    [] o = "no_show"    -> {"booking.no_show"}
    [] o \in ReleaseOps -> {"slot.freed"} \cup
         IF o = "customer_cancelled" /\ e.paymentStatus = "paid"
           THEN {"booking.cancelled"} ELSE {}

Announced(w) ==
  {Event(rk, call[w].booking, w, IF rk = "slot.freed" THEN call[w].op ELSE "-") :
     rk \in RoutingKeys(call[w].op, call[w].entity)}

Load(w, o, b, e) ==
  /\ pc' = [pc EXCEPT ![w] = "loaded"]
  /\ call' = [call EXCEPT ![w] = [op |-> o, booking |-> b, entity |-> e]]

\* findOne of cancel, complete and markNoShow; a refused call ends here.
HandleRequest(w) ==
  /\ pc[w] = "idle"
  /\ \E b \in Bookings, o \in RequestOps:
       /\ row[b].status # "none"
       /\ IF Permitted(o, row[b].status)
            THEN Load(w, o, b, row[b])
            ELSE pc' = [pc EXCEPT ![w] = "done"] /\ UNCHANGED call
  /\ UNCHANGED <<slot, row, lock, creq, todo, bus, crashes>>

\* Variation: a message of which the handler makes nothing is not acknowledged.
HandleOutcome_NoAck(m) ==
  /\ pc[m] = "idle"
  /\ \E e \in bus:
       LET o == IF e.rk = "payment.completed" THEN "confirm" ELSE "payment_failed"
       IN /\ e.rk \in PaymentKeys /\ e.by = m
          /\ Permitted(o, row[e.booking].status)
          /\ Load(m, o, e.booking, row[e.booking])
  /\ UNCHANGED <<slot, row, lock, creq, todo, bus, crashes>>

\* A payment outcome reaches the consumer: findOne of confirm and of
\* cancelForPaymentFailure; a message with nothing to do is acknowledged.
HandleOutcome(m) ==
  /\ pc[m] = "idle"
  /\ \E e \in bus:
       LET o == IF e.rk = "payment.completed" THEN "confirm" ELSE "payment_failed"
       IN /\ e.rk \in PaymentKeys /\ e.by = m
          /\ IF Permitted(o, row[e.booking].status)
               THEN Load(m, o, e.booking, row[e.booking])
               ELSE pc' = [pc EXCEPT ![m] = "done"] /\ UNCHANGED call
  /\ UNCHANGED <<slot, row, lock, creq, todo, bus, crashes>>

\* The cron reads every expired row at once ...
FindExpired(w) ==
  LET expired == {b \in Bookings: row[b].status = "pending" /\ row[b].deadline = "passed"}
  IN /\ pc[w] = "idle"
     /\ expired # {}
     /\ todo' = [todo EXCEPT ![w] = {[booking |-> b, entity |-> row[b]] : b \in expired}]
     /\ pc' = [pc EXCEPT ![w] = "sweeping"]
     /\ UNCHANGED <<slot, row, lock, creq, call, bus, crashes>>

\* ... and releases them one by one, without reading them again.
NextExpired(w) ==
  /\ pc[w] = "sweeping"
  /\ \E t \in todo[w]:
       /\ todo' = [todo EXCEPT ![w] = @ \ {t}]
       /\ Load(w, "payment_timeout", t.booking, t.entity)
  /\ UNCHANGED <<slot, row, lock, creq, bus, crashes>>

\* Variation: releaseBooking publishes before it releases the lock.
Save_KeepsLock(w) ==
  /\ pc[w] = "loaded"
  /\ row' = [row EXCEPT ![call[w].booking] = Assigned(call[w].op, call[w].entity)]
  /\ pc' = [pc EXCEPT ![w] = "unlocked"]
  /\ UNCHANGED <<slot, lock, creq, call, todo, bus, crashes>>

\* repo.save: every column of the entity overwrites the row.
Save(w) ==
  /\ pc[w] = "loaded"
  /\ row' = [row EXCEPT ![call[w].booking] = Assigned(call[w].op, call[w].entity)]
  /\ pc' = [pc EXCEPT ![w] =
       IF call[w].op \in {"complete", "no_show"} THEN "unlocked" ELSE "saved"]
  /\ UNCHANGED <<slot, lock, creq, call, todo, bus, crashes>>

\* releaseLock, with the token stored in the entity.
ReleaseLock(w) ==
  /\ pc[w] = "saved"
  /\ lock' = Unlocked(Key(call[w].booking), call[w].booking)
  /\ pc' = [pc EXCEPT ![w] = "unlocked"]
  /\ UNCHANGED <<slot, row, creq, call, todo, bus, crashes>>

\* The sweep goes on with its list; a request is answered and a message
\* acknowledged.
Publish(w) ==
  /\ pc[w] = "unlocked"
  /\ bus' = bus \cup Announced(w)
  /\ pc' = [pc EXCEPT ![w] =
       IF w \notin Sweeps THEN "done"
       ELSE IF todo[w] = {} THEN "idle" ELSE "sweeping"]
  /\ call' = [call EXCEPT ![w] = NoCall]
  /\ UNCHANGED <<slot, row, lock, creq, todo, crashes>>

\* The process dies with everything in progress; a message that was not
\* acknowledged is delivered again to the process started next.
Die ==
  /\ creq' = [b \in Bookings |->
       IF creq[b] \in {"idle", "refused", "booked"} THEN creq[b] ELSE "dead"]
  /\ pc' = [w \in Workers |->
       IF pc[w] \in {"idle", "done"} THEN pc[w]
       ELSE IF w \in Requests THEN "done" ELSE "idle"]
  /\ call' = [w \in Workers |-> NoCall]
  /\ todo' = [w \in Sweeps |-> {}]

\* An exception ends the run: the request is answered 500, the sweep drops
\* the rest of its list, the message is dead-lettered (nack, no requeue).
Abort(w) ==
  /\ pc' = [pc EXCEPT ![w] = IF w \in Sweeps THEN "idle" ELSE "done"]
  /\ call' = [call EXCEPT ![w] = NoCall]
  /\ todo' = [x \in Sweeps |-> IF x = w THEN {} ELSE todo[x]]
  /\ UNCHANGED creq

\* Postgres refuses to read or to save: either way nothing is written.
SaveFails(w) ==
  /\ "db" \in Faults
  /\ pc[w] = "loaded"
  /\ Abort(w)
  /\ UNCHANGED <<slot, row, lock, bus, crashes>>

\* The channel is closed. In a consumer the nack of the catch block throws as
\* well, a rejection nobody handles, and Node ends the process.
PublishThrows(w) ==
  /\ "bus" \in Faults
  /\ pc[w] = "unlocked"
  /\ IF w \in Deliveries THEN Die ELSE Abort(w)
  /\ UNCHANGED <<slot, row, lock, bus, crashes>>

Work(w) ==
  Save(w) \/ SaveFails(w) \/ ReleaseLock(w) \/ Publish(w) \/ PublishThrows(w)

-----------------------------------------------------------------------------
(* Time and crashes.                                                       *)

InFlight(b) == creq[b] \in {"locked", "checked"}

\* Redis drops a key when its TTL is over. A create takes milliseconds and
\* the TTL is minutes: only with the fault "slow" does it expire meanwhile.
LockExpires(k) ==
  /\ lock[k] # NoOne
  /\ "slow" \in Faults \/ ~InFlight(lock[k])
  /\ lock' = [lock EXCEPT ![k] = NoOne]
  /\ UNCHANGED <<slot, row, creq, pc, call, todo, bus, crashes>>

\* The deadline is set from the same TTL, after the lock was taken.
DeadlinePasses(b) ==
  /\ row[b].status = "pending"
  /\ row[b].deadline = "open"
  /\ lock[Key(b)] # b
  /\ row' = [row EXCEPT ![b].deadline = "passed"]
  /\ UNCHANGED <<slot, lock, creq, pc, call, todo, bus, crashes>>

\* The process is killed and started again. Postgres, Redis and RabbitMQ keep
\* their state.
Crash ==
  /\ "crash" \in Faults
  /\ crashes < MaxCrashes
  /\ crashes' = crashes + 1
  /\ Die
  /\ UNCHANGED <<slot, row, lock, bus>>

\* Every action of the service itself.
ServiceNext ==
  \/ \E b \in Bookings: Create(b) \/ DeadlinePasses(b)
  \/ \E w \in Workers: Work(w)
  \/ \E w \in Requests: HandleRequest(w)
  \/ \E m \in Deliveries: HandleOutcome(m)
  \/ \E w \in Sweeps: FindExpired(w) \/ NextExpired(w)
  \/ \E k \in Keys: LockExpires(k)
  \/ Crash

\* The payment service, as the booking service sees it: an outcome may come
\* for any booking that was announced to it, once per payment attempt.
PaymentOutcome(m) ==
  /\ \A e \in bus: e.by # m
  /\ \E b \in Bookings, rk \in PaymentKeys:
       /\ Published("booking.pending", b)
       /\ bus' = bus \cup {Event(rk, b, m, "-")}
  /\ UNCHANGED <<slot, row, lock, creq, pc, call, todo, crashes>>

\* Every call is answered and no clock is running: the service waits.
Rest ==
  /\ \A b \in Bookings: creq[b] \in {"refused", "booked", "dead"} /\ row[b].status # "pending"
  /\ \A w \in Requests: pc[w] = "done" \/ \A b \in Bookings: row[b].status = "none"
  /\ \A m \in Deliveries: pc[m] = "done" \/ \A b \in Bookings: ~Published("booking.pending", b)
  /\ \A w \in Sweeps: pc[w] = "idle"
  /\ \A k \in Keys: lock[k] = NoOne
  /\ UNCHANGED vars

Next == ServiceNext \/ (\E m \in Deliveries: PaymentOutcome(m)) \/ Rest

Spec == Init /\ [][Next]_vars

-----------------------------------------------------------------------------
(* Properties.                                                             *)

\* The state stays in its types: a row only ever holds values of its enums,
\* a lock only tokens of calls, the bus only events the services can build.
TypeOK ==
  /\ slot \in [Bookings -> Slots]
  /\ row \in [Bookings -> Rows]
  /\ lock \in [Keys -> Bookings \cup {NoOne}]
  /\ creq \in [Bookings -> {"idle", "locked", "checked", "inserted", "releasing",
                           "booked", "refused", "dead"}]
  /\ pc \in [Workers -> {"idle", "sweeping", "loaded", "saved", "unlocked", "done"}]
  /\ call \in [Workers -> Calls \cup {NoCall}]
  /\ todo \in [Sweeps -> SUBSET [booking: Bookings, entity: Rows]]
  /\ bus \subseteq Events
  /\ crashes \in 0..MaxCrashes

\* Redis keeps two calls of create for the same slot from running their
\* check-and-insert transaction side by side, whatever the other handlers
\* release meanwhile: they release with the token of their own booking.
CreatesExclusive ==
  \A b, c \in Bookings: InFlight(b) /\ InFlight(c) /\ b # c => Key(b) # Key(c)

\* Two customers never both hold a PENDING booking of the same slot, also
\* when the lock of the first has expired and the cron has not run yet.
OnePendingPerSlot ==
  \A b, c \in Bookings:
    row[b].status = "pending" /\ row[c].status = "pending" /\ b # c => Key(b) # Key(c)

\* An appointment that is confirmed, completed or missed was paid for:
\* Payment said so, whatever handlers raced over the row since.
ServedOnlyIfPaid ==
  \A b \in Bookings: row[b].status \in {"confirmed", "completed", "no_show"} =>
    Published("payment.completed", b)

\* A refund is only asked for a booking that Payment has reported as paid.
RefundOnlyIfPaid ==
  \A b \in Bookings: Published("booking.cancelled", b) => Published("payment.completed", b)

\* When slot.freed is on the bus the booking's lock is gone: a listener that
\* offers the slot at once is not turned away by the lock just given up.
FreedMeansUnlocked ==
  \A b \in Bookings: Published("slot.freed", b) => lock[Key(b)] # b

Announcement(status) ==
  CASE status = "pending"   -> "booking.pending"
    [] status = "confirmed" -> "booking.confirmed"
    [] status = "cancelled" -> "slot.freed"
    [] status = "completed" -> "booking.completed"
    [] status = "no_show"   -> "booking.no_show"

\* As long as no publish throws and no process dies, the other services hear of
\* every status a row ever shows: it was announced, or the handler that saved it
\* is about to.
StatusAnnounced ==
  "bus" \notin Faults /\ crashes = 0 =>
    \A b \in Bookings: row[b].status # "none" =>
      \/ Published(Announcement(row[b].status), b)
      \/ creq[b] = "inserted"
      \/ \E w \in Workers: /\ pc[w] \in {"saved", "unlocked"}
                          /\ call[w].booking = b
                          /\ Announcement(row[b].status) \in
                               RoutingKeys(call[w].op, call[w].entity)

\* At most one claim has a slot from the conflict check on until the booking
\* is paid for or given up: the service implements SlotHold.
Claimants(k) == {b \in Bookings: Key(b) = k /\ (creq[b] = "checked" \/ row[b].status = "pending")}

Hold == INSTANCE SlotHold WITH
  Claims <- Bookings, Nobody <- NoOne,
  holder <- [k \in Keys |-> IF Claimants(k) = {} THEN NoOne ELSE CHOOSE b \in Claimants(k): TRUE]

HoldSpec == Hold!Spec

\* What the docs say of a slot in README.md (double-booking prevention) and
\* in the comment of the transaction: no two active bookings of a resource
\* take the same time.
NoDoubleBooking ==
  \A b \in Bookings: row[b].status \in Active => Conflicts(b) = {b}

-----------------------------------------------------------------------------
(* Fairness: the event loop runs every handler it has started, the broker  *)
(* delivers, the cron fires every minute, clocks advance. Nobody has to    *)
(* make a request, and no fault has to happen.                             *)

Fairness ==
  /\ \A b \in Bookings:
       /\ WF_vars(CheckConflict(b) \/ Insert(b) \/ PublishPending(b) \/ ReleaseAfterFailure(b))
       /\ WF_vars(DeadlinePasses(b))
  /\ \A w \in Workers: WF_vars(Save(w) \/ ReleaseLock(w) \/ Publish(w))
  /\ \A m \in Deliveries: WF_vars(HandleOutcome(m))
  /\ \A w \in Sweeps: WF_vars(FindExpired(w) \/ NextExpired(w))
  /\ \A k \in Keys: WF_vars(LockExpires(k))

FairSpec == Spec /\ Fairness

\* No booking stays PENDING: it is paid for, cancelled, or the cron finds it,
\* also when its create, its handlers or the cron crash on the way.
PendingResolved ==
  \A b \in Bookings: row[b].status = "pending" ~> row[b].status # "pending"

\* A payment outcome is handled to its acknowledgement, also when the service
\* crashes in the middle and the broker delivers it again.
OutcomeAcknowledged ==
  \A m \in Deliveries: (\E e \in bus: e.by = m) ~> pc[m] = "done"
=============================================================================
