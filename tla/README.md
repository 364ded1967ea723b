# Verification of the salon booking system

TLA+ modules, TLC configurations and TLAPS proofs for the services under `src/`. The program is a set of
NestJS services with a database each, an Express gateway, a React frontend, and one RabbitMQ topic exchange
(`salon.events`) that carries every event from service to service.

## 1. Inventory

Paths below are under `src/services/` unless they start with `src/`.

| Part | State it keeps | Operations | What makes it correct |
|---|---|---|---|
| Booking (`booking-service/src/bookings`) | table `bookings` (Postgres), keys `lock:slot:*` (Redis, TTL) | `create`, `confirm`, `cancelForPaymentFailure`, `cancel`, `complete`, `markNoShow`, cron `releaseExpired`, query `availability` | one claimant per slot; nothing served or refunded that was not paid; no booking pending for ever; every status announced |
| Payment (`payment-service/src/payments`) | table `payments`, commission rate in memory, the (mock) gateway's charges | `pay`, `onBookingPending`, `refund`, `failPending` | completed means charged; refunds exactly when asked for; every booking can be paid |
| Event bus (`*/src/events/event-bus.service.ts`, one copy per service) | connection, channel, durable queues | `connectWithRetry`, `publish`, `subscribe` | a message leaves its queue with the run that handled it; what is published is sent |
| Catalogue (`catalogue-service/src/salons`) | salon documents (Mongo) | `create`, `addService`, `setStatus`, consumer of ratings and verification | the snapshot last published is the document |
| Search (`search-service/src/search`) | index documents (Mongo) | `upsert`, `search` | the index converges to the catalogue |
| Reviews (`review-service/src/reviews`) | reviews, eligibilities (Mongo) | eligibility consumer, `create`, `reply`, `publishRating` | one review per completed booking; the last published rating is the aggregate |
| Loyalty (`loyalty-service/src/loyalty`) | accounts, ledger entries (Postgres) | `award`, `reverse`, `getMe` | account totals equal the ledger |
| Notification (`notification-service/src/notifications`) | notifications (Mongo) | `handle`, `deliver`, `markRead` | a customer is told of an event, once |
| Reporting (`reporting-service/src/reporting`) | event records (Postgres) | `record`, `ownerDashboard` | a booking counts once in its owner's figures |
| Admin (`admin-service/src/admin`) | commission config, disputes (Postgres) | `setCommission`, `fileDispute`, `resolveDispute`, `setSalonStatus` | a refund marked as issued is asked for; a rate announced as a number comes into force |
| Staff (`staff-service/src/staff`) | staff rows (Postgres) | `create`, `update`, `addLeave` | no leave entry is lost |
| Identity (`identity-service/src`) | users (Postgres) | `register`, `login`, `refresh` | one account per e-mail |
| Gateway (`src/gateway/src`) | none | verify JWT, inject headers, proxy | a call without a valid token is not carried out |
| Frontend (`src/frontend/src`) | session in `localStorage`, store, the shared `refreshing` promise; what is picked on a page | interceptors, sign in and out, choosing and booking a slot | a call is carried out once; what is stored belongs together; a slot offered meets no booking of the list it was computed from |

How they interact: clients call the services through the gateway (HTTP); Booking reads Catalogue synchronously
when a booking is created; everything else goes over the exchange:

```
Booking  --booking.pending-->  Payment      Payment --payment.completed/failed--> Booking
Booking  --slot.freed, booking.cancelled--> Payment, Notification, Reporting
Booking  --booking.completed--> Loyalty, Reviews, Notification, Reporting
Payment  --payment.refunded-->  Loyalty     Admin   --commission.updated-->  Payment
Reviews  --salon.rating.updated--> Catalogue --salon.upserted--> Search
Admin    --admin.salon.status--> Catalogue  Admin   --booking.cancelled--> Payment, Notification, Reporting
```

What is hard here:

* **Interleaved handlers.** Node switches at every `await`. Every handler of Booking and Payment reads a row,
  awaits, and later saves the whole entity it has read; requests, consumers and the cron work on the same rows.
* **Two stores without a common transaction.** Row, lock and event are written one after the other; a crash or
  an exception between them leaves the others behind. There is no outbox.
* **Clocks.** The lock in Redis and the payment deadline in the row expire separately; the cron notices later.
* **Delivery.** A handler that throws loses its message: it is rejected to a dead-letter exchange that no queue is
  bound to. A process that dies before the acknowledgement gets it again; two queues of one consumer are not ordered
  with each other; after a lost connection the process publishes again and consumes no more.
* **Choreography.** Money and appointment live in two databases that agree only through events.

`PROJECT.json` lists each hazard at its line, with the properties that constrain it and, in a note, what they let pass because the code does it.

## 2. What is modelled

| Module | Models |
|---|---|
| `Exchange` | events and what is published on the exchange |
| `Booking` | `bookings.service.ts`, `redis.service.ts` and Booking's side of `event-bus.service.ts` |
| `SlotHold` | abstract: what Booking promises about one slot while its payment window runs |
| `Payment` | `payments.service.ts`, `mock-gateway.ts` and Payment's side of the bus |
| `Saga` | `Booking` and `Payment` side by side, joined by the exchange |
| `Reviews` | `reviews.service.ts`: eligibility, reviews and the ratings announced |
| `Catalogue` | `salons.service.ts`: salons, their services, and what ratings and decisions change in them |
| `Search` | `search.service.ts`: the read model built from snapshots |
| `Storefront` | `Reviews`, `Catalogue` and `Search` side by side; completed visits and the admin's decisions come from outside |
| `Loyalty` | `loyalty.service.ts`: ledger entries and the account they are added to |
| `Notification` | `notifications.service.ts`: what a customer is told |
| `Reporting` | `reporting.service.ts`: records of events and the owner's figures |
| `Admin` | `admin.service.ts`: disputes and commission, with Payment's consumer of the rate |
| `Aftercare` | the four above, fed with what Booking and Payment may announce |
| `EventBus` | `event-bus.service.ts`: one process, its connection, channel and queue |
| `Delivery` | abstract: what the other modules take a queue to be |
| `Identity` | `auth.service.ts`, `users.service.ts`: registration |
| `Session` | `client.ts`, `authSlice.ts`, the gateway's `auth.js`: tokens, tabs and calls |
| `SalonPage` | `SalonDetailPage.tsx` with `availability` and the checks of `create` |
| `Client` | `Session` and `SalonPage` in one browser |
| `MCBooking`, `MCSaga`, `MCStorefront`, `MCAftercare`, `MCClient` | constants and symmetry for TLC |
| `BookingProofs`, `SlotProofs` | theorems about `Booking`: types, locks and payments; released slots, announcements and the refinement of `SlotHold` |
| `SagaProofs` | theorems about `Payment` joined with `Booking` |
| `StorefrontProofs`, `AftercareProofs`, `EventBusProofs`, `ClientProofs` | theorems about the module of that name |
| `FiniteSums` | lemmas about sums over finite sets, for the ratings, points and figures of the proofs above |

### Conventions

* **A step is what happens between two awaits**: one database, Redis or gateway call with the synchronous code
  around it. Whatever may run in between is an interleaving. Publishing is synchronous in the code, so it
  belongs to the step in which it happens.
* **`repo.save(entity)`** writes the entity as it was read and changed in memory. TypeORM compares it with the
  row first and writes the columns that differ; the model makes this one overwrite. The columns kept are
  `status`, `paymentStatus` and `paymentDeadline`; the others never change after the insert.
* **The transaction of `create`** is two steps, the SELECT and the INSERT with its COMMIT, because Postgres runs
  it at READ COMMITTED, where the SELECT locks nothing for rows that do not exist.
* **Events** are a set: an event carries its routing key, its booking and *which call published it*, so two
  calls that announce the same thing are two events. Order between queues is not assumed. Within Booking's one
  queue the model allows any order, which includes the one RabbitMQ keeps.
* **Time.** A deadline is `open`, `passed` or `null`. `DeadlinePasses` waits until the booking's lock is gone:
  both are set from `SLOT_LOCK_TTL_SECONDS`, the lock first, the deadline only later. A slot is a resource with
  the two ends of the interval it blocks; only their order matters.
* **Faults** are constants: `"crash"` (the process dies and restarts; databases, Redis and queues stay, a message
  not acknowledged comes back), `"db"` (a statement fails), `"bus"` (a publish throws, as amqplib does on a
  closed channel), `"redis"` (Redis applies the SET of a lock, its answer is lost, and ioredis sends it again on the
  next connection, where it is refused), `"slow"` (a lock may expire while its `create` still runs). Crashes are bounded by
  `MaxCrashes` and `MaxPayCrashes`.
* **A consumer that throws** ends with `nack` without requeue, so its message is gone. When it is a publish that
  throws, the channel is closed and the `nack` throws as well; nobody handles that rejection, so Node ends the
  process (`Die`, `PayDie`), the message is not settled and comes again when the process is started. Starting it is
  the operator's part: `docker-compose.yml` sets no restart policy. A request or the cron that throws only ends its own run.
* **The broker** does not fail in the modules of the services, and their consumers stay subscribed. What its failures and
  lost connections do to one process and its queue is the subject of `EventBus`.
* **Left out**: who may call an operation (the ownership tests), names, amounts and currency, logging, what a
  request is refused for (one action `RejectCreate`), and a gateway that is configured without `PAYMENT_MOCK`, which throws at every charge
  (`mock-gateway.ts:20`): the call of `pay` is answered 500 and has changed nothing.

### Booking: state and actions

| Variable | Stands for |
|---|---|
| `slot[b]` | what call `b` of `create` asks for: `resourceKey`, `startTime`, `blockedUntil` |
| `row[b]` | the row that call inserts, `none` before |
| `lock[k]` | the token under `lock:slot:<resource>:<start>`; a token is named after its call |
| `creq[b]` | where call `b` stands in `create` |
| `pc[w]`, `call[w]` | where the request, delivery or sweep `w` stands, and the entity it holds in memory |
| `todo[w]` | the list that a run of the cron has read and not finished |
| `bus`, `crashes` | events published; crashes so far |

`create` is `RejectCreate`, `AcquireLock`/`LockTaken`/`LockStranded`, `CheckConflict`, `Insert`, `PublishPending`, and the catch block
`ReleaseAfterFailure` that `TransactionFails` and `PublishPendingThrows` lead to. The other handlers have one shape -
read (`HandleRequest`, `HandleOutcome`, `FindExpired` with `NextExpired`), `Save`, `ReleaseLock`, `Publish` - and
differ in `Permitted` (the early return), `Assigned` (the assignments) and `RoutingKeys` (what is published).
`PaymentOutcome` is the environment: Payment as Booking sees it. `Rest` is the service waiting with nothing to do:
it lets TLC look for deadlocks, and holds only when every call is answered, every outcome acknowledged, no booking
pending and no lock held.

### Payment and Saga

`pay` is `PayRead`, `Charge` (skipped for pay-at-salon), `PaySave`, `PayPublish`; a consumer run is `Take`, then
`RefundCharge` for a refund of a charged payment, `SaveRun`, `Finish`. `charged` and `refunds` record what the
gateway did, which no table of the program does. `Saga` conjoins the two next-state relations over the shared
`bus`; a call of `pay` publishes one outcome, so its name serves as the name of the delivery on Booking's side.

### Reviews, Catalogue, Search and Storefront

`create` of a review is `Check` (the eligibility), `InsertReview` (which the unique index may refuse), `MarkUsed`,
`Aggregate` and `PublishRating`; a call refused at `Check` changes nothing and is not a step. Ratings are the numbers
the code computes: the average in tenths, rounded as `Math.round` does, and the count.

A handler of Catalogue is a job: it is begun by `CreateSalon`, `AddService` or `Sync` (a message) with the document
as *loaded* and the *copy* in memory with the handler's assignments; `SaveSalon` writes the difference of the two and
`EmitUpserted` announces the copy. `Saved` is what mongoose does: it compares each path with what was loaded, `$set`s
those that differ, and `$push`es the services pushed, so that concurrent handlers do not undo each other in the
*document*, while each announces a *copy* that lacks what the others have done meanwhile.

Search replaces the whole index document by the snapshot of the message (`Upsert`). It takes messages in any
order: the consumer has no prefetch limit and each update goes over a connection of the driver's pool of its own. An
update and its acknowledgement are one step, as nothing can tell them apart but a crash in between (`UpsertAndDie`,
and the eligibilities that `ReviewsCrash` may leave behind).
A snapshot announced again by a redelivered handler is the same event if it is the same document.

Not in these modules: `salon.removed`, which Search consumes and nobody publishes; `setStatus` of Catalogue, which
nobody calls; a duplicate-key error of two first upserts at once, which MongoDB retries itself.

### Loyalty, Notification, Reporting, Admin and Aftercare

A run of `award` or `reverse` is `Look` (the queries of the ledger and the early returns), `InsertEntry` (which the unique
index on booking and type may refuse), `ReadAccount`, `CreateAccount` if there is none, and `SaveAccount`, which writes the
points the run has *read* plus or minus its own. Two runs of one customer may therefore lose what one of them did, and a crash
between entry and account loses it too; `points` and `lifetimePoints` change alike and are one number.

Notification stores one notification per message (`Deliver`), Reporting looks for a record and inserts one (`Look`,
`SaveRecord`). `Nameless` are the publishers whose events carry the booking only: Admin's `booking.cancelled`, for which mongoose
refuses the notification (`userId` is required) and Reporting stores a record without an owner.

In Admin, `Resolve` is `findOne`, the assignments and the publish, `SaveDispute` writes the entity. `rates` is the
queue `payment.commission` and `rate` the number in Payment's memory, which `PaymentRestarts` resets. Nobody checks the type of a
rate (`admin.controller.ts:39` takes it from the body as it is), and Payment applies only what is a number (`payments.service.ts:49`): `Sent[k]` says
whether call `k` sends a number, a text or nothing. A text is saved and announced and changes nothing in Payment; of nothing, only the announcement is left.

`Aftercare` gives the four services the events of `Handlers`, runs of Booking that race over a booking and each announce what
they did, and the refunds of Payment, one for each time it was asked. The services share nothing but the events, so a
behaviour *watches* one of them (`watched`) while the messages of the others wait: every interleaving of one service with
the events and with Admin's disputes is there, and only the product of services that never meet is not.

### EventBus and Delivery

`process` follows `onModuleInit`: connect, assert and bind the queue, wait for the answer of `consume`, run. `channel` is
which channel `this.channel` is; `consumer` the channel `consume` was called on. The service calls `subscribe` once per
process, so after a reconnect `consumer # channel` and nothing is delivered until the process is started again. Acknowledgements go by delivery
tag over `this.channel`: `RunEnds` settles whatever message has that tag on the channel of the day (`Tagged`),
`RunEndsRefused` is a tag the broker does not know, after which amqplib closes the connection or the unheard error ends the
process (both are allowed), `RunEndsUnheard` the rejection on a closed channel. A lost connection while `consume` is pending
rejects `onModuleInit`. The nine copies of the file are identical; `map` spreads the actions over the copies.

`Delivery` is the queue that `Booking`, `Payment`, `Storefront` and `Aftercare` take for granted. `EventBus` implements it: a message on
its way back to the queue and one waiting are both `queued`, and `runs` counts handler runs. A message
is never settled by another's acknowledgement, because a process never consumes on two channels; if it subscribed
again after a reconnect, as one might want it to, old runs would acknowledge new messages (that is the mutant of `DeliverySpec`).

### Identity, Session, SalonPage and Client

`register` is `FindByEmail` and `InsertUser`, which the unique column may refuse. `stored` is the item `auth` of the local
storage, shared by the tabs; `shown[t]` the user in tab `t`'s store, which only `SignIn`, `LogOut` and a reload
change. A call is sent with the token stored at that moment, refused (`GatewayRefuses`) or proxied
(`GatewayProxies`: carried out or not, answered or broken on the way), and after its first 401 waits for `refreshing[t]`, the
session read by the refresh under way. `RefreshSucceeds` writes *that* session with new tokens, also over a login of another tab, and
sends the waiting calls again; `RefreshFails` removes whatever is stored. Tokens are numbered, and expire by `Expire`.

`SalonPage` computes the slots of a day (`Starts`, `Available`) as `availability` does, from the rows of the UTC day. The page keeps a
list that may be old, a service, a date and a slot picked. `create` then refuses in one of three steps: `SalonClosed` (the salon is not active),
`SlotLocked` (the lock of the start is held, by a create under way or one that left it behind, whether or not there is a row) and the conflict
branch of `Create`, whose other branch inserts the row and keeps the lock (how `create` races is `Booking`'s matter). `SalonDecided`, `OtherLocks`,
`LockGoes`, `OtherBooks` and `OtherCancels` are what the admin, other customers and Redis do meanwhile. `availability` looks at neither status nor locks, so
an offer may be turned down for either; only the third refusal is one a slot offered should not meet. The clock stands still, so no slot passes.

Not in these modules: `markRead` of notifications, `updateProfile` of users, the rate limit and route table of the gateway,
the pages that only show what a query returns.

## 3. Runs

| Run | Instance | Shows |
|---|---|---|
| `booking_core` | 2 customers, 2 overlapping start times, 1 request, 1 outcome, 1 sweep, faults crash (once), bus, db, redis; symmetry of the customers | `TypeOK`, `CreatesExclusive`, `OnePendingPerSlot`, `ServedOnlyIfPaid`, `RefundOnlyIfPaid`, `FreedMeansUnlocked`, and `HoldSpec`: Booking implements `SlotHold` |
| `booking_live` | 2 customers, 1 slot, 1 request, 1 outcome, 1 sweep, faults crash (once), slow; fairness | `StatusAnnounced`, `PendingResolved`, `OutcomeAcknowledged` |
| `booking_overlap` | 2 overlapping start times, no fault | `NoDoubleBooking` **violated** |
| `saga_live` | 1 customer, 1 request, 2 calls of `pay`, no fault; fairness | `ConfirmedKeepsPayment`, `PaymentOffered`, `RefundHonoured` |
| `saga_faults` | 1 customer, 2 requests, 1 call of `pay`, 1 sweep, faults of Booking crash (once) and bus, of Payment crash (once), bus and db; symmetry of the requests | `RefundsRequested`, `CompletedIsCharged`, and `BookingSpec`: Payment is the environment that Booking assumes |
| `saga_cancel` | 1 customer, 1 request, 1 call of `pay`, 1 sweep, no fault | `CancelledIsRefunded` **violated** |
| `storefront` | 1 salon, 1 visit, 2 calls of `create`, 2 calls of the owner, 1 decision, faults crash, bus, db; symmetry of the calls | `StorefrontTypeOK`, `OneReviewPerVisit`, `ServicesKept`, `StatusIsDecided` |
| `storefront_live` | 1 salon, 2 visits rated 5 and 2, 2 calls of `create`, 1 of the owner, faults crash (not Reviews), db; fairness | `RatingsAreOfReviews`, `CountsAreBacked`, `VisitsReviewable`, `RatingsShown` |
| `storefront_sync` | 1 salon, 1 visit, 1 decision, no fault | `IndexInSync` **violated** |
| `aftercare` | 2 bookings of one customer and one owner, 2 handlers of Booking, 1 dispute, 2 resolutions, 3 rates (sent as a number, as text, and not at all), one crash and refused statements in each service; fairness | `NeverOverCredited`, `ToldOnce`, `DashboardHonest`, `IssuedIsAsked`, `PointsRecorded`, `CustomersTold`, `EventsRecorded`, `RateApplied` |
| `eventbus` | 2 messages in, 1 event out, 2 attempts to connect, 2 connections lost, 1 restart of the broker, 2 starts of the process; fairness | `NothingDropped`, `HeardIsSettled`, and `DeliverySpec`: EventBus implements `Delivery` |
| `client` | 2 registrations of one address, the administrator, 2 tabs, 2 calls of one tab, 3 tokens; 2 services, 2 days of 8 units, 2 bookings of others with their locks, a salon that closes and opens, 1 click; symmetry of the calls | `OneAccountPerEmail`, `StoredTogether`, `CarriedOutOnce`, `BookedWithinHours`, `ConflictOnlyIfTakenSince` |

**Bounds.** Two customers are what a race for a slot needs; with one request, one outcome and one sweep, three
handlers besides the creates can hold stale entities of the same row at the same time. Two start times whose
intervals overlap give every combination that the lock (same start) and the query (intersecting intervals) tell
apart. One crash is enough to reach each point between two steps of each handler. The safety properties that do not
depend on the instance are proved for all values of the constants (section 5). The saga runs use one booking,
because Payment's steps for different bookings share nothing. `saga_live` has two calls of `pay`, so that one may overwrite
what the other has saved, and no faults, as its liveness properties do not hold once a message is lost; it has no sweep, as what the
cron announces is checked in `booking_live`. `saga_faults` has two requests, so that two cancellations of the same paid booking meet.
The storefront runs use one salon, as no step touches two. Two calls of `create` for one visit race for its review, and for
two visits for the rating; one call of the owner creates the salon and another adds a service while a rating and a
decision are saved, so that up to three handlers hold copies of the document. An emit that throws ends the process, so
it counts as a crash and is bounded with them.
In `aftercare`, two outcomes of one customer give two concurrent runs over one account, with amounts that differ; with a
cancellation among them and Admin's own, two refunds meet one award. In `eventbus`, two messages are what it takes for one tag to mean two things;
the second loss comes on a channel that was already a second one. `MaxAttempts` is 20 in the code: two have a first failure and a last one.
In `client`, three tokens are a login, another and a refresh between them, or two refreshes of one call's session. The days meet at
midnight, the short service has a slot that blocks time of the second day, and the two bookings of others lie on either side; the
start of the second is a slot of the page as well, so that its lock may be met without its row.
Deadlock is checked in the Booking runs (see `Rest`) and switched off elsewhere: those instances stop when all calls are made and all messages handled.

**Fairness.** Weak fairness of the steps of a handler that has started (the event loop runs what is ready), of the
delivery of messages (RabbitMQ), of the cron (every minute), of the passing of deadlines and TTLs (clocks). No
fairness for requests, for calls of `pay`, of the owner or of the admin, for reviewing, for starting a process that has ended, or for any fault. Steps that may fail keep fairness for their successful
form only. Liveness is checked in runs without failing steps, except in `storefront_live` and `aftercare`, whose properties name the messages
whose handler threw, and in `eventbus`, where `HeardIsSettled` speaks of a consumer that is on the channel of the day.

### What the violated runs show

1. `booking_overlap`: the lock key contains the exact start time, so bookings at 9:00 and 9:15 of the same chair
   take different locks. Both transactions then select before either has inserted. The comment "Authoritative conflict check + insert in
   one SQL transaction." (`booking-service/src/bookings/bookings.service.ts:77`) and "double-booking prevention (Redis
   lock + SQL tx)" (`src/README.md:41`) promise more.
2. `saga_cancel`: `cancel` decides on the refund by the payment status it has read. If the payment completes
   meanwhile, `payment.completed` finds a cancelled booking, `slot.freed` with reason `customer_cancelled` means nothing
   to Payment, and the customer has paid for a cancelled booking; `src/README.md:54` speaks of "refunds on
   cancel/dispute".

3. `storefront_sync`: the snapshot of the suspended salon and the one of its creation are applied in the wrong order,
   and the index offers a salon that is suspended. It needs no reordering in Search: a rating handler that has loaded the
   salon before it was suspended announces it as active afterwards. Nothing repairs this until the salon is saved again.
   "kept in sync from `salon.upserted` domain events" (`search-service/src/search/schemas/salon-index.schema.ts:7`).

Three more disagreements were met and have no run of their own. With a *single* start time `NoDoubleBooking` fails as well: `confirm` has
read the pending row, the customer cancels, the lock is released, somebody else books the slot, and `confirm` saves its entity
(`booking-service/src/bookings/bookings.service.ts:141`). And two calls of `pay` that both read the payment as pending may leave a declined
one's FAILED over the other's COMPLETED; `refund` then finds a payment that is not COMPLETED and returns
(`payment-service/src/payments/payments.service.ts:120`), which is why `RefundHonoured` names that case. The comment at `src/docker-compose.yml:84` says that
services re-assert their exchange and queues when RabbitMQ's state is gone: a process that reconnects asserts the exchange only
(`EventBus`, `Connect`); the queues come back when it is started again. In the same way a process that has lost its connection consumes nothing more until it is
started again (`event-bus.service.ts:38`). No property forbids that: `Delivery` promises no progress, and `HeardIsSettled` speaks of a
consumer that is on the channel of the day. `EventBus` has the step, and the silence after it.

## 4. Properties

Safety of Booking: `CreatesExclusive` says what the Redis lock is for, `OnePendingPerSlot` what lock and query achieve
together (also when the lock has expired, or a publish that threw has freed it with the row still there),
`ServedOnlyIfPaid` and `RefundOnlyIfPaid` relate the rows and events to what Payment has said, over stale saves;
`FreedMeansUnlocked` is the order of release and announcement. `HoldSpec` maps a slot's `holder` to the claimant that
has passed the conflict check or stands pending.

`StatusAnnounced` says that without a crash and a lost publish no status stays unannounced.

Safety of the saga: `CompletedIsCharged`, `ConfirmedKeepsPayment` and `RefundsRequested` compare bookings, events and
what the gateway did. (That the *row* of the payment says COMPLETED as long as the booking is confirmed does not hold, see above.)

Safety of the storefront: `OneReviewPerVisit` holds over calls that both found the visit unreviewed and over crashes
between insert and mark; `ServicesKept` and `StatusIsDecided` say that no late save of a stale document takes back a
service or a suspension; `RatingsAreOfReviews` and `CountsAreBacked` follow a count from the reviews to the index.
(That the last rating shown is the current one does not hold: two calls may aggregate in one order and publish in the other.)

Safety of what follows a booking: `NeverOverCredited` compares the account with the ledger and the ledger with the events, over lost
updates, redelivery and races: nobody holds more than all visits ever entered as earned are worth (reversed ones count on, as the save of a
reversal may be lost to another run; that the account *equals* the ledger does not hold); `ToldOnce` bounds what redelivery repeats;
`DashboardHonest` compares the owner's figures with what took place; `IssuedIsAsked` holds over a publish that precedes its save.

Safety of the bus: `NothingDropped` rests on the order in which Nest starts a service; `DeliverySpec` says that tags, channels and
restarts never settle a message that was not handled, nor hand one to two runs.

Safety of the client: `OneAccountPerEmail` over the race of two registrations; `CarriedOutOnce` over shared refreshes and calls that broke on
the way; `StoredTogether` over tabs that sign in and refresh at the same time (a tab may *show* one account and act as another: each tab's store
is its own, and nothing tells it of the storage); `BookedWithinHours`, because `create` does not look at opening hours and only the page keeps them;
`ConflictOnlyIfTakenSince`, because the slots offered and the conflict check of `create` are written twice, in two forms. It excepts bookings of the
next day, which the query of the day does not see and `create` does, and says nothing of a salon that is not active and of a lock that is held.

Liveness: `PendingResolved`, `OutcomeAcknowledged`, `PaymentOffered`, `RefundHonoured`, `VisitsReviewable`, `RatingsShown`, `PointsRecorded`,
`CustomersTold`, `EventsRecorded`, `RateApplied`, `HeardIsSettled`.

## 5. Proofs

For every set of bookings, slots, workers, salons, visits, messages, registrations, tabs, clicks and calls, and every bound:

| Theorem | States | Assumes |
|---|---|---|
| `TypeCorrect` | `Spec => []TypeOK` | the assumptions of `Booking` |
| `FreedIsUnlocked` | `Spec => []FreedMeansUnlocked` | - |
| `EveryStatusAnnounced` | `Spec => []StatusAnnounced` | - |
| `ImplementsHold` | `Spec => HoldSpec` | `"slow" \notin Faults` |
| `LockExcludes` | `Spec => []CreatesExclusive` | `"slow" \notin Faults` |
| `PendingUnique` | `Spec => []OnePendingPerSlot` | `"slow" \notin Faults` |
| `ServedWasPaid` | `Spec => []ServedOnlyIfPaid` | - |
| `RefundedWasPaid` | `Spec => []RefundOnlyIfPaid` | - |
| `PaymentTypeCorrect` | `SagaSpec => []PayTypeOK` | no call of `pay` is named like a reference without a charge (`PayRefsDiffer`) |
| `PaidOnlyIfCharged` | `SagaSpec => []CompletedIsCharged` | the same |
| `RefundsBounded` | `SagaSpec => []RefundsRequested` | the same |
| `PaymentKept` | `SagaSpec => []ConfirmedKeepsPayment` | the same |
| `SagaImplementsBooking` | `SagaSpec => BookingSpec` | the same |
| `StorefrontTyped` | `StorefrontSpec => []StorefrontTypeOK` | stars are 1 to 5 (`VisitsAreOfSalons`) |
| `ReviewedOnce` | `StorefrontSpec => []OneReviewPerVisit` | - |
| `ServicesSurvive` | `StorefrontSpec => []ServicesKept` | every visit is of a salon (`VisitsAreOfSalons`) |
| `RatingsAreReal` | `StorefrontSpec => []RatingsAreOfReviews` | `VisitsAreOfSalons` |
| `CountsAreReal` | `StorefrontSpec => []CountsAreBacked` | `VisitsAreOfSalons` |
| `OnlyAdminDecides` | `StorefrontSpec => StatusIsDecided` | `DecisionsKnown` |
| `IssuedWasAsked` | `AftercareSpec => []IssuedIsAsked` | - |
| `ToldOnceEach` | `AftercareSpec => []ToldOnce` | - |
| `DashboardIsHonest` | `AftercareSpec => []DashboardHonest` | finitely many bookings (`BookingsFinite`), amounts are natural (`AftercareFacts`) |
| `NobodyOverCredited` | `AftercareSpec => []NeverOverCredited` | the same |
| `PublishHasChannel` | `EventBusSpec => []NothingDropped` | - |
| `BusIsQueue` | `EventBusSpec => DeliverySpec` | - |
| `OneAccount` | `ClientSpec => []OneAccountPerEmail` | - |
| `SessionOfOneAccount` | `ClientSpec => []StoredTogether` | - |
| `CallsCarriedOutOnce` | `ClientSpec => []CarriedOutOnce` | - |
| `BooksWithinHours` | `ClientSpec => []BookedWithinHours` | `PageFacts` |
| `OffersMeetNoConflict` | `ClientSpec => []ConflictOnlyIfTakenSince` | `PageFacts` |

Each theorem is in the proof module of its specification (section 2); those about `Spec` are in `BookingProofs` but for `FreedIsUnlocked`,
`EveryStatusAnnounced` and `ImplementsHold`, which are in `SlotProofs`. Besides the assumptions of the table a theorem rests on those of its
module that say that names of different kinds differ (`NamesDiffer`, `PublishersDiffer`, ...): each is an `ASSUME` of the module, which TLC evaluates on every run.

The argument for Booking. `TypeOK` is not inductive: a worker that is past its read must hold a call, and a call that
has an entity, so `TypeInv` adds that `call[w]` is a call whenever `pc[w]` is `loaded`, `saved` or `unlocked`.

`CreatesExclusive` needs that a create in flight *holds* its lock; and a release must not take it away: releases use
the token of their own booking, which has a row, and a create in flight has none. `LockInv` says so, and adds that
after a clean check no row of the same slot is pending. That is kept by every other step, because a pending row
of a slot can only come from an `Insert`, which needs the lock, and a `Save` never writes `pending`. `PendingUnique`
follows from the last part. The assumption is needed: a create that takes longer than its TTL loses the lock to
another, and both can then insert. The deadline of the code's own making, a few minutes for two statements,
justifies it.

`PaidInv` says that every entity in memory that is confirmed, or is about to be, belongs to a booking for which
`payment.completed` is on the bus; the bus only grows.

`FreedMeansUnlocked` holds also when locks expire in mid-create: a booking locks its slot before it has a row, and only a booking
that has a row is worked on or freed. `FreedInv` says so, and that a worker about to announce `slot.freed` has released the lock.

`StatusAnnounced` is inductive once it is sharpened: in the property a create vouches for whatever its row says, in `AnnounceInv` only as long
as the row is pending, and otherwise a worker does that has saved this very status or the event that announced it. Two
workers may hold entities of one row; the later save brings its own announcement with it.

For `HoldSpec`, `LockInv` gives at most one claimant per slot, so that the holder of the mapping is well defined (`LoneClaimant`).
`CheckConflict` that finds nobody is `Take`; no other step makes a claim (`NoOtherClaims`), so it is `GiveUp`, of one slot, of
all that a crash ends, or of none, which is the stutter.

The argument for the saga. `SagaInv` joins `TypeInv` and `PaidInv` of Booking, kept now by the steps of *both* services, to `PayInv`: `PayCallsInv` says
what a call of `pay` may be at each step (one that will announce a payment was charged, or is paid at the salon), `ChargesInv` that
a reference to a charge, in a row or in memory, is to one made for that booking, `RunsInv` that a message has one run and none once it is
acknowledged, `OutcomesInv` that an outcome comes from a call that has ended with it, and `RefundsInv` bounds the money given back:
by the number of requests for each life of the process that has ended, and in this life by those that the gateway has answered (`GivenBack`). A crash forgets
which requests were answered, and pays for it with one more life. `PaymentKept` follows from `PaidInv` and `RefundsInv`: where nobody asked,
nothing is given back.
`SagaImplementsBooking` maps `bus` to the events without `payment.refunded`. A step of Booking is the same step of the instance (`ServiceAsExpected`);
a step of Payment leaves the events that Booking knows alone, or publishes the first outcome of its call about a booking that was announced, which is `PaymentOutcome`.

The argument for the storefront. `OneReviewPerVisit` speaks of the calls that have written a review; that no second one
joins them rests on the unique index alone, so `ReviewInv` says that each of them has its visit among the reviews
(`WritersApart`), where `InsertReview` finds it. That reviews are of completed visits goes back over the eligibility to
the message, and needs that nobody but the booking service announces a completion (`CompletedAreVisits`).
`ServicesKept` compares a snapshot that may be long on its way with the document of now. `RunsBehind` says the
same of the handlers: what a run has loaded, and what it has saved, is still in the document. It is kept because
`Saved` only adds services, whatever the copy lacks. Which salon a run writes to comes from its message, so
`AboutSalons` follows the salons of all messages, those of ratings back to a visit by `ReviewInv`.
`StorefrontTypeOK` has an average to bound, 0 to 50 tenths, over a set of reviews of any size: a sum of stars is between one and five times
the number of reviews (`StarsSum`), whatever `Math.round` then does (`Rounded`). `RatingInv` says of every call past `Aggregate` that the rating it
holds is one of a set of reviews with its own among them, which later reviews do not disturb. `CountInv` follows that count
from the message to the job, the salon, the snapshot and the index: each count anywhere is backed by as many reviews.
For `StatusIsDecided`, `DecisionInv` says that a handler whose copy has another status than what it loaded is a handler of a message
of the admin that is not acknowledged, one per message; as `Saved` writes only what differs, no other save touches the status.

The argument for what follows a booking. `IssuedIsAsked` is made inductive by saying it of the entities that resolutions hold (`AskInv`).
`ToldOnce` bounds all notifications of an event; `TellInv` says that a message *not* acknowledged has left at most one per crash, so that
the next delivery, acknowledged or not, stays within the bound. `DashInv` says that there is one record per booking and kind, true of an
event on the bus. A figure of an owner is then an injection into the owner's bookings, and revenue a sum of amounts renamed along it (`SumsRenamed`,
`SumsMonotone`). For `NeverOverCredited`, ledger and account are written one after the other, and an account read may be stale: the account alone proves nothing.
`LoyaltyInv` bounds the account, and whatever a run has read of it, by what the *settled* visits are worth: those earned in the
ledger without the ones whose run has made its entry and not yet saved the account. An entry adds a visit and unsettles it at
once; the save settles it and adds its points; a crash or an update lost to another run settles it without adding any.

Sums are folds that the community modules define by recursion over a set. The theorems of the library about such recursion take operators
as parameters; `FiniteSums` therefore proves what is needed from the well-foundedness of the natural numbers, applied to
sets of numbers: a sum function exists and is the fold, and is unique, monotone, bounded, and kept by renaming.

The argument for the event bus. An acknowledgement names a tag, and goes over whatever channel `this.channel` is by
then; that it settles its own message has to follow from what tags there are. `BusInv` says it in two cases. While the consumer is
on the channel of the day (`Listening`), the tags of the unacknowledged messages are different, none is above the
number of deliveries, and each run has the tag of its message. When it is not, nothing is unacknowledged at all,
and a late acknowledgement finds no message to settle: this is the part that `Connect_Resubscribes`, the obvious
repair of the lost subscription, breaks. With at most one run per message, also in `BusInv`, the cardinalities of the refinement
mapping are 0 or 1 (`CountsOne`), and each step of the bus is one of `Delivery` or a stutter (`QueueStep`): losing
the connection and ending the process are `GiveBack`, a restart of the broker is `Forget`. `PublishHasChannel`
needs that nothing that publishes exists before the first channel: neither requests nor, without a consumer, runs.

The argument for the client. The look-up of `register` proves nothing; `IdentityInv` says that a row holds its address in lower
case, which is what the unique column compares. `StoredTogether` speaks of the storage, but a refresh writes back what it
read before it waited, so `SessionInv` says the same of every refresh on its way. A call may be sent again after a
401; `CallInv` says that one that was carried out is past its last sending, answered or broken off.
For the page, `PageInv` and `ClickInv` say that what is picked, and what a click sends, is `Available` in the list it was picked
from. `BookedWithinHours` is a part of that, and so is the rest: a row that create meets and that was in the list must lie
outside of the day the list covers, which only a row that starts on a later day does. The arithmetic needs `PageFacts`: durations, days and the grid are
positive, times of opening and closing lie within a day. The refusals for status and lock end a click without a conflict (`EndKeepsClick`).

**Only model-checked**: liveness (`PendingResolved`, `OutcomeAcknowledged`, `PaymentOffered`, `RefundHonoured`, `VisitsReviewable`, `RatingsShown`,
`PointsRecorded`, `CustomersTold`, `EventsRecorded`, `RateApplied`, `HeardIsSettled`), which is outside what the proof system
does: it has no rule for fairness or ENABLED. The three violated properties have their counterexamples. Every other
property that a run checks is stated by a theorem.

## 6. Plan

Done: every module of section 2; a theorem for every safety and action property and for the three refinements.

Next: the invariants that the liveness arguments rest on (what is due is on a queue or in a run), the type invariants of
`Aftercare` as one theorem, and action properties of single rows (which status may follow which).

## 7. Not modelled

* `staff-service`: create, read and update of one row at a time, without events. Its one hazard, two leave requests that read the
  same list (`staff-service/src/staff/staff.service.ts:61`), is plain from the code: a leave is lost. A property would only restate it.
* The pages of the frontend other than the salon's (`BookingsPage`, `OwnerPage`, `AdminPage`, ...): they send one call per button, which are the calls of
  `Session`, and show what a query returns.
* The gateway's rate limit, route table and header rewriting; the common guards and decorators; health checks; request validation:
  they keep no state.
* `src/docker-compose.yml` and `src/infra`: deployment, except what they say of the broker's data.
