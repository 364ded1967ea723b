------------------------------- MODULE Payment -------------------------------
(***************************************************************************)
(* The payment service (payments.service.ts) and the mock gateway it       *)
(* charges (mock-gateway.ts). Handlers are cut at their awaits as in       *)
(* Booking. Amounts and commissions are left out: one booking, one amount. *)
(***************************************************************************)
EXTENDS Naturals, FiniteSets, Exchange

CONSTANTS
  Bookings,       \* the bookings payments are made for
  PayCalls,       \* HTTP calls of pay, each made once
  PayFaults,      \* which faults may happen: "crash", "bus", "db"
  MaxPayCrashes   \* bound on how often the process dies

VARIABLES
  pay,         \* pay[b]: the row of table payments for booking b
  ppc,         \* ppc[p]: where call p of pay stands
  pcall,       \* pcall[p]: method, booking and entity of call p
  runs,        \* the handler runs in progress, one per delivered message
  acked,       \* the messages acknowledged
  charged,     \* the calls of pay for which the gateway took money
  refunds,     \* refunds[p]: how often the gateway gave that money back
  bus,         \* the exchange, shared with the booking service
  payCrashes   \* how often the process has died

payVars == <<pay, ppc, pcall, runs, acked, charged, refunds, payCrashes>>

-----------------------------------------------------------------------------
(* Rows, calls and handler runs.                                           *)

States == {"pending", "completed", "failed", "refunded"}

\* ref is the gatewayRef: the charge of a call of pay, or 'pay_at_salon'.
PayRows == [state: States \cup {"none"}, ref: PayCalls \cup {"none", "pay_at_salon"}]
NoPayment == [state |-> "none", ref |-> "none"]

Methods == {"online", "pay_at_salon"}
PayCallTypes == [method: Methods, booking: Bookings, entity: PayRows]
NoPayCall == [method |-> "none"]

PaymentRouting == {"payment.completed", "payment.failed", "payment.refunded"}

\* Variation: whatever frees a slot is refunded.
Handler_FreedRefunds(e) ==
  IF e.rk = "booking.pending" THEN "onBookingPending"
  ELSE IF e.rk = "booking.cancelled" THEN "refund"
  ELSE IF e.rk = "slot.freed"
         THEN IF e.reason = "payment_timeout" THEN "failPending" ELSE "refund"
  ELSE "none"

\* What the service makes of a message: which handler runs, if any.
Handler(e) ==
  IF e.rk = "booking.pending" THEN "onBookingPending"
  ELSE IF e.rk = "booking.cancelled" THEN "refund"
  ELSE IF e.rk = "slot.freed" /\ e.reason = "payment_timeout" THEN "failPending"
  ELSE "none"

\* Variation: a booking's payment is only created when it exists.
Needed_Inverted(h, state) ==
  \/ h = "onBookingPending" /\ state # "none"
  \/ h = "refund" /\ state = "completed"
  \/ h = "failPending" /\ state = "pending"

\* Variation: only a pending payment is refunded.
Needed_RefundPending(h, state) ==
  \/ h = "onBookingPending" /\ state = "none"
  \/ h = "refund" /\ state = "pending"
  \/ h = "failPending" /\ state = "pending"

\* Whether the handler goes on after it has read the payment.
Needed(h, state) ==
  \/ h = "onBookingPending" /\ state = "none"
  \/ h = "refund" /\ state = "completed"
  \/ h = "failPending" /\ state = "pending"

\* What the handler saves.
Outcome(h, entity) ==
  [entity EXCEPT !.state = CASE h = "onBookingPending" -> "pending"
                             [] h = "refund"           -> "refunded"
                             [] h = "failPending"      -> "failed"]

PayInit ==
  /\ pay = [b \in Bookings |-> NoPayment]
  /\ ppc = [p \in PayCalls |-> "idle"]
  /\ pcall = [p \in PayCalls |-> NoPayCall]
  /\ runs = {}
  /\ acked = {}
  /\ charged = {}
  /\ refunds = [p \in PayCalls |-> 0]
  /\ payCrashes = 0

-----------------------------------------------------------------------------
(* pay: read, charge (or not, at the salon), save, publish the outcome.    *)

PayRead(p) ==
  /\ ppc[p] = "idle"
  /\ \E b \in Bookings, m \in Methods:
       /\ pay[b].state # "none"
       /\ IF pay[b].state = "pending"
            THEN /\ ppc' = [ppc EXCEPT ![p] = "loaded"]
                 /\ pcall' = [pcall EXCEPT ![p] =
                      [method |-> m, booking |-> b, entity |-> pay[b]]]
            ELSE ppc' = [ppc EXCEPT ![p] = "done"] /\ UNCHANGED pcall
  /\ UNCHANGED <<pay, runs, acked, charged, refunds, bus, payCrashes>>

\* gateway.charge: the card is charged or declined.
Charge(p) ==
  /\ ppc[p] = "loaded"
  /\ pcall[p].method = "online"
  /\ \/ charged' = charged \cup {p} /\ ppc' = [ppc EXCEPT ![p] = "charged"]
     \/ UNCHANGED charged /\ ppc' = [ppc EXCEPT ![p] = "declined"]
  /\ UNCHANGED <<pay, pcall, runs, acked, refunds, bus, payCrashes>>

\* The three places where pay saves: at the salon, charged and declined.
ReadyToSave(p) ==
  \/ ppc[p] = "loaded" /\ pcall[p].method = "pay_at_salon"
  \/ ppc[p] \in {"charged", "declined"}

Result(p) ==
  IF ppc[p] = "declined" THEN [pcall[p].entity EXCEPT !.state = "failed"]
  ELSE [state |-> "completed", ref |-> IF ppc[p] = "charged" THEN p ELSE "pay_at_salon"]

PaySave(p) ==
  /\ ReadyToSave(p)
  /\ pay' = [pay EXCEPT ![pcall[p].booking] = Result(p)]
  /\ ppc' = [ppc EXCEPT ![p] = IF ppc[p] = "declined" THEN "saved_failed" ELSE "saved"]
  /\ UNCHANGED <<pcall, runs, acked, charged, refunds, bus, payCrashes>>

\* Variation: a declined card is announced like a charged one.
PayPublish_AlwaysCompleted(p) ==
  /\ ppc[p] \in {"saved", "saved_failed"}
  /\ bus' = bus \cup {Event("payment.completed", pcall[p].booking, p, "-")}
  /\ ppc' = [ppc EXCEPT ![p] = "done"]
  /\ UNCHANGED <<pay, pcall, runs, acked, charged, refunds, payCrashes>>

\* The outcome goes out only after the payment is saved.
PayPublish(p) ==
  /\ ppc[p] \in {"saved", "saved_failed"}
  /\ bus' = bus \cup {Event(IF ppc[p] = "saved" THEN "payment.completed" ELSE "payment.failed",
                            pcall[p].booking, p, "-")}
  /\ ppc' = [ppc EXCEPT ![p] = "done"]
  /\ UNCHANGED <<pay, pcall, runs, acked, charged, refunds, payCrashes>>

\* The save or the publish throws and the call is answered 500.
PayThrows(p) ==
  /\ \/ "db" \in PayFaults /\ ReadyToSave(p)
     \/ "bus" \in PayFaults /\ ppc[p] \in {"saved", "saved_failed"}
  /\ ppc' = [ppc EXCEPT ![p] = "done"]
  /\ UNCHANGED <<pay, pcall, runs, acked, charged, refunds, bus, payCrashes>>

Pay(p) == PayRead(p) \/ Charge(p) \/ PaySave(p) \/ PayPublish(p) \/ PayThrows(p)

-----------------------------------------------------------------------------
(* The consumers: read, refund at the gateway, save, publish, acknowledge. *)

Pending(e) == e \in bus \ acked /\ \A r \in runs: r.event # e

\* A message arrives: findOne and the early returns.
Take(e) ==
  /\ Pending(e)
  /\ e.rk \in {"booking.pending", "booking.cancelled", "slot.freed"}
  /\ IF Needed(Handler(e), pay[e.booking].state)
       THEN /\ runs' = runs \cup {[event |-> e, step |-> "loaded", entity |-> pay[e.booking]]}
            /\ UNCHANGED acked
       ELSE acked' = acked \cup {e} /\ UNCHANGED runs
  /\ UNCHANGED <<pay, ppc, pcall, charged, refunds, bus, payCrashes>>

Advance(r, step) == runs' = (runs \ {r}) \cup {[r EXCEPT !.step = step]}

\* gateway.refund, unless the customer was to pay at the salon.
RefundCharge(r) ==
  /\ r.step = "loaded"
  /\ Handler(r.event) = "refund"
  /\ refunds' = IF r.entity.ref \in PayCalls
                  THEN [refunds EXCEPT ![r.entity.ref] = @ + 1] ELSE refunds
  /\ Advance(r, "given_back")
  /\ UNCHANGED <<pay, ppc, pcall, acked, charged, bus, payCrashes>>

RunReady(r) == r.step = IF Handler(r.event) = "refund" THEN "given_back" ELSE "loaded"

\* save: an insert for a new payment, which the unique bookingId allows once.
SaveRun(r) ==
  /\ RunReady(r)
  /\ pay' = [pay EXCEPT ![r.event.booking] = Outcome(Handler(r.event), r.entity)]
  /\ Advance(r, "saved")
  /\ UNCHANGED <<ppc, pcall, acked, charged, refunds, bus, payCrashes>>

\* Variation: failPending announces the failure as pay does.
Finish_AnnouncesFailure(r) ==
  /\ r.step = "saved"
  /\ bus' = CASE Handler(r.event) = "refund" ->
                bus \cup {Event("payment.refunded", r.event.booking, r.event.by, "-")}
             [] Handler(r.event) = "failPending" ->
                bus \cup {Event("payment.failed", r.event.booking, r.event.by, "-")}
             [] OTHER -> bus
  /\ runs' = runs \ {r}
  /\ acked' = acked \cup {r.event}
  /\ UNCHANGED <<pay, ppc, pcall, charged, refunds, payCrashes>>

\* The handler returns and its message is acknowledged.
Finish(r) ==
  /\ r.step = "saved"
  /\ bus' = IF Handler(r.event) = "refund"
              THEN bus \cup {Event("payment.refunded", r.event.booking, r.event.by, "-")} ELSE bus
  /\ runs' = runs \ {r}
  /\ acked' = acked \cup {r.event}
  /\ UNCHANGED <<pay, ppc, pcall, charged, refunds, payCrashes>>

\* The process dies: calls are lost, messages are delivered again.
PayDie ==
  /\ payCrashes < MaxPayCrashes
  /\ payCrashes' = payCrashes + 1
  /\ ppc' = [p \in PayCalls |-> IF ppc[p] = "idle" THEN "idle" ELSE "done"]
  /\ runs' = {}

\* The save throws: the message is dead-lettered (nack, no requeue).
RunFails(r) ==
  /\ "db" \in PayFaults
  /\ RunReady(r)
  /\ runs' = runs \ {r}
  /\ acked' = acked \cup {r.event}
  /\ UNCHANGED <<pay, ppc, pcall, charged, refunds, bus, payCrashes>>

\* The channel is closed: the publish throws, and so does the nack of the
\* catch block, a rejection nobody handles, and Node ends the process.
RunThrows(r) ==
  /\ "bus" \in PayFaults
  /\ r.step = "saved"
  /\ Handler(r.event) = "refund"
  /\ PayDie
  /\ UNCHANGED <<pay, pcall, acked, charged, refunds, bus>>

PayCrash ==
  /\ "crash" \in PayFaults
  /\ PayDie
  /\ UNCHANGED <<pay, pcall, acked, charged, refunds, bus>>

PayNext ==
  \/ \E p \in PayCalls: Pay(p)
  \/ \E e \in bus: Take(e)
  \/ \E r \in runs: RefundCharge(r) \/ SaveRun(r) \/ Finish(r) \/ RunFails(r) \/ RunThrows(r)
  \/ PayCrash

\* Runs and calls go on and messages are delivered; nobody has to pay.
PayFairness ==
  /\ \A p \in PayCalls: WF_<<payVars, bus>>(Charge(p) \/ PaySave(p) \/ PayPublish(p))
  /\ WF_<<payVars, bus>>(\E e \in bus: Take(e))
  /\ WF_<<payVars, bus>>(\E r \in runs: RefundCharge(r) \/ SaveRun(r) \/ Finish(r))

-----------------------------------------------------------------------------
(* Properties.                                                             *)

\* The state stays in its types: a payment row holds values of its enums and
\* a reference some charge has produced, a run an event it consumes.
PayTypeOK ==
  /\ pay \in [Bookings -> PayRows]
  /\ ppc \in [PayCalls -> {"idle", "loaded", "charged", "declined", "saved", "saved_failed", "done"}]
  /\ pcall \in [PayCalls -> PayCallTypes \cup {NoPayCall}]
  /\ runs \subseteq [event: bus, step: {"loaded", "given_back", "saved"}, entity: PayRows]
  /\ acked \subseteq bus
  /\ charged \subseteq PayCalls
  /\ refunds \in [PayCalls -> Nat]
  /\ payCrashes \in 0..MaxPayCrashes

Charges(b) == {p \in charged: pcall[p].booking = b}

RefundRequests(b) == {e \in bus: e.rk = "booking.cancelled" /\ e.booking = b}

\* Money goes back only where it was taken, and at most once per delivery of
\* a request to refund: only the death of the process delivers one again.
RefundsRequested ==
  \A p \in PayCalls: refunds[p] > 0 =>
    /\ p \in charged
    /\ refunds[p] <= (1 + payCrashes) * Cardinality(RefundRequests(pcall[p].booking))

\* payment.completed is published by a call whose charge went through, or
\* that has none to make: the booking is never confirmed on a declined card.
CompletedIsCharged ==
  \A e \in bus: e.rk = "payment.completed" =>
    e.by \in charged \/ pcall[e.by].method = "pay_at_salon"
=============================================================================
