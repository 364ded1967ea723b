-------------------------------- MODULE Saga --------------------------------
(***************************************************************************)
(* The choreographed saga: the booking and the payment service, each with  *)
(* its own database, joined by the exchange only. An outcome that Booking  *)
(* consumes is one that a call of pay has published.                       *)
(***************************************************************************)
EXTENDS Booking

CONSTANTS PayFaults,      \* which faults of the payment service may happen
          MaxPayCrashes   \* bound on how often its process dies

ASSUME PayFaultsKnown == PayFaults \subseteq {"crash", "bus", "db"} /\ MaxPayCrashes \in Nat

\* A gatewayRef of a charge is neither null nor 'pay_at_salon'.
ASSUME PayRefsDiffer == Deliveries \cap {"none", "pay_at_salon"} = {}

VARIABLES pay, ppc, pcall, runs, acked, charged, refunds, payCrashes

\* A call of pay publishes one outcome, so its name also names the delivery.
P == INSTANCE Payment WITH PayCalls <- Deliveries

bookingVars == <<slot, row, lock, creq, pc, call, todo, crashes>>
paymentVars == <<pay, ppc, pcall, runs, acked, charged, refunds, payCrashes>>
sagaVars == <<bookingVars, bus, paymentVars>>

SagaInit == Init /\ P!PayInit

\* The two processes share nothing but the exchange.
SagaNext ==
  \/ ServiceNext /\ UNCHANGED paymentVars
  \/ P!PayNext /\ UNCHANGED bookingVars

SagaSpec == SagaInit /\ [][SagaNext]_sagaVars

SagaFairSpec == SagaSpec /\ Fairness /\ P!PayFairness

-----------------------------------------------------------------------------
(* Properties.                                                             *)

\* The state of the payment service stays in its types.
PayTypeOK == P!PayTypeOK

\* Money goes back only where it was taken, at most once per delivery of a
\* request to refund.
RefundsRequested == P!RefundsRequested

\* No booking is reported as paid on a card that was declined.
CompletedIsCharged == P!CompletedIsCharged

\* The payment service does nothing the booking service does not expect of
\* its environment, so what holds of Booking alone holds of it in the saga:
\* an outcome comes once per call, and only for a booking announced to it.
Expected ==
  INSTANCE Booking WITH bus <- {e \in bus: e.rk # "payment.refunded"}

BookingSpec == Expected!Spec

\* A booking that stands confirmed, and that nobody asked to refund, keeps
\* the payment that confirmed it, whatever raced over either database.
ConfirmedKeepsPayment ==
  \A b \in Bookings:
    row[b].status = "confirmed" /\ ~Published("booking.cancelled", b) =>
      \E e \in bus: e.rk = "payment.completed" /\ e.booking = b /\ refunds[e.by] = 0

\* Every booking announced gets a payment to be paid.
PaymentOffered ==
  \A b \in Bookings: Published("booking.pending", b) ~> pay[b].state # "none"

\* A refund asked for is given and announced, unless a second call of pay was
\* declined and has written its failure over the payment.
RefundHonoured ==
  \A b \in Bookings: Published("booking.cancelled", b) ~>
    Published("payment.refunded", b) \/ Published("payment.failed", b)

\* All calls are answered, all messages acknowledged, all sweeps over.
Settled ==
  /\ \A w \in Workers: pc[w] \in {"idle", "done"}
  /\ \A p \in Deliveries: ppc[p] \in {"idle", "done"}
  /\ runs = {}
  /\ \A e \in bus: /\ e.rk \in PaymentKeys => pc[e.by] = "done"
                   /\ P!Handler(e) # "none" => e \in acked

\* The saga as README.md describes it, "refunds on cancel": once everything
\* has settled, a booking its customer has cancelled has cost them nothing.
CancelledIsRefunded ==
  Settled => \A e \in bus: e.rk = "slot.freed" /\ e.reason = "customer_cancelled" =>
    \A p \in P!Charges(e.booking): refunds[p] > 0
=============================================================================
