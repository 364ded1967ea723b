------------------------------ MODULE Aftercare ------------------------------
(***************************************************************************)
(* What follows a booking: points, notifications, the owner's dashboard    *)
(* and disputes. The four services read the same events and otherwise      *)
(* touch nothing in common; what Booking and Payment announce comes from   *)
(* outside, with the repetitions that Booking and Payment are known for.   *)
(***************************************************************************)
EXTENDS Naturals, FiniteSets, Exchange

CONSTANTS
  Bookings, Customers, Owners, CustomerOf, OwnerOf, Amount,
  Handlers,    \* handler runs of Booking, each of which announces an outcome
  Disputes, DisputeOf, Verdicts, Resolutions, RateCalls, Sent, DefaultRate, NoAccount,
  Watched,     \* the services a behaviour looks at, one of these: see AftercareInit
  Askers,      \* the resolutions that may come while another service is looked at
  LoyaltyFaults, NotificationFaults, ReportingFaults, AdminFaults,
  MaxLoyaltyCrashes, MaxNotificationCrashes, MaxReportingCrashes, MaxAdminCrashes

ASSUME AftercareFacts ==
  /\ CustomerOf \in [Bookings -> Customers] /\ OwnerOf \in [Bookings -> Owners]
  /\ Amount \in [Bookings -> Nat] /\ DisputeOf \in [Disputes -> Bookings]
  /\ Sent \in [RateCalls -> {"number", "text", "missing"}]

\* Sums over the bookings and their number are figures of the dashboard.
ASSUME BookingsFinite == IsFiniteSet(Bookings)

ASSUME AftercareNamesDiffer ==
  /\ Handlers \cap (Resolutions \cup Bookings) = {}
  /\ Resolutions \cap Bookings = {}
  /\ "none" \notin Owners /\ NoAccount \notin Nat /\ DefaultRate \notin RateCalls

ASSUME AftercareFaultsKnown ==
  /\ LoyaltyFaults \cup NotificationFaults \cup ReportingFaults \subseteq {"crash", "db"}
  /\ AdminFaults \subseteq {"crash", "bus", "db"}
  /\ MaxLoyaltyCrashes \in Nat /\ MaxNotificationCrashes \in Nat
  /\ MaxReportingCrashes \in Nat /\ MaxAdminCrashes \in Nat
  /\ Watched \subseteq {"loyalty", "notification", "reporting", "admin"}
  /\ Askers \subseteq Resolutions

VARIABLES
  ledger, account, lruns, credited, uncredited, loyaltyCrashes,
  inbox, told, untold, notificationCrashes,
  records, looked, recorded, unrecorded, reportingCrashes,
  dispute, resolution, rateCall, config, rates, rate, adminCrashes,
  watched,   \* the service this behaviour looks at
  bus

Nameless == Resolutions

L == INSTANCE Loyalty
N == INSTANCE Notification
R == INSTANCE Reporting
A == INSTANCE Admin

loyaltyVars == <<ledger, account, lruns, credited, uncredited, loyaltyCrashes>>
notificationVars == <<inbox, told, untold, notificationCrashes>>
reportingVars == <<records, looked, recorded, unrecorded, reportingCrashes>>
adminVars == <<dispute, resolution, rateCall, config, rates, rate, adminCrashes>>
aftercareVars == <<loyaltyVars, notificationVars, reportingVars, adminVars, watched, bus>>

\* The bookings are paid when a behaviour starts. As the services share only
\* what they read, each behaviour looks at one of them, the others being slow:
\* their messages wait. The commission concerns none of them.
AftercareInit ==
  /\ L!LoyaltyInit /\ N!NotificationInit /\ R!ReportingInit /\ A!AdminInit
  /\ watched \in Watched
  /\ bus = {}

-----------------------------------------------------------------------------
(* Booking and Payment.                                                    *)

\* Handlers that race have all found the booking in a status that permits what
\* they do, so each of them announces its own outcome, in any order; a create
\* announces its booking once. (No listener tells a slot freed by a failed
\* payment from one freed by a cancellation.)
Outcomes(w, b) ==
  {{Event("booking.pending", b, w, "-")},
   {Event("booking.confirmed", b, w, "-")},
   {Event("booking.completed", b, w, "-")},
   {Event("booking.no_show", b, w, "-")},
   {Event("slot.freed", b, w, "customer_cancelled"), Event("booking.cancelled", b, w, "-")},
   {Event("slot.freed", b, w, "payment_timeout")}}

BookingAnnounces(w) ==
  /\ \A e \in bus: e.by # w
  /\ \E b \in Bookings: \E E \in Outcomes(w, b):
       /\ \A e \in E: e.rk = "booking.pending" => ~PublishedOn(bus, e.rk, b)
       /\ bus' = bus \cup E

\* Payment gives the money back, once for each time it was asked to.
PaymentRefunds ==
  \E e \in bus: /\ e.rk = "booking.cancelled"
                /\ Event("payment.refunded", e.booking, e.by, "-") \notin bus
                /\ bus' = bus \cup {Event("payment.refunded", e.booking, e.by, "-")}

AftercareNext ==
  \/ /\ watched # "admin"
     /\ (\E w \in Handlers: BookingAnnounces(w)) \/ PaymentRefunds
     /\ UNCHANGED <<loyaltyVars, notificationVars, reportingVars, adminVars, watched>>
  \/ /\ watched # "admin"
     /\ (\E d \in Disputes: A!FileDispute(d)) \/ (\E r \in Askers: A!Resolve(r) \/ A!SaveDispute(r))
     /\ UNCHANGED <<loyaltyVars, notificationVars, reportingVars, watched>>
  \/ /\ watched = "admin" /\ A!AdminNext
     /\ UNCHANGED <<loyaltyVars, notificationVars, reportingVars, watched>>
  \/ /\ watched = "loyalty" /\ L!LoyaltyNext
     /\ UNCHANGED <<notificationVars, reportingVars, adminVars, watched>>
  \/ /\ watched = "notification" /\ N!NotificationNext
     /\ UNCHANGED <<loyaltyVars, reportingVars, adminVars, watched>>
  \/ /\ watched = "reporting" /\ R!ReportingNext
     /\ UNCHANGED <<loyaltyVars, notificationVars, adminVars, watched>>

\* The service looked at gets its messages, and its handlers go on; the others
\* may be slow for ever. Nobody has to look at an account or settle a dispute.
AftercareFairness ==
  /\ WF_<<loyaltyVars, bus>>(watched = "loyalty" /\ \E e \in bus: L!Look(e))
  /\ WF_<<loyaltyVars, bus>>(watched = "loyalty" /\ \E r \in lruns: L!RunOn(r))
  /\ WF_<<notificationVars, bus>>(watched = "notification" /\ \E e \in bus: N!Settle(e))
  /\ WF_<<reportingVars, bus>>(watched = "reporting" /\ \E e \in bus: R!Look(e))
  /\ WF_<<reportingVars, bus>>(watched = "reporting" /\ \E e \in looked: R!SaveRecord(e))
  /\ WF_<<adminVars, bus>>(watched = "admin" /\ A!ApplyCommission)

AftercareSpec ==
  AftercareInit /\ [][AftercareNext]_aftercareVars /\ AftercareFairness

-----------------------------------------------------------------------------
(* Properties.                                                             *)

\* What the services promise, each over the events of the others (see there):
\* no customer holds more points than the visits in the ledger are worth;
NeverOverCredited == L!NeverOverCredited
\* a customer is told of an event once, or once more after a crash;
ToldOnce == N!ToldOnce
\* the dashboard counts a booking once;
DashboardHonest == R!DashboardHonest
\* and a refund marked as issued has been asked for.
IssuedIsAsked == A!IssuedIsAsked

\* Points of a service that gets its messages are entered in the ledger,
PointsRecorded == watched = "loyalty" => L!PointsRecorded
\* its customers are told,
CustomersTold == watched = "notification" => N!CustomersTold
\* its events recorded,
EventsRecorded == watched = "reporting" => R!EventsRecorded
\* and its rates applied.
RateApplied == watched = "admin" => A!RateApplied
=============================================================================
