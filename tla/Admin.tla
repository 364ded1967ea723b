-------------------------------- MODULE Admin --------------------------------
(***************************************************************************)
(* The admin service (admin.service.ts): disputes over bookings and the    *)
(* commission of the platform, with what Payment makes of a new rate       *)
(* (payments.service.ts). Reasons and resolutions are left out; the        *)
(* decision on a salon, which only publishes, is in Storefront.            *)
(***************************************************************************)
EXTENDS Naturals, Sequences, Exchange

CONSTANTS
  Bookings,        \* the bookings disputes are about
  Disputes,        \* the disputes that may be filed
  DisputeOf,       \* DisputeOf[d]: the booking dispute d is about
  Verdicts,        \* the statuses a resolution may set
  Resolutions,     \* calls of resolveDispute, each made once
  RateCalls,       \* calls of setCommission, each with a rate of its own
  Sent,            \* Sent[k]: the pct of call k is a "number", "text" or "missing"
  AdminFaults,     \* which faults may happen: "crash", "bus", "db"
  MaxAdminCrashes, \* bound on the number of crashes, of either service
  DefaultRate      \* PLATFORM_COMMISSION_PCT, the rate nobody has set

VARIABLES
  dispute,    \* dispute[d]: the row of table disputes
  resolution, \* resolution[r]: where call r stands and the entity it holds
  rateCall,   \* rateCall[k]: where call k of setCommission stands
  config,     \* the rates commission_config has held, the last one now
  rates,      \* the queue payment.commission, in order: [pct, type]
  rate,       \* commissionPct, in the memory of the payment service
  bus,        \* the exchange, shared with the other services
  adminCrashes

adminVars == <<dispute, resolution, rateCall, config, rates, rate, adminCrashes>>

-----------------------------------------------------------------------------

NoDispute == [status |-> "none", refundIssued |-> FALSE]

\* booking.cancelled as Admin publishes it: the booking, and no names.
RefundEvent(d, r) == Event("booking.cancelled", DisputeOf[d], r, "-")

AdminInit ==
  /\ dispute = [d \in Disputes |-> NoDispute]
  /\ resolution = [r \in Resolutions |-> [step |-> "idle"]]
  /\ rateCall = [k \in RateCalls |-> "idle"]
  /\ config = <<DefaultRate>>
  /\ rates = <<>>
  /\ rate = DefaultRate
  /\ adminCrashes = 0

-----------------------------------------------------------------------------
(* Disputes.                                                               *)

FileDispute(d) ==
  /\ dispute[d].status = "none"
  /\ dispute' = [dispute EXCEPT ![d].status = "open"]
  /\ UNCHANGED <<resolution, rateCall, config, rates, rate, bus, adminCrashes>>

\* findOne, the assignments and, for a refund not yet issued, the publish.
Resolve(r) ==
  /\ resolution[r].step = "idle"
  /\ \E d \in Disputes, s \in Verdicts, refund \in BOOLEAN:
       LET issues == refund /\ ~dispute[d].refundIssued
       IN /\ dispute[d].status # "none"
          /\ resolution' = [resolution EXCEPT ![r] =
               [step |-> "assigned", dispute |-> d,
                entity |-> [status |-> s, refundIssued |-> dispute[d].refundIssued \/ issues]]]
          /\ bus' = IF issues THEN bus \cup {RefundEvent(d, r)} ELSE bus
  /\ UNCHANGED <<dispute, rateCall, config, rates, rate, adminCrashes>>

\* Variation: a publish that fails is logged, and the dispute saved.
ResolveThrows_Logged(r) ==
  /\ "bus" \in AdminFaults
  /\ resolution[r].step = "idle"
  /\ \E d \in Disputes:
       /\ dispute[d].status # "none" /\ ~dispute[d].refundIssued
       /\ resolution' = [resolution EXCEPT ![r] =
            [step |-> "assigned", dispute |-> d,
             entity |-> [status |-> "resolved", refundIssued |-> TRUE]]]
  /\ UNCHANGED <<dispute, rateCall, config, rates, rate, bus, adminCrashes>>

\* The publish throws: the call is answered 500 and has changed nothing.
ResolveThrows(r) ==
  /\ "bus" \in AdminFaults
  /\ resolution[r].step = "idle"
  /\ \E d \in Disputes: dispute[d].status # "none" /\ ~dispute[d].refundIssued
  /\ resolution' = [resolution EXCEPT ![r].step = "done"]
  /\ UNCHANGED <<dispute, rateCall, config, rates, rate, bus, adminCrashes>>

\* The entity is saved as it was read and changed.
SaveDispute(r) ==
  /\ resolution[r].step = "assigned"
  /\ dispute' = [dispute EXCEPT ![resolution[r].dispute] = resolution[r].entity]
  /\ resolution' = [resolution EXCEPT ![r].step = "done"]
  /\ UNCHANGED <<rateCall, config, rates, rate, bus, adminCrashes>>

SaveDisputeFails(r) ==
  /\ "db" \in AdminFaults
  /\ resolution[r].step = "assigned"
  /\ resolution' = [resolution EXCEPT ![r].step = "done"]
  /\ UNCHANGED <<dispute, rateCall, config, rates, rate, bus, adminCrashes>>

-----------------------------------------------------------------------------
(* The commission: saved, announced, and applied in Payment's memory.      *)

\* findOne and save of setCommission: the rate set depends on none read. Nobody
\* looks at the body; what is not in it is not saved.
SaveCommission(k) ==
  /\ rateCall[k] = "idle"
  /\ config' = IF Sent[k] = "missing" THEN config ELSE Append(config, k)
  /\ rateCall' = [rateCall EXCEPT ![k] = "saved"]
  /\ UNCHANGED <<dispute, resolution, rates, rate, bus, adminCrashes>>

\* Variation: the rate is announced as the table gives it, a numeric as text.
AnnounceCommission_ReadBack(k) ==
  /\ rateCall[k] = "saved"
  /\ rates' = Append(rates, [pct |-> k, type |-> "text"])
  /\ rateCall' = [rateCall EXCEPT ![k] = "done"]
  /\ UNCHANGED <<dispute, resolution, config, rate, bus, adminCrashes>>

AnnounceCommission(k) ==
  /\ rateCall[k] = "saved"
  /\ rates' = Append(rates, [pct |-> k, type |-> Sent[k]])
  /\ rateCall' = [rateCall EXCEPT ![k] = "done"]
  /\ UNCHANGED <<dispute, resolution, config, rate, bus, adminCrashes>>

\* Postgres refuses the save, or the channel is closed when it publishes.
CommissionFails(k) ==
  /\ \/ "db" \in AdminFaults /\ rateCall[k] = "idle"
     \/ "bus" \in AdminFaults /\ rateCall[k] = "saved"
  /\ rateCall' = [rateCall EXCEPT ![k] = "done"]
  /\ UNCHANGED <<dispute, resolution, config, rates, rate, bus, adminCrashes>>

\* One consumer, whose handler has no await: rates are applied in order. What is
\* not a number is acknowledged and changes nothing.
ApplyCommission ==
  /\ rates # <<>>
  /\ rate' = IF Head(rates).type = "number" THEN Head(rates).pct ELSE rate
  /\ rates' = Tail(rates)
  /\ UNCHANGED <<dispute, resolution, rateCall, config, bus, adminCrashes>>

\* The payment service starts again, with the rate of its environment.
PaymentRestarts ==
  /\ "crash" \in AdminFaults
  /\ adminCrashes < MaxAdminCrashes
  /\ adminCrashes' = adminCrashes + 1
  /\ rate' = DefaultRate
  /\ UNCHANGED <<dispute, resolution, rateCall, config, rates, bus>>

\* The admin service starts again: calls are lost, the rows are there.
AdminCrash ==
  /\ "crash" \in AdminFaults
  /\ adminCrashes < MaxAdminCrashes
  /\ adminCrashes' = adminCrashes + 1
  /\ resolution' = [r \in Resolutions |-> IF resolution[r].step = "assigned"
                      THEN [step |-> "done"] ELSE resolution[r]]
  /\ rateCall' = [k \in RateCalls |-> IF rateCall[k] = "saved" THEN "done" ELSE rateCall[k]]
  /\ UNCHANGED <<dispute, config, rates, rate, bus>>

AdminNext ==
  \/ \E d \in Disputes: FileDispute(d)
  \/ \E r \in Resolutions: Resolve(r) \/ ResolveThrows(r) \/ SaveDispute(r) \/ SaveDisputeFails(r)
  \/ \E k \in RateCalls: SaveCommission(k) \/ AnnounceCommission(k) \/ CommissionFails(k)
  \/ ApplyCommission \/ PaymentRestarts \/ AdminCrash

-----------------------------------------------------------------------------
(* Properties.                                                             *)

\* A dispute whose row says that the refund was issued has had it asked for,
\* whichever of publish and save failed, and whichever stale row was saved.
IssuedIsAsked ==
  \A d \in Disputes: dispute[d].refundIssued =>
    \E r \in Resolutions: RefundEvent(d, r) \in bus

InForce(k) == rate = k /\ \E i \in DOMAIN config: config[i] = k

\* A rate set as a number and announced is in force some time, whatever was
\* announced before it and also if Payment starts again; and Payment never
\* reckons with a rate that Admin has not saved, or that is not a number.
RateApplied ==
  /\ \A k \in RateCalls: Sent[k] = "number" =>
       ((\E i \in DOMAIN rates: rates[i].pct = k) ~> InForce(k))
  /\ [](rate = DefaultRate \/ \E k \in RateCalls: Sent[k] = "number" /\ InForce(k))
=============================================================================
