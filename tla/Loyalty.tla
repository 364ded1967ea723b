------------------------------- MODULE Loyalty -------------------------------
(***************************************************************************)
(* The loyalty service (loyalty.service.ts): points for completed visits,  *)
(* taken back on refund. Ledger and account are written one after the      *)
(* other. points and lifetimePoints always change by the same amounts and  *)
(* are one number here; the tier, a function of it, is left out.           *)
(***************************************************************************)
EXTENDS Naturals, FiniteSets, FiniteSetsExt, Exchange

CONSTANTS
  Bookings,          \* the bookings points are earned with
  Customers,         \* who books
  CustomerOf,        \* CustomerOf[b]: the customer of booking b
  Amount,            \* Amount[b]: the price of booking b
  LoyaltyFaults,     \* which faults may happen: "crash", "db"
  MaxLoyaltyCrashes, \* bound on the number of crashes
  NoAccount          \* the account of a customer who has none yet

VARIABLES
  ledger,         \* the rows of loyalty_entries: [type, booking]
  account,        \* account[c]: the points of customer c
  lruns,          \* the handler runs in progress, one per delivered message
  credited,       \* the messages acknowledged
  uncredited,     \* the messages whose handler threw
  bus,            \* the exchange, shared with the other services
  loyaltyCrashes  \* how often the service has crashed

loyaltyVars == <<ledger, account, lruns, credited, uncredited, loyaltyCrashes>>

-----------------------------------------------------------------------------
(* Points, ledger and runs.                                                *)

LoyaltyKeys == {"booking.completed", "payment.refunded"}

\* One point for ten units of currency.
Points(b) == Amount[b] \div 10

Entry(type, b) == [type |-> type, booking |-> b]
Earned(b) == Entry("earn", b) \in ledger

\* The entry a message leads to.
EntryOf(e) == Entry(IF e.rk = "booking.completed" THEN "earn" ELSE "reverse", e.booking)

\* What award and reverse make of the points they have read.
Changed(e, points) ==
  IF e.rk = "booking.completed" THEN points + Points(e.booking)
  ELSE IF points > Points(e.booking) THEN points - Points(e.booking) ELSE 0

\* The early returns: what award and reverse find in the ledger.
Due(e) ==
  IF e.rk = "booking.completed" THEN Points(e.booking) > 0 /\ ~Earned(e.booking)
  ELSE Earned(e.booking) /\ EntryOf(e) \notin ledger

Unread(e) ==
  /\ e \in bus \ (credited \cup uncredited)
  /\ e.rk \in LoyaltyKeys
  /\ \A r \in lruns: r.event # e

LoyaltyInit ==
  /\ ledger = {}
  /\ account = [c \in Customers |-> NoAccount]
  /\ lruns = {}
  /\ credited = {}
  /\ uncredited = {}
  /\ loyaltyCrashes = 0

-----------------------------------------------------------------------------
(* award and reverse: look in the ledger, insert the entry, get or create  *)
(* the account, save it.                                                   *)

Look(e) ==
  /\ Unread(e)
  /\ IF Due(e) THEN lruns' = lruns \cup {[event |-> e, step |-> "due", points |-> 0]}
                    /\ UNCHANGED credited
               ELSE credited' = credited \cup {e} /\ UNCHANGED lruns
  /\ UNCHANGED <<ledger, account, uncredited, bus, loyaltyCrashes>>

\* Variation: an entry is not unique per booking and type.
InsertEntry_NotUnique(r) ==
  /\ r.step = "due"
  /\ ledger' = ledger \cup {EntryOf(r.event)}
  /\ lruns' = (lruns \ {r}) \cup {[r EXCEPT !.step = "entered"]}
  /\ UNCHANGED <<account, credited, uncredited, bus, loyaltyCrashes>>

\* The insert, which another run may have forestalled: then it throws.
InsertEntry(r) ==
  /\ r.step = "due"
  /\ IF EntryOf(r.event) \in ledger
       THEN lruns' = lruns \ {r} /\ uncredited' = uncredited \cup {r.event} /\ UNCHANGED ledger
       ELSE /\ ledger' = ledger \cup {EntryOf(r.event)}
            /\ lruns' = (lruns \ {r}) \cup {[r EXCEPT !.step = "entered"]}
            /\ UNCHANGED uncredited
  /\ UNCHANGED <<account, credited, bus, loyaltyCrashes>>

Owner(r) == CustomerOf[r.event.booking]

\* findOne of getOrCreateAccount.
ReadAccount(r) ==
  /\ r.step = "entered"
  /\ lruns' = (lruns \ {r}) \cup
       {IF account[Owner(r)] = NoAccount THEN [r EXCEPT !.step = "missing"]
        ELSE [r EXCEPT !.step = "read", !.points = account[Owner(r)]]}
  /\ UNCHANGED <<ledger, account, credited, uncredited, bus, loyaltyCrashes>>

\* Its insert: the customer's account may exist by now, which throws.
CreateAccount(r) ==
  /\ r.step = "missing"
  /\ IF account[Owner(r)] = NoAccount
       THEN /\ account' = [account EXCEPT ![Owner(r)] = 0]
            /\ lruns' = (lruns \ {r}) \cup {[r EXCEPT !.step = "read"]}
            /\ UNCHANGED uncredited
       ELSE lruns' = lruns \ {r} /\ uncredited' = uncredited \cup {r.event} /\ UNCHANGED account
  /\ UNCHANGED <<ledger, credited, bus, loyaltyCrashes>>

\* The account is saved as it was read and changed, the message acknowledged.
SaveAccount(r) ==
  /\ r.step = "read"
  /\ account' = [account EXCEPT ![Owner(r)] = Changed(r.event, r.points)]
  /\ lruns' = lruns \ {r}
  /\ credited' = credited \cup {r.event}
  /\ UNCHANGED <<ledger, uncredited, bus, loyaltyCrashes>>

\* Variation: a handler that throws is acknowledged like any other.
RunThrows_Acknowledged(r) ==
  /\ "db" \in LoyaltyFaults
  /\ lruns' = lruns \ {r}
  /\ credited' = credited \cup {r.event}
  /\ UNCHANGED <<ledger, account, uncredited, bus, loyaltyCrashes>>

\* Postgres refuses a statement: the handler throws and its message is gone.
RunThrows(r) ==
  /\ "db" \in LoyaltyFaults
  /\ lruns' = lruns \ {r}
  /\ uncredited' = uncredited \cup {r.event}
  /\ UNCHANGED <<ledger, account, credited, bus, loyaltyCrashes>>

\* getMe, a query, creates the account of a customer who has none.
GetMe(c) ==
  /\ account[c] = NoAccount
  /\ account' = [account EXCEPT ![c] = 0]
  /\ UNCHANGED <<ledger, lruns, credited, uncredited, bus, loyaltyCrashes>>

\* The runs end wherever they are, and their messages are delivered again;
\* some may have saved their account and not acknowledged yet.
LoyaltyCrash ==
  /\ "crash" \in LoyaltyFaults
  /\ loyaltyCrashes < MaxLoyaltyCrashes
  /\ loyaltyCrashes' = loyaltyCrashes + 1
  /\ \E S \in SUBSET {r \in lruns: r.step = "read"}:
       account' = [c \in Customers |->
         IF \E r \in S: Owner(r) = c
           THEN LET last == CHOOSE r \in S: Owner(r) = c IN Changed(last.event, last.points)
           ELSE account[c]]
  /\ lruns' = {}
  /\ UNCHANGED <<ledger, credited, uncredited, bus>>

RunOn(r) == InsertEntry(r) \/ ReadAccount(r) \/ CreateAccount(r) \/ SaveAccount(r)

LoyaltyNext ==
  \/ \E e \in bus: Look(e)
  \/ \E r \in lruns: RunOn(r) \/ RunThrows(r)
  \/ \E c \in Customers: GetMe(c)
  \/ LoyaltyCrash

-----------------------------------------------------------------------------
(* Properties.                                                             *)

Thrown(rk, b) == \E e \in uncredited: e.rk = rk /\ e.booking = b

EarnedBy(c) == {b \in Bookings: CustomerOf[b] = c /\ Earned(b)}

\* However messages are repeated, redelivered or raced, nobody is credited
\* more than the visits in the ledger are worth, each counted once, and what
\* stands in the ledger was completed, or refunded after it was earned.
NeverOverCredited ==
  /\ \A c \in Customers: account[c] # NoAccount =>
       account[c] <= MapThenSumSet(Points, EarnedBy(c))
  /\ \A b \in Bookings:
       /\ Earned(b) => PublishedOn(bus, "booking.completed", b)
       /\ Entry("reverse", b) \in ledger => Earned(b) /\ PublishedOn(bus, "payment.refunded", b)

\* A completed visit that is worth points ends up in the ledger unless its
\* handler threw, and so does a refund that comes when the visit is entered.
PointsRecorded ==
  /\ []<>(\A e \in bus: e.rk = "booking.completed" /\ Points(e.booking) > 0 =>
           Earned(e.booking) \/ Thrown("booking.completed", e.booking))
  /\ \A b \in Bookings:
       (\E e \in bus: e.rk = "payment.refunded" /\ e.booking = b /\ Unread(e) /\ Earned(b))
       ~> Entry("reverse", b) \in ledger \/ Thrown("payment.refunded", b)
=============================================================================
