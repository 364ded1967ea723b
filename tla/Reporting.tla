------------------------------ MODULE Reporting ------------------------------
(***************************************************************************)
(* The reporting service (reporting.service.ts): one record per booking    *)
(* and kind of event, and the owner's dashboard computed from them. The    *)
(* curve of the last days and the list of services are left out.           *)
(***************************************************************************)
EXTENDS Naturals, FiniteSets, FiniteSetsExt, Exchange

CONSTANTS
  Bookings,            \* the bookings reported on
  Owners,              \* owners of salons
  OwnerOf,             \* OwnerOf[b]: the owner of the salon of booking b
  Amount,              \* Amount[b]: the price of booking b
  ReportingFaults,     \* which faults may happen: "crash", "db"
  MaxReportingCrashes, \* bound on the number of crashes
  Nameless             \* the publishers whose events name nobody

VARIABLES
  records,    \* the rows of event_records: [type, booking, by, owner, amount]
  looked,     \* the messages whose handler has found no record yet
  recorded,   \* the messages acknowledged
  unrecorded, \* the messages whose handler threw
  bus,        \* the exchange, shared with the other services
  reportingCrashes  \* how often the service has crashed

reportingVars == <<records, looked, recorded, unrecorded, reportingCrashes>>

-----------------------------------------------------------------------------

TRACKED == {"booking.pending", "booking.confirmed", "booking.completed",
            "booking.cancelled", "booking.no_show"}

Untracked(e) == e \in bus \ (looked \cup recorded \cup unrecorded) /\ e.rk \in TRACKED

Recorded(e) == \E r \in records: r.type = e.rk /\ r.booking = e.booking

\* What a record says of its event; Admin's own events carry the booking only.
Record(e) ==
  [type |-> e.rk, booking |-> e.booking, by |-> e.by,
   owner |-> IF e.by \in Nameless THEN "none" ELSE OwnerOf[e.booking],
   amount |-> IF e.by \in Nameless THEN 0 ELSE Amount[e.booking]]

ReportingInit ==
  /\ records = {}
  /\ looked = {}
  /\ recorded = {}
  /\ unrecorded = {}
  /\ reportingCrashes = 0

\* findOne: a message that repeats what is recorded is acknowledged.
Look(e) ==
  /\ Untracked(e)
  /\ IF Recorded(e) THEN recorded' = recorded \cup {e} /\ UNCHANGED looked
                    ELSE looked' = looked \cup {e} /\ UNCHANGED recorded
  /\ UNCHANGED <<records, unrecorded, bus, reportingCrashes>>

\* Variation: nothing keeps a second record out once the look-up has passed.
SaveRecord_NotUnique(e) ==
  /\ e \in looked
  /\ looked' = looked \ {e}
  /\ records' = records \cup {Record(e)}
  /\ recorded' = recorded \cup {e}
  /\ UNCHANGED <<unrecorded, bus, reportingCrashes>>

\* The insert, refused by the unique index if another run was faster.
SaveRecord(e) ==
  /\ e \in looked
  /\ looked' = looked \ {e}
  /\ IF Recorded(e)
       THEN unrecorded' = unrecorded \cup {e} /\ UNCHANGED <<records, recorded>>
       ELSE /\ records' = records \cup {Record(e)}
            /\ recorded' = recorded \cup {e}
            /\ UNCHANGED unrecorded
  /\ UNCHANGED <<bus, reportingCrashes>>

\* Variation: the error is caught in the handler, the message acknowledged.
RecordFails_Swallowed(e) ==
  /\ "db" \in ReportingFaults
  /\ e \in looked
  /\ looked' = looked \ {e}
  /\ recorded' = recorded \cup {e}
  /\ UNCHANGED <<records, unrecorded, bus, reportingCrashes>>

\* Postgres refuses the insert for a reason of its own.
RecordFails(e) ==
  /\ "db" \in ReportingFaults
  /\ e \in looked
  /\ looked' = looked \ {e}
  /\ unrecorded' = unrecorded \cup {e}
  /\ UNCHANGED <<records, recorded, bus, reportingCrashes>>

\* Runs end and their messages come again; some may have been recorded.
ReportingCrash ==
  /\ "crash" \in ReportingFaults
  /\ reportingCrashes < MaxReportingCrashes
  /\ reportingCrashes' = reportingCrashes + 1
  /\ \E E \in SUBSET {e \in looked: ~Recorded(e)}:
       /\ \A e, f \in E: e # f => <<e.rk, e.booking>> # <<f.rk, f.booking>>
       /\ records' = records \cup {Record(e) : e \in E}
  /\ looked' = {}
  /\ UNCHANGED <<recorded, unrecorded, bus>>

ReportingNext ==
  \/ \E e \in bus: Look(e) \/ SaveRecord(e) \/ RecordFails(e)
  \/ ReportingCrash

-----------------------------------------------------------------------------
(* Properties.                                                             *)

\* The figures of an owner's dashboard.
CountOf(o, type) == Cardinality({r \in records: r.owner = o /\ r.type = type})
Revenue(o) == MapThenSumSet(LAMBDA r: r.amount,
                            {r \in records: r.owner = o /\ r.type = "booking.completed"})

\* The dashboard counts a booking once, though its events may come twice and
\* handlers race: the revenue is that of visits that took place, and of every
\* kind there are no more than the owner has bookings.
DashboardHonest ==
  \A o \in Owners:
    LET Own == {b \in Bookings: OwnerOf[b] = o}
    IN /\ Revenue(o) <= MapThenSumSet(LAMBDA b: Amount[b],
                          {b \in Own: PublishedOn(bus, "booking.completed", b)})
       /\ \A t \in TRACKED: CountOf(o, t) <= Cardinality(Own)

\* Every tracked event ends in a record of its booking and kind, unless a
\* handler of it threw.
EventsRecorded ==
  []<>(\A e \in bus: e.rk \in TRACKED =>
        Recorded(e) \/ \E f \in unrecorded: f.rk = e.rk /\ f.booking = e.booking)
=============================================================================
