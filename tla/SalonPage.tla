------------------------------ MODULE SalonPage ------------------------------
(***************************************************************************)
(* Choosing a slot: the page of a salon (SalonDetailPage.tsx) over the     *)
(* query availability and the checks of create (bookings.service.ts), for  *)
(* the bookings of one resource. How create races with others and what     *)
(* Redis loses is Booking's matter: here create accepts or refuses in one  *)
(* step, by what it finds of the salon, the lock and the rows. The clock   *)
(* stands still: no slot passes.                                           *)
(***************************************************************************)
EXTENDS Integers, FiniteSets

CONSTANTS
  Services, Duration, Buffer,  \* what the salon offers, and for how long
  Dates,       \* the days that can be picked, as numbers
  Day,         \* the length of a day
  Step,        \* SLOT_STEP_MIN
  Hours,       \* Hours[d]: [open, close] on day d, or Closed
  Closed,
  OtherRows,   \* the bookings that others may make: [start, until]
  Clicks,      \* clicks on the button that books
  Unset        \* a service, list or slot that is not there

VARIABLES
  active,   \* whether the salon's status is active
  locks,    \* the starts whose lock is held, whether or not a row is behind it
  rows,     \* the active bookings: [start, until]
  service,  \* selectedService
  date,     \* the date picked
  list,     \* the bookings that the slots shown were computed from, or Unset
  slot,     \* selectedSlot: [start, seen], seen being the list it was picked from
  click     \* click[k]: [step, service, date, start, seen, met]

pageVars == <<active, locks, rows, service, date, list, slot, click>>

-----------------------------------------------------------------------------
(* Availability.                                                           *)

Meets(r, from, to) == r.start < to /\ r.until > from

\* What the query reads of the bookings B: those of the day, in UTC.
Existing(B, d) == {r \in B: Meets(r, d * Day, (d + 1) * Day)}

BlockedUntil(s, t) == t + Duration[s] + Buffer[s]

\* The starts of the loop, from opening on, that end by closing.
Starts(s, d) ==
  IF Hours[d] = Closed THEN {}
  ELSE {t \in {d * Day + Hours[d].open + k * Step : k \in 0..(Day \div Step)}:
          t + Duration[s] <= d * Day + Hours[d].close}

\* Variation: the time blocked after a service is forgotten.
Available_NoBuffer(B, s, d, t) ==
  t \in Starts(s, d) /\ \A r \in Existing(B, d): ~Meets(r, t, t + Duration[s])

Available(B, s, d, t) ==
  t \in Starts(s, d) /\ \A r \in Existing(B, d): ~Meets(r, t, BlockedUntil(s, t))

-----------------------------------------------------------------------------
(* What others do to the salon, its locks and its bookings. A create of    *)
(* theirs takes the lock of its start before it has a row.                 *)

\* The admin opens or closes the salon.
SalonDecided ==
  /\ active' = ~active
  /\ UNCHANGED <<locks, rows, service, date, list, slot, click>>

\* A create is under way, or was refused with its lock left behind.
OtherLocks ==
  /\ \E o \in OtherRows: locks' = locks \cup {o.start}
  /\ UNCHANGED <<active, rows, service, date, list, slot, click>>

\* A lock is released, by a confirmation or a create that failed, or expires.
LockGoes ==
  /\ \E t \in locks: locks' = locks \ {t}
  /\ UNCHANGED <<active, rows, service, date, list, slot, click>>

OtherBooks ==
  /\ \E o \in OtherRows: /\ \A r \in rows: ~Meets(r, o.start, o.until)
                         /\ rows' = rows \cup {o} /\ locks' = locks \cup {o.start}
  /\ UNCHANGED <<active, service, date, list, slot, click>>

OtherCancels ==
  /\ \E o \in OtherRows \cap rows: rows' = rows \ {o} /\ locks' = locks \ {o.start}
  /\ UNCHANGED <<active, service, date, list, slot, click>>

-----------------------------------------------------------------------------
(* The page.                                                               *)

PageInit ==
  /\ active = TRUE /\ locks = {} /\ rows = {}
  /\ service = Unset /\ date = 0 /\ list = Unset /\ slot = Unset
  /\ click = [k \in Clicks |-> [step |-> "idle"]]

\* Variation: the slot picked is kept.
PickService_KeepsSlot(s) ==
  /\ service' = s /\ list' = Unset
  /\ UNCHANGED <<active, locks, rows, date, slot, click>>

\* Another service or date is another query; the slot picked is forgotten.
PickService(s) ==
  /\ service' = s /\ list' = Unset /\ slot' = Unset
  /\ UNCHANGED <<active, locks, rows, date, click>>

PickDate(d) ==
  /\ date' = d /\ list' = Unset /\ slot' = Unset
  /\ UNCHANGED <<active, locks, rows, service, click>>

\* The query is answered, for the first time or again. The slot picked stays,
\* also if the new list has it taken.
ListSlots ==
  /\ service # Unset
  /\ list' = rows
  /\ UNCHANGED <<active, locks, rows, service, date, slot, click>>

PickSlot ==
  /\ service # Unset /\ list # Unset
  /\ \E t \in Starts(service, date): Available(list, service, date, t) /\ slot' = [start |-> t, seen |-> list]
  /\ UNCHANGED <<active, locks, rows, service, date, list, click>>

\* onBook. The button is disabled while a booking is under way, and the page
\* is left when it has succeeded.
Book(k) ==
  /\ slot # Unset
  /\ click[k].step = "idle" /\ \A j \in Clicks: click[j].step \notin {"sent", "booked"}
  /\ click' = [click EXCEPT ![k] = [step |-> "sent", service |-> service, date |-> date,
                                    start |-> slot.start, seen |-> slot.seen, met |-> {}]]
  /\ UNCHANGED <<active, locks, rows, service, date, list, slot>>

\* create: the salon takes no bookings,
SalonClosed(k) ==
  /\ click[k].step = "sent" /\ ~active
  /\ click' = [click EXCEPT ![k].step = "closed"]
  /\ UNCHANGED <<active, locks, rows, service, date, list, slot>>

\* or somebody holds the lock of the slot, or left it behind,
SlotLocked(k) ==
  /\ click[k].step = "sent" /\ active /\ click[k].start \in locks
  /\ click' = [click EXCEPT ![k].step = "locked"]
  /\ UNCHANGED <<active, locks, rows, service, date, list, slot>>

\* or the slot meets bookings, and the lock taken is released again; or it
\* becomes one, which keeps the lock.
Create(k) ==
  /\ click[k].step = "sent" /\ active /\ click[k].start \notin locks
  /\ LET start == click[k].start
         until == BlockedUntil(click[k].service, start)
         met == {r \in rows: Meets(r, start, until)} IN
     \/ /\ met # {}
        /\ click' = [click EXCEPT ![k].step = "taken", ![k].met = met]
        /\ UNCHANGED <<locks, rows>>
     \/ /\ met = {}
        /\ click' = [click EXCEPT ![k].step = "booked"]
        /\ rows' = rows \cup {[start |-> start, until |-> until]}
        /\ locks' = locks \cup {start}
  /\ UNCHANGED <<active, service, date, list, slot>>

PageNext ==
  \/ SalonDecided \/ OtherLocks \/ LockGoes \/ OtherBooks \/ OtherCancels
  \/ ListSlots \/ PickSlot
  \/ \E s \in Services: PickService(s)
  \/ \E d \in Dates: PickDate(d)
  \/ \E k \in Clicks: Book(k) \/ SalonClosed(k) \/ SlotLocked(k) \/ Create(k)

-----------------------------------------------------------------------------
(* Properties.                                                             *)

\* create knows nothing of opening hours. What the page books keeps them all
\* the same: it begins on the grid of its day and ends by closing.
BookedWithinHours ==
  \A k \in Clicks: click[k].step = "booked" => click[k].start \in Starts(click[k].service, click[k].date)

\* What availability computes and what create's conflict check asks agree: a
\* slot that was offered meets a booking there only if the booking was made
\* after the list it was picked from was read, or is one of the next day, which
\* the query does not see. (create also refuses for a salon that is not active
\* and for a lock that is held, which availability does not look at: the steps
\* closed and locked, of which nothing is said.)
ConflictOnlyIfTakenSince ==
  \A k \in Clicks: click[k].step = "taken" =>
    \/ ~(click[k].met \subseteq click[k].seen)
    \/ \E r \in click[k].met: r.start >= (click[k].date + 1) * Day
=============================================================================
