---------------------------- MODULE Notification -----------------------------
(***************************************************************************)
(* The notification service (notifications.service.ts): it tells customers *)
(* what became of their bookings. Texts and channels are left out.         *)
(***************************************************************************)
EXTENDS Naturals, FiniteSets, Exchange

CONSTANTS
  NotificationFaults,     \* which faults may happen: "crash", "db"
  MaxNotificationCrashes, \* bound on the number of crashes
  Nameless                \* the publishers whose events name no customer

VARIABLES
  inbox,      \* the notifications: [event, nr], nr counting those of an event
  told,       \* the messages acknowledged
  untold,     \* the messages whose handler threw
  bus,        \* the exchange, shared with the other services
  notificationCrashes  \* how often the service has crashed

notificationVars == <<inbox, told, untold, notificationCrashes>>

-----------------------------------------------------------------------------

NotificationKeys == {"booking.confirmed", "booking.completed", "booking.cancelled", "slot.freed"}

Undelivered(e) == e \in bus \ (told \cup untold) /\ e.rk \in NotificationKeys

\* render: a slot that was freed is news only if nobody paid in time.
Rendered(e) == e.rk = "slot.freed" => e.reason = "payment_timeout" /\ e.by \notin Nameless

NotificationsOf(e) == {n \in inbox: n.event = e}

Note(e, k) == [event |-> e, nr |-> Cardinality(NotificationsOf(e)) + k]

\* Variation: a notification is stored for every channel tried.
Stored_PerChannel(e) == {inbox \cup {Note(e, 1)}, inbox \cup {Note(e, 1), Note(e, 2)}}

\* deliver tries push, then e-mail, which always succeeds, and stores one
\* notification, whichever went through.
Stored(e) == {inbox \cup {Note(e, 1)}}

NotificationInit ==
  /\ inbox = {}
  /\ told = {}
  /\ untold = {}
  /\ notificationCrashes = 0

\* A message there is nothing to say about is acknowledged.
Ignore(e) ==
  /\ Undelivered(e)
  /\ ~Rendered(e)
  /\ told' = told \cup {e}
  /\ UNCHANGED <<inbox, untold, bus, notificationCrashes>>

\* The insert of handle and deliver, and the acknowledgement.
Deliver(e) ==
  /\ Undelivered(e)
  /\ Rendered(e) /\ e.by \notin Nameless
  /\ inbox' \in Stored(e)
  /\ told' = told \cup {e}
  /\ UNCHANGED <<untold, bus, notificationCrashes>>

\* Variation: the error is caught in the handler, the message acknowledged.
DeliverFails_Swallowed(e) ==
  /\ Undelivered(e)
  /\ Rendered(e)
  /\ e.by \in Nameless \/ "db" \in NotificationFaults
  /\ told' = told \cup {e}
  /\ UNCHANGED <<inbox, untold, bus, notificationCrashes>>

\* mongoose refuses a notification without userId, MongoDB any other.
DeliverFails(e) ==
  /\ Undelivered(e)
  /\ Rendered(e)
  /\ e.by \in Nameless \/ "db" \in NotificationFaults
  /\ untold' = untold \cup {e}
  /\ UNCHANGED <<inbox, told, bus, notificationCrashes>>

\* The process dies before it acknowledges: the message comes once more.
DeliverAndDie(e) ==
  /\ "crash" \in NotificationFaults
  /\ notificationCrashes < MaxNotificationCrashes
  /\ Undelivered(e)
  /\ Rendered(e) /\ e.by \notin Nameless
  /\ notificationCrashes' = notificationCrashes + 1
  /\ inbox' \in Stored(e)
  /\ UNCHANGED <<told, untold, bus>>

Settle(e) == Ignore(e) \/ Deliver(e) \/ DeliverFails(e)

NotificationNext == \E e \in bus: Settle(e) \/ DeliverAndDie(e)

-----------------------------------------------------------------------------
(* Properties.                                                             *)

\* A customer is told of an event once, and only after a crash between the
\* insert and the acknowledgement once more.
ToldOnce ==
  \A e \in bus: Cardinality(NotificationsOf(e)) <= 1 + notificationCrashes

\* A customer whom an event names is told of it, unless the insert failed.
CustomersTold ==
  []<>(\A e \in bus: e.rk \in NotificationKeys /\ Rendered(e) /\ e.by \notin Nameless =>
        NotificationsOf(e) # {} \/ e \in untold)
=============================================================================
