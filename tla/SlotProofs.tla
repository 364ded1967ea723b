------------------------------ MODULE SlotProofs ------------------------------
(***************************************************************************)
(* What the booking service promises about a slot it gives up or holds:    *)
(* a freed slot is unlocked, every status is announced, and the service    *)
(* implements SlotHold.                                                    *)
(***************************************************************************)
EXTENDS BookingProofs

-----------------------------------------------------------------------------
(* A freed slot is unlocked. The argument needs no bound on the time a     *)
(* create takes: a booking locks its slot before it has a row, and only a  *)
(* booking that has a row is worked on or freed.                           *)

\* What was freed had a row, and rows are never deleted.
FreedHasRow == \A b \in Bookings: Published("slot.freed", b) => row[b].status # "none"

\* A worker about to announce slot.freed has released the lock.
ReleasersUnlocked ==
  \A w \in Workers: pc[w] = "unlocked" /\ call[w].op \in ReleaseOps =>
    lock[Key(call[w].booking)] # call[w].booking

FreedInv == /\ TypeInv /\ NoRowBeforeInsert /\ WorkOnRows
            /\ FreedHasRow /\ ReleasersUnlocked /\ FreedMeansUnlocked

\* What every step keeps to, each conjunct about one part of the state.
RowsStay == \A b \in Bookings: row[b].status # "none" => row'[b].status # "none"

RowsComeFromCreate ==
  \A b \in Bookings: creq'[b] \in {"idle", "locked", "checked"} =>
    /\ creq[b] \in {"idle", "locked", "checked"}
    /\ row'[b].status = row[b].status

WorkStartsOnRows ==
  /\ \A w \in Workers: Busy(w)' =>
       \/ Busy(w) /\ call'[w] = call[w]
       \/ pc'[w] = "loaded" /\ row[call'[w].booking].status # "none"
  /\ \A w \in Sweeps: \A t \in todo'[w]: row[t.booking].status # "none"

LocksComeFirst ==
  \A b \in Bookings: lock'[Key(b)] = b => lock[Key(b)] = b \/ row[b].status = "none"

UnlocksBeforePublish ==
  \A w \in Workers: pc'[w] = "unlocked" /\ call'[w].op \in ReleaseOps =>
    \/ pc[w] = "unlocked"
    \/ lock'[Key(call'[w].booking)] # call'[w].booking

FreesAfterUnlock ==
  \A b \in Bookings: PublishedOn(bus', "slot.freed", b) =>
    \/ Published("slot.freed", b)
    \/ \E w \in Workers: /\ pc[w] = "unlocked" /\ call[w].op \in ReleaseOps
                        /\ call[w].booking = b /\ lock' = lock

FreedSteps == /\ slot' = slot /\ RowsStay /\ RowsComeFromCreate /\ WorkStartsOnRows
              /\ LocksComeFirst /\ UnlocksBeforePublish /\ FreesAfterUnlock

LEMMA FreedInit == Init => FreedInv
BY TypeInit DEF Init, FreedInv, NoRowBeforeInsert, WorkOnRows, Busy, FreedHasRow, ReleasersUnlocked,
   FreedMeansUnlocked, NoRow, Published, PublishedOn

LEMMA FreedPreserved ==
  ASSUME FreedInv, TypeInv', FreedSteps
  PROVE  FreedInv'
<1> USE DEF FreedInv, FreedSteps
<1>1. \A b \in Bookings: Key(b)' = Key(b)
  BY DEF Key
<1>2. /\ \A w \in Workers: Busy(w) => call[w].booking \in Bookings
      /\ \A w \in Workers: Busy(w)' => call'[w].booking \in Bookings
      /\ \A w \in Sweeps: \A t \in todo'[w]: t.booking \in Bookings
  BY DEF TypeInv, TypeOK, CallsLoaded, Calls
<1>3. NoRowBeforeInsert'
  BY DEF NoRowBeforeInsert, RowsComeFromCreate
<1>4. WorkOnRows'
  BY <1>2 DEF WorkOnRows, WorkStartsOnRows, RowsStay
<1>5. FreedHasRow'
  <2> SUFFICES ASSUME NEW b \in Bookings, PublishedOn(bus', "slot.freed", b)
               PROVE  row'[b].status # "none"
    BY DEF FreedHasRow, Published, PublishedOn
  <2> QED
    BY DEF FreesAfterUnlock, FreedHasRow, RowsStay, WorkOnRows, Busy
<1>6. ReleasersUnlocked'
  <2> SUFFICES ASSUME NEW w \in Workers, pc'[w] = "unlocked", call'[w].op \in ReleaseOps
               PROVE  lock'[Key(call'[w].booking)] # call'[w].booking
    BY <1>1, <1>2 DEF ReleasersUnlocked, Busy
  <2>1. call'[w].booking \in Bookings /\ Busy(w)'
    BY <1>2 DEF Busy
  <2>2. CASE pc[w] # "unlocked"
    BY <2>2 DEF UnlocksBeforePublish
  <2>3. CASE pc[w] = "unlocked"
    <3>1. call'[w] = call[w] /\ Busy(w)
      BY <2>1, <2>3 DEF WorkStartsOnRows, Busy
    <3>2. lock[Key(call'[w].booking)] # call'[w].booking /\ row[call'[w].booking].status # "none"
      BY <2>3, <3>1 DEF ReleasersUnlocked, WorkOnRows
    <3> QED
      BY <2>1, <3>2 DEF LocksComeFirst
  <2> QED
    BY <2>2, <2>3
<1>7. FreedMeansUnlocked'
  <2> SUFFICES ASSUME NEW b \in Bookings, PublishedOn(bus', "slot.freed", b)
               PROVE  lock'[Key(b)] # b
    BY <1>1 DEF FreedMeansUnlocked, Published, PublishedOn
  <2>1. CASE Published("slot.freed", b)
    BY <2>1 DEF FreedMeansUnlocked, FreedHasRow, LocksComeFirst
  <2>2. CASE ~Published("slot.freed", b)
    BY <2>2 DEF FreesAfterUnlock, ReleasersUnlocked
  <2> QED
    BY <2>1, <2>2
<1> QED
  BY <1>3, <1>4, <1>5, <1>6, <1>7

\* A create locks before it has a row, and announces nothing freed.
LEMMA FreedCreate ==
  ASSUME FreedInv, NEW b \in Bookings, Create(b)
  PROVE  FreedSteps
<1> USE DEF FreedInv, FreedSteps
<1>1. UNCHANGED <<slot, pc, call, todo>>
  BY DEF Create, RejectCreate, AcquireLock, LockTaken, LockStranded, CheckConflict, Insert,
         TransactionFails, PublishPending, PublishPendingThrows, ReleaseAfterFailure
<1>2. \A c \in Bookings: Key(c) \in Keys
  BY KeyInKeys DEF TypeInv
<1>3. WorkStartsOnRows /\ UnlocksBeforePublish
  BY <1>1 DEF WorkStartsOnRows, UnlocksBeforePublish, WorkOnRows, Busy
<1>4. RowsStay /\ RowsComeFromCreate
  BY DEF RowsStay, RowsComeFromCreate, NoRowBeforeInsert, TypeInv, TypeOK, Create, RejectCreate, AcquireLock,
         LockTaken, LockStranded, CheckConflict, Insert, TransactionFails, PublishPending,
         PublishPendingThrows, ReleaseAfterFailure
<1>5. LocksComeFirst
  <2>1. CASE AcquireLock(b) \/ LockStranded(b)
    BY <1>2, <2>1 DEF LocksComeFirst, NoRowBeforeInsert, AcquireLock, LockStranded, TypeInv, TypeOK
  <2>2. CASE ReleaseAfterFailure(b)
    BY <1>2, <2>2, NamesDiffer DEF LocksComeFirst, ReleaseAfterFailure, Unlocked, TypeInv, TypeOK
  <2>3. CASE lock' = lock
    BY <2>3 DEF LocksComeFirst
  <2> QED
    BY <2>1, <2>2, <2>3 DEF Create, RejectCreate, LockTaken, CheckConflict, Insert,
         TransactionFails, PublishPending, PublishPendingThrows
<1>6. FreesAfterUnlock
  <2>1. \A e \in bus': e.rk = "slot.freed" => e \in bus
    BY DEF Create, RejectCreate, AcquireLock, LockTaken, LockStranded, CheckConflict, Insert, Event,
           TransactionFails, PublishPending, PublishPendingThrows, ReleaseAfterFailure
  <2> QED
    BY <2>1 DEF FreesAfterUnlock, Published, PublishedOn
<1> QED
  BY <1>1, <1>3, <1>4, <1>5, <1>6

\* A handler starts on a row it has read, and so does the cron.
LEMMA FreedRead ==
  ASSUME FreedInv,
         \/ \E w \in Requests: HandleRequest(w)
         \/ \E m \in Deliveries: HandleOutcome(m)
         \/ \E w \in Sweeps: FindExpired(w) \/ NextExpired(w)
  PROVE  FreedSteps
<1> USE DEF FreedInv, FreedSteps
<1>1. UNCHANGED <<slot, row, lock, creq, bus>>
  BY DEF HandleRequest, HandleOutcome, FindExpired, NextExpired
<1>2. RowsStay /\ RowsComeFromCreate /\ LocksComeFirst /\ FreesAfterUnlock
  BY <1>1 DEF RowsStay, RowsComeFromCreate, LocksComeFirst, FreesAfterUnlock, Published
<1>3. WorkStartsOnRows /\ UnlocksBeforePublish
  <2>1. CASE \E w \in Requests: HandleRequest(w)
    <3>1. PICK w \in Requests: HandleRequest(w)
      BY <2>1
    <3>2. todo' = todo /\ w \in Workers
      BY <3>1 DEF HandleRequest, Workers
    <3>3. PICK b \in Bookings, o \in RequestOps:
            /\ row[b].status # "none"
            /\ IF Permitted(o, row[b].status)
                 THEN Load(w, o, b, row[b])
                 ELSE pc' = [pc EXCEPT ![w] = "done"] /\ UNCHANGED call
      BY <3>1 DEF HandleRequest
    <3> QED
      BY <3>2, <3>3 DEF WorkStartsOnRows, UnlocksBeforePublish, WorkOnRows, Busy, Load, TypeInv, TypeOK
  <2>2. CASE \E m \in Deliveries: HandleOutcome(m)
    <3>1. PICK m \in Deliveries: HandleOutcome(m)
      BY <2>2
    <3>2. todo' = todo /\ m \in Workers
      BY <3>1 DEF HandleOutcome, Workers
    <3>3. PICK e \in bus:
            LET o == IF e.rk = "payment.completed" THEN "confirm" ELSE "payment_failed"
            IN IF Permitted(o, row[e.booking].status)
                 THEN Load(m, o, e.booking, row[e.booking])
                 ELSE pc' = [pc EXCEPT ![m] = "done"] /\ UNCHANGED call
      BY <3>1 DEF HandleOutcome
    <3>4. \A o \in OutcomeOps: Permitted(o, row[e.booking].status) => row[e.booking].status # "none"
      BY DEF Permitted, OutcomeOps
    <3> QED
      BY <3>2, <3>3, <3>4 DEF WorkStartsOnRows, UnlocksBeforePublish, WorkOnRows, Busy, Load, TypeInv, TypeOK,
         OutcomeOps
  <2>3. CASE \E w \in Sweeps: FindExpired(w)
    <3>1. PICK w \in Sweeps: FindExpired(w)
      BY <2>3
    <3>2. /\ pc' = [pc EXCEPT ![w] = "sweeping"] /\ call' = call
          /\ \A v \in Sweeps: \A t \in todo'[v]: t \in todo[v] \/ row[t.booking].status = "pending"
      BY <3>1 DEF FindExpired, TypeInv, TypeOK
    <3> QED
      BY <3>2 DEF WorkStartsOnRows, UnlocksBeforePublish, WorkOnRows, Busy, TypeInv, TypeOK, Workers
  <2>4. CASE \E w \in Sweeps: NextExpired(w)
    <3>1. PICK w \in Sweeps: NextExpired(w)
      BY <2>4
    <3>2. PICK t \in todo[w]:
            todo' = [todo EXCEPT ![w] = @ \ {t}] /\ Load(w, "payment_timeout", t.booking, t.entity)
      BY <3>1 DEF NextExpired
    <3> QED
      BY <3>2 DEF WorkStartsOnRows, UnlocksBeforePublish, WorkOnRows, Busy, Load, TypeInv, TypeOK, Workers
  <2> QED
    BY <2>1, <2>2, <2>3, <2>4
<1> QED
  BY <1>1, <1>2, <1>3

\* The end of the process leaves rows, locks and events as they are.
LEMMA FreedDie ==
  ASSUME FreedInv, Die, UNCHANGED <<slot, row, lock, bus>>
  PROVE  FreedSteps
<1>1. /\ \A b \in Bookings: creq'[b] \in {"idle", "refused", "booked", "dead"}
      /\ \A b \in Bookings: creq'[b] = "idle" => creq[b] = "idle"
      /\ \A v \in Workers: pc'[v] \in {"idle", "done"}
      /\ \A v \in Sweeps: todo'[v] = {}
  BY DEF Die, FreedInv, TypeInv, TypeOK
<1> QED
  BY <1>1 DEF FreedSteps, RowsStay, RowsComeFromCreate, WorkStartsOnRows, LocksComeFirst,
     UnlocksBeforePublish, FreesAfterUnlock, Busy, Published

\* A worker frees the lock of its booking before it announces the slot.
LEMMA FreedWork ==
  ASSUME FreedInv, NEW w \in Workers, Work(w)
  PROVE  FreedSteps
<1> USE DEF FreedInv, FreedSteps
<1> DEFINE b == call[w].booking
<1>1. Busy(w) /\ call[w] \in Calls /\ b \in Bookings /\ row[b].status # "none"
  BY DEF Work, Save, SaveFails, ReleaseLock, Publish, PublishThrows, Busy, TypeInv, CallsLoaded, Calls, WorkOnRows
<1>2. Key(b) \in Keys /\ slot' = slot
  BY <1>1, KeyInKeys DEF TypeInv, Work, Save, SaveFails, ReleaseLock, Publish, PublishThrows
<1>3. CASE Save(w)
  <2>1. Assigned(call[w].op, call[w].entity).status # "none"
    BY <1>1, AssignedRow DEF Calls, Statuses
  <2>2. /\ UNCHANGED <<lock, creq, call, todo, bus>>
        /\ row' = [row EXCEPT ![b] = Assigned(call[w].op, call[w].entity)]
        /\ pc' = [pc EXCEPT ![w] = IF call[w].op \in {"complete", "no_show"} THEN "unlocked" ELSE "saved"]
    BY <1>3 DEF Save
  <2>3. RowsStay /\ RowsComeFromCreate
    BY <1>1, <2>1, <2>2 DEF RowsStay, RowsComeFromCreate, NoRowBeforeInsert, TypeInv, TypeOK
  <2>4. WorkStartsOnRows /\ UnlocksBeforePublish
    BY <1>1, <2>2 DEF WorkStartsOnRows, UnlocksBeforePublish, WorkOnRows, Busy, TypeInv, TypeOK, ReleaseOps
  <2> QED
    BY <1>2, <2>2, <2>3, <2>4 DEF LocksComeFirst, FreesAfterUnlock, Published
<1>4. CASE ReleaseLock(w)
  <2>1. /\ UNCHANGED <<row, creq, call, todo, bus>>
        /\ lock' = [lock EXCEPT ![Key(b)] = IF @ = b THEN NoOne ELSE @]
        /\ pc' = [pc EXCEPT ![w] = "unlocked"]
    BY <1>4 DEF ReleaseLock, Unlocked
  <2>2. lock'[Key(b)] # b
    BY <1>1, <1>2, <2>1, NamesDiffer DEF TypeInv, TypeOK
  <2>3. LocksComeFirst
    BY <1>2, <2>1, NamesDiffer, KeyInKeys DEF LocksComeFirst, TypeInv, TypeOK
  <2>4. WorkStartsOnRows /\ UnlocksBeforePublish
    BY <1>1, <2>1, <2>2 DEF WorkStartsOnRows, UnlocksBeforePublish, WorkOnRows, Busy, TypeInv, TypeOK
  <2> QED
    BY <1>2, <2>1, <2>3, <2>4 DEF RowsStay, RowsComeFromCreate, FreesAfterUnlock, Published
<1>5. CASE Publish(w)
  <2>1. /\ UNCHANGED <<row, lock, creq, todo>> /\ bus' = bus \cup Announced(w)
        /\ pc[w] = "unlocked"
        /\ \A v \in Workers: Busy(v)' => Busy(v) /\ call'[v] = call[v] /\ pc'[v] = pc[v]
    BY <1>5 DEF Publish, TypeInv, TypeOK, Busy
  <2>2. FreesAfterUnlock
    <3> SUFFICES ASSUME NEW c \in Bookings, PublishedOn(bus', "slot.freed", c), ~Published("slot.freed", c)
                 PROVE  call[w].op \in ReleaseOps /\ b = c
      BY <2>1 DEF FreesAfterUnlock
    <3>1. PICK e \in Announced(w): e.rk = "slot.freed" /\ e.booking = c
      BY <2>1 DEF Published, PublishedOn
    <3>2. "slot.freed" \in RoutingKeys(call[w].op, call[w].entity) /\ b = c
      BY <3>1 DEF Announced, Event
    <3> QED
      BY <1>1, <3>2, AnnouncedKeys DEF Calls
  <2> QED
    BY <1>2, <2>1, <2>2 DEF RowsStay, RowsComeFromCreate, WorkStartsOnRows, LocksComeFirst,
       UnlocksBeforePublish, WorkOnRows, Busy
<1>6. CASE SaveFails(w) \/ (PublishThrows(w) /\ w \notin Deliveries)
  <2>1. /\ UNCHANGED <<row, lock, creq, bus>>
        /\ \A v \in Workers: Busy(v)' => Busy(v) /\ call'[v] = call[v] /\ pc'[v] = pc[v]
        /\ \A v \in Sweeps: todo'[v] \subseteq todo[v]
    BY <1>6 DEF SaveFails, PublishThrows, Abort, TypeInv, TypeOK, Busy
  <2> QED
    BY <1>2, <2>1 DEF RowsStay, RowsComeFromCreate, WorkStartsOnRows, LocksComeFirst,
       UnlocksBeforePublish, FreesAfterUnlock, Published, WorkOnRows, Busy
<1>7. CASE PublishThrows(w) /\ w \in Deliveries
  BY <1>7, FreedDie DEF PublishThrows
<1> QED
  BY <1>3, <1>4, <1>5, <1>6, <1>7 DEF Work

LEMMA FreedEnvironment ==
  ASSUME FreedInv,
         \/ \E b \in Bookings: DeadlinePasses(b)
         \/ \E k \in Keys: LockExpires(k)
         \/ Crash
         \/ \E m \in Deliveries: PaymentOutcome(m)
  PROVE  FreedSteps
<1> USE DEF FreedInv, FreedSteps
<1>1. CASE \E b \in Bookings: DeadlinePasses(b)
  <2>1. /\ UNCHANGED <<slot, lock, creq, pc, call, todo, bus>>
        /\ \A c \in Bookings: row'[c].status = row[c].status
    BY <1>1 DEF DeadlinePasses, TypeInv, TypeOK, Rows
  <2> QED
    BY <2>1 DEF RowsStay, RowsComeFromCreate, WorkStartsOnRows, LocksComeFirst,
       UnlocksBeforePublish, FreesAfterUnlock, Published, WorkOnRows, Busy
<1>2. CASE \E k \in Keys: LockExpires(k)
  <2>1. /\ UNCHANGED <<slot, row, creq, pc, call, todo, bus>>
        /\ \A k \in Keys: lock'[k] \in {lock[k], NoOne}
    BY <1>2 DEF LockExpires, TypeInv, TypeOK
  <2>2. LocksComeFirst
    BY <2>1, KeyInKeys, NamesDiffer DEF LocksComeFirst, TypeInv
  <2>3. UnlocksBeforePublish
    BY <2>1 DEF UnlocksBeforePublish
  <2> QED
    BY <2>1, <2>2, <2>3 DEF RowsStay, RowsComeFromCreate, WorkStartsOnRows,
       FreesAfterUnlock, Published, WorkOnRows, Busy
<1>3. CASE Crash
  BY <1>3, FreedDie DEF Crash
<1>4. CASE \E m \in Deliveries: PaymentOutcome(m)
  <2>1. /\ UNCHANGED <<slot, row, lock, creq, pc, call, todo>>
        /\ \A e \in bus': e.rk = "slot.freed" => e \in bus
    BY <1>4 DEF PaymentOutcome, PaymentKeys, Event
  <2> QED
    BY <2>1 DEF RowsStay, RowsComeFromCreate, WorkStartsOnRows, LocksComeFirst,
       UnlocksBeforePublish, FreesAfterUnlock, Published, PublishedOn, WorkOnRows, Busy
<1> QED
  BY <1>1, <1>2, <1>3, <1>4

LEMMA FreedStep == FreedInv /\ [Next]_vars => FreedInv'
<1> SUFFICES ASSUME FreedInv, [Next]_vars PROVE FreedInv'
  OBVIOUS
<1>1. TypeInv'
  BY TypeStep DEF FreedInv
<1>2. CASE UNCHANGED vars \/ Rest
  <2>1. FreedSteps
    BY <1>2 DEF Rest, vars, FreedInv, FreedSteps, RowsStay, RowsComeFromCreate, WorkStartsOnRows, LocksComeFirst,
       UnlocksBeforePublish, FreesAfterUnlock, Published, WorkOnRows, Busy
  <2> QED
    BY <1>1, <2>1, FreedPreserved
<1>3. CASE ServiceNext \/ \E m \in Deliveries: PaymentOutcome(m)
  <2>1. FreedSteps
    BY <1>3, FreedCreate, FreedRead, FreedWork, FreedEnvironment DEF ServiceNext
  <2> QED
    BY <1>1, <2>1, FreedPreserved
<1> QED
  BY <1>2, <1>3 DEF Next

\* Whoever hears slot.freed and books the slot at once is not turned away by
\* the lock of the booking that freed it, however slow a create, however many
\* handlers race to free it and whatever fails.
THEOREM FreedIsUnlocked == Spec => []FreedMeansUnlocked
<1>1. FreedInv => FreedMeansUnlocked
  BY DEF FreedInv
<1> QED
  BY <1>1, FreedInit, FreedStep, PTL DEF Spec

-----------------------------------------------------------------------------
(* Every status is announced. StatusAnnounced is not inductive: the create *)
(* still to announce its booking only vouches for it while the row says    *)
(* PENDING, since another handler may have saved over it by then.          *)

AnnouncerOf(b) ==
  {w \in Workers: /\ pc[w] \in {"saved", "unlocked"}
                  /\ call[w].booking = b
                  /\ Announcement(row[b].status) \in RoutingKeys(call[w].op, call[w].entity)}

Heard(b) ==
  \/ Published(Announcement(row[b].status), b)
  \/ creq[b] = "inserted" /\ row[b].status = "pending"
  \/ AnnouncerOf(b) # {}

Undisturbed == "bus" \notin Faults /\ crashes = 0

AnnounceInv ==
  TypeInv /\ (Undisturbed => \A b \in Bookings: row[b].status # "none" => Heard(b))

\* What an operation assigns is what it announces at its end.
LEMMA AnnouncesAssigned ==
  ASSUME NEW o \in Ops, NEW e \in Rows
  PROVE  Announcement(Assigned(o, e).status) \in RoutingKeys(o, e)
<1>1. CASE o = "confirm"
  BY <1>1 DEF Assigned, RoutingKeys, Announcement
<1>2. CASE o \in ReleaseOps
  BY <1>2 DEF Assigned, RoutingKeys, Announcement, Rows, ReleaseOps
<1>3. CASE o = "complete"
  BY <1>3 DEF Assigned, RoutingKeys, Announcement, Rows, ReleaseOps
<1>4. CASE o = "no_show"
  BY <1>4 DEF Assigned, RoutingKeys, Announcement, Rows, ReleaseOps
<1> QED
  BY <1>1, <1>2, <1>3, <1>4 DEF Ops, RequestOps, OutcomeOps, ReleaseOps

\* Steps that save no row and end no announcement.
LEMMA AnnounceQuiet ==
  ASSUME AnnounceInv, TypeInv', [Next]_vars,
         Undisturbed' => /\ Undisturbed
                         /\ \A b \in Bookings: row'[b].status = row[b].status
                         /\ \A b \in Bookings: creq[b] = "inserted" => creq'[b] = "inserted"
                         /\ \A w \in Workers: pc[w] \in {"saved", "unlocked"} =>
                              pc'[w] \in {"saved", "unlocked"} /\ call'[w] = call[w]
  PROVE  AnnounceInv'
<1> SUFFICES ASSUME Undisturbed', NEW b \in Bookings, row'[b].status # "none"
             PROVE  Heard(b)'
  BY DEF AnnounceInv
<1>1. Undisturbed /\ row'[b].status = row[b].status /\ Heard(b)
  BY DEF AnnounceInv
<1>2. CASE Published(Announcement(row[b].status), b)
  BY <1>1, <1>2, BusGrows DEF Heard, Published, PublishedOn
<1>3. CASE creq[b] = "inserted" /\ row[b].status = "pending"
  BY <1>1, <1>3 DEF Heard
<1>4. CASE AnnouncerOf(b) # {}
  <2>1. PICK w \in Workers: /\ pc[w] \in {"saved", "unlocked"} /\ call[w].booking = b
                            /\ Announcement(row[b].status) \in RoutingKeys(call[w].op, call[w].entity)
    BY <1>4 DEF AnnouncerOf
  <2>2. pc'[w] \in {"saved", "unlocked"} /\ call'[w] = call[w]
    BY <1>1, <2>1
  <2>3. w \in AnnouncerOf(b)'
    BY <1>1, <2>1, <2>2 DEF AnnouncerOf
  <2> QED
    BY <2>3 DEF Heard
<1> QED
  BY <1>1, <1>2, <1>3, <1>4 DEF Heard

\* create inserts a row and then announces it.
LEMMA AnnounceCreate ==
  ASSUME AnnounceInv, TypeInv', [Next]_vars, NEW b \in Bookings, Create(b)
  PROVE  AnnounceInv'
<1> USE DEF AnnounceInv
<1>1. UNCHANGED <<pc, call, crashes>>
  BY DEF Create, RejectCreate, AcquireLock, LockTaken, LockStranded, CheckConflict, Insert,
         TransactionFails, PublishPending, PublishPendingThrows, ReleaseAfterFailure
<1>2. CASE Insert(b) \/ PublishPending(b)
  <2> SUFFICES ASSUME Undisturbed', NEW c \in Bookings, row'[c].status # "none"
               PROVE  Heard(c)'
    OBVIOUS
  <2>1. Undisturbed
    BY <1>1 DEF Undisturbed
  <2>2. CASE c = b /\ Insert(b)
    BY <2>2 DEF Insert, Heard, TypeInv, TypeOK
  <2>3. CASE c # b \/ PublishPending(b)
    <3>1. row'[c].status = row[c].status /\ Heard(c) /\ (c # b => creq'[c] = creq[c])
      BY <1>2, <2>1, <2>3 DEF Insert, PublishPending, TypeInv, TypeOK
    <3>2. CASE Published(Announcement(row[c].status), c)
      BY <3>1, <3>2, BusGrows DEF Heard, Published, PublishedOn
    <3>3. CASE creq[c] = "inserted" /\ row[c].status = "pending" /\ c # b
      BY <3>1, <3>3 DEF Heard
    <3>4. CASE row[c].status = "pending" /\ c = b
      <4>1. Event("booking.pending", b, b, "-") \in bus'
        BY <2>3, <3>4 DEF PublishPending
      <4>2. Published(Announcement(row[c].status), c)'
        BY <3>1, <3>4, <4>1 DEF Announcement, Published, PublishedOn, Event
      <4> QED
        BY <4>2 DEF Heard
    <3>5. CASE AnnouncerOf(c) # {}
      <4>1. AnnouncerOf(c)' = AnnouncerOf(c)
        BY <1>1, <3>1 DEF AnnouncerOf
      <4> QED
        BY <3>5, <4>1 DEF Heard
    <3> QED
      BY <3>1, <3>2, <3>3, <3>4, <3>5 DEF Heard
  <2> QED
    BY <1>2, <2>2, <2>3
<1>3. CASE ~Insert(b) /\ ~PublishPending(b)
  <2>1. row' = row /\ (Undisturbed => \A c \in Bookings: creq[c] = "inserted" => creq'[c] = "inserted")
    BY <1>3 DEF Create, RejectCreate, AcquireLock, LockTaken, LockStranded, CheckConflict,
         TransactionFails, PublishPendingThrows, ReleaseAfterFailure, TypeInv, TypeOK, Undisturbed
  <2> QED
    BY <1>1, <2>1, AnnounceQuiet DEF Undisturbed
<1> QED
  BY <1>2, <1>3

\* A save is followed by its announcement, made by the same worker.
LEMMA AnnounceSave ==
  ASSUME AnnounceInv, TypeInv', [Next]_vars, NEW w \in Workers, Save(w)
  PROVE  AnnounceInv'
<1> USE DEF AnnounceInv
<1> SUFFICES ASSUME Undisturbed', NEW c \in Bookings, row'[c].status # "none"
             PROVE  Heard(c)'
  OBVIOUS
<1> DEFINE b == call[w].booking  o == call[w].op  e == call[w].entity
<1>1. b \in Bookings /\ o \in Ops /\ e \in Rows /\ Undisturbed
  BY DEF Save, TypeInv, CallsLoaded, Busy, Calls, Undisturbed
<1>2. /\ row' = [row EXCEPT ![b] = Assigned(o, e)] /\ UNCHANGED <<call, creq, bus>>
      /\ pc[w] = "loaded" /\ pc'[w] \in {"saved", "unlocked"}
      /\ \A v \in Workers \ {w}: pc'[v] = pc[v]
  BY DEF Save, TypeInv, TypeOK
<1>3. CASE c = b
  <2>1. row'[c].status = Assigned(o, e).status
    BY <1>1, <1>2, <1>3 DEF TypeInv, TypeOK
  <2>2. w \in AnnouncerOf(c)'
    BY <1>1, <1>2, <1>3, <2>1, AnnouncesAssigned DEF AnnouncerOf
  <2> QED
    BY <2>2 DEF Heard
<1>4. CASE c # b
  <2>1. row'[c] = row[c] /\ Heard(c)
    BY <1>1, <1>2, <1>4 DEF TypeInv, TypeOK
  <2>2. \A v \in AnnouncerOf(c): v \in AnnouncerOf(c)'
    BY <1>2, <1>4, <2>1 DEF AnnouncerOf
  <2> QED
    BY <1>2, <2>1, <2>2 DEF Heard, Published, PublishedOn
<1> QED
  BY <1>3, <1>4

LEMMA AnnouncePublish ==
  ASSUME AnnounceInv, TypeInv', [Next]_vars, NEW w \in Workers, Publish(w)
  PROVE  AnnounceInv'
<1> USE DEF AnnounceInv
<1> SUFFICES ASSUME Undisturbed', NEW c \in Bookings, row'[c].status # "none"
             PROVE  Heard(c)'
  OBVIOUS
<1>1. /\ UNCHANGED <<row, creq>> /\ Undisturbed /\ bus' = bus \cup Announced(w)
      /\ \A v \in Workers \ {w}: pc'[v] = pc[v] /\ call'[v] = call[v]
  BY DEF Publish, TypeInv, TypeOK, Undisturbed
<1>2. CASE w \in AnnouncerOf(c)
  <2> DEFINE rk == Announcement(row[c].status)
  <2>1. rk \in RoutingKeys(call[w].op, call[w].entity) /\ call[w].booking = c
    BY <1>2 DEF AnnouncerOf
  <2>2. Event(rk, c, w, IF rk = "slot.freed" THEN call[w].op ELSE "-") \in bus'
    BY <1>1, <2>1 DEF Announced
  <2>3. PublishedOn(bus', rk, c)
    BY <2>2 DEF PublishedOn, Event
  <2> QED
    BY <1>1, <2>3 DEF Heard, Published
<1>3. CASE w \notin AnnouncerOf(c)
  <2>1. \A v \in AnnouncerOf(c): v \in AnnouncerOf(c)'
    BY <1>1, <1>3 DEF AnnouncerOf
  <2> QED
    BY <1>1, <2>1 DEF Heard, Published, PublishedOn
<1> QED
  BY <1>2, <1>3

LEMMA AnnounceInit == Init => AnnounceInv
BY TypeInit DEF Init, AnnounceInv, NoRow

LEMMA AnnounceStep == AnnounceInv /\ [Next]_vars => AnnounceInv'
<1> SUFFICES ASSUME AnnounceInv, [Next]_vars PROVE AnnounceInv'
  OBVIOUS
<1>1. TypeInv'
  BY TypeStep DEF AnnounceInv
<1>2. CASE UNCHANGED vars \/ Rest
  BY <1>1, <1>2, AnnounceQuiet DEF Rest, vars, Undisturbed
<1>3. CASE \E b \in Bookings: Create(b)
  BY <1>1, <1>3, AnnounceCreate
<1>4. CASE \E w \in Workers: Save(w)
  BY <1>1, <1>4, AnnounceSave
<1>5. CASE \E w \in Workers: Publish(w)
  BY <1>1, <1>5, AnnouncePublish
<1>6. CASE \/ \E b \in Bookings: DeadlinePasses(b)
           \/ \E k \in Keys: LockExpires(k)
           \/ \E m \in Deliveries: PaymentOutcome(m)
  BY <1>1, <1>6, AnnounceQuiet DEF DeadlinePasses, LockExpires, PaymentOutcome, Undisturbed,
     AnnounceInv, TypeInv, TypeOK, Rows
<1>7. CASE Crash
  <2>1. crashes' # 0
    BY <1>7 DEF Crash, AnnounceInv, TypeInv, TypeOK
  <2> QED
    BY <1>1, <2>1 DEF AnnounceInv, Undisturbed
<1>8. CASE \/ \E w \in Requests: HandleRequest(w)
           \/ \E m \in Deliveries: HandleOutcome(m)
           \/ \E w \in Sweeps: FindExpired(w) \/ NextExpired(w)
  <2>1. /\ UNCHANGED <<row, creq, crashes>>
        /\ \A w \in Workers: pc[w] \in {"saved", "unlocked"} => pc'[w] = pc[w] /\ call'[w] = call[w]
    BY <1>8 DEF HandleRequest, HandleOutcome, FindExpired, NextExpired, Load, AnnounceInv, TypeInv, TypeOK
  <2> QED
    BY <1>1, <2>1, AnnounceQuiet DEF Undisturbed
<1>9. CASE \E w \in Workers: ReleaseLock(w) \/ SaveFails(w) \/ PublishThrows(w)
  <2>1. UNCHANGED <<row, crashes>>
    BY <1>9 DEF ReleaseLock, SaveFails, PublishThrows
  <2>2. Undisturbed => creq' = creq /\ \A v \in Workers: pc[v] \in {"saved", "unlocked"} =>
          pc'[v] \in {"saved", "unlocked"} /\ call'[v] = call[v]
    BY <1>9 DEF ReleaseLock, SaveFails, PublishThrows, Abort, Undisturbed, AnnounceInv, TypeInv, TypeOK
  <2> QED
    BY <1>1, <2>1, <2>2, AnnounceQuiet DEF Undisturbed
<1> QED
  BY <1>2, <1>3, <1>4, <1>5, <1>6, <1>7, <1>8, <1>9 DEF Next, ServiceNext, Work

\* While no publish throws and no process dies, no status a row ever shows is
\* kept from the other services, whichever handler has saved over which.
THEOREM EveryStatusAnnounced == Spec => []StatusAnnounced
<1>1. AnnounceInv => StatusAnnounced
  BY DEF AnnounceInv, StatusAnnounced, Undisturbed, Heard, AnnouncerOf
<1> QED
  BY <1>1, AnnounceInit, AnnounceStep, PTL DEF Spec

-----------------------------------------------------------------------------
(* The service implements SlotHold. LockInv leaves a slot at most one      *)
(* claimant, so the holder of the abstract specification is well defined:  *)
(* the conflict check takes the slot, every other step leaves the          *)
(* claimants alone or takes some of them away.                             *)

Claims(b) == creq[b] = "checked" \/ row[b].status = "pending"

HolderOf(k) == IF Claimants(k) = {} THEN NoOne ELSE CHOOSE b \in Claimants(k): TRUE

\* There is one claimant, and it is the holder.
HolderDefined ==
  \A k \in Keys:
    /\ HolderOf(k) \in Bookings \cup {NoOne}
    /\ \A b \in Bookings: HolderOf(k) = b <=> b \in Claimants(k)

LEMMA LoneClaimant == LockInv => HolderDefined
<1> SUFFICES ASSUME LockInv, NEW k \in Keys
             PROVE  /\ HolderOf(k) \in Bookings \cup {NoOne}
                    /\ \A b \in Bookings: HolderOf(k) = b <=> b \in Claimants(k)
  BY DEF HolderDefined
<1>1. \A b, c \in Claimants(k): b = c
  BY DEF Claimants, LockInv, InFlightHoldsLock, InFlight, CheckedAlone, OnePendingPerSlot
<1>2. CASE Claimants(k) = {}
  BY <1>2, NamesDiffer DEF HolderOf
<1>3. CASE Claimants(k) # {}
  <2>1. HolderOf(k) \in Claimants(k)
    BY <1>3 DEF HolderOf
  <2> QED
    BY <1>1, <2>1 DEF Claimants
<1> QED
  BY <1>2, <1>3

\* What the abstract specification sees.
Holders == [k \in Keys |-> HolderOf(k)]

\* Steps after which nobody claims a slot who did not before.
LEMMA ClaimsEnd ==
  ASSUME HolderDefined, HolderDefined', slot' = slot,
         \A b \in Bookings: Claims(b)' => Claims(b)
  PROVE  Hold!GiveUp
<1>1. ASSUME NEW k \in Keys
      PROVE  HolderOf(k)' \in {NoOne, HolderOf(k)}
  <2>1. \A b \in Bookings: b \in Claimants(k)' => b \in Claimants(k)
    BY DEF Claimants, Claims, Key
  <2>2. CASE HolderOf(k)' \in Bookings
    BY <2>1, <2>2 DEF HolderDefined
  <2> QED
    BY <2>2 DEF HolderDefined
<1> DEFINE gone == {k \in Keys: HolderOf(k) # NoOne /\ HolderOf(k)' = NoOne}
<1>2. gone \in SUBSET Keys /\ \A k \in gone: Holders[k] # NoOne
  BY DEF Holders
<1>3. Holders' = [k \in Keys |-> IF k \in gone THEN NoOne ELSE Holders[k]]
  BY <1>1 DEF Holders, Keys
<1> HIDE DEF gone
<1> QED
  BY <1>2, <1>3 DEF Hold!GiveUp, Holders, HolderOf

\* The conflict check of a create that finds nobody takes the slot.
LEMMA CheckTakes ==
  ASSUME LockInv, LockInv', NEW b \in Bookings, CheckConflict(b), Conflicts(b) = {}
  PROVE  Hold!Take(Key(b))
<1> USE DEF LockInv
<1>1. HolderDefined /\ HolderDefined'
  <2>1. LockInv' => HolderDefined'
    BY LoneClaimant, PTL
  <2> QED
    BY <2>1, LoneClaimant
<1>2. PICK key \in Keys: key = Key(b)
  BY KeyInKeys
<1>3. /\ slot' = slot /\ row' = row /\ creq[b] = "locked" /\ creq'[b] = "checked"
      /\ \A c \in Bookings \ {b}: creq'[c] = creq[c]
  BY DEF CheckConflict, TypeOK
<1>4. \A c \in Bookings: Key(c)' = Key(c)
  BY <1>3 DEF Key
<1>5. Claimants(key) = {}
  <2> SUFFICES ASSUME NEW c \in Bookings, Key(c) = Key(b),
                      creq[c] = "checked" \/ row[c].status = "pending"
               PROVE  FALSE
    BY <1>2 DEF Claimants
  <2>1. CASE creq[c] = "checked"
    BY <1>3, <2>1 DEF InFlightHoldsLock, InFlight
  <2>2. CASE row[c].status = "pending"
    <3>1. Overlaps(slot[c], slot[b])
      BY SameKeyOverlaps DEF Key, TypeOK
    <3> QED
      BY <2>2, <3>1 DEF Conflicts, Active
  <2> QED
    BY <2>1, <2>2
<1>6. HolderOf(key) = NoOne
  BY <1>5 DEF HolderOf
<1>7. ASSUME NEW k \in Keys, k # key
      PROVE  HolderOf(k)' = HolderOf(k)
  <2>1. \A c \in Bookings: c \in Claimants(k)' <=> c \in Claimants(k)
    BY <1>2, <1>3, <1>4, <1>7 DEF Claimants
  <2> QED
    BY <1>1, <2>1, NamesDiffer DEF HolderDefined
<1>8. HolderOf(key)' = b
  <2>1. b \in Claimants(key)'
    BY <1>2, <1>3, <1>4 DEF Claimants
  <2> QED
    BY <1>1, <2>1 DEF HolderDefined, Keys
<1>9. Holders' = [Holders EXCEPT ![key] = b]
  BY <1>7, <1>8 DEF Holders, Keys
<1>10. Hold!Take(key)
  BY <1>6, <1>9 DEF Hold!Take, Holders, HolderOf
<1> QED
  BY <1>2, <1>10

\* No step but a conflict check makes a claim.
LEMMA NoOtherClaims ==
  ASSUME LockInv, [Next]_vars, ~\E b \in Bookings: CheckConflict(b) /\ Conflicts(b) = {}
  PROVE  slot' = slot /\ \A b \in Bookings: Claims(b)' => Claims(b)
<1> USE DEF LockInv
<1>1. CASE UNCHANGED vars \/ Rest
  BY <1>1 DEF Rest, vars, Claims
<1>2. CASE \E b \in Bookings: Create(b)
  BY <1>2 DEF Claims, TypeOK, Create, RejectCreate, AcquireLock, LockTaken, LockStranded, CheckConflict, Insert,
         TransactionFails, PublishPending, PublishPendingThrows, ReleaseAfterFailure
<1>3. CASE \E w \in Workers: Save(w)
  <2>1. PICK w \in Workers: Save(w)
    BY <1>3
  <2>2. call[w] \in Calls
    BY <2>1 DEF Save, CallsLoaded, Busy
  <2>3. Assigned(call[w].op, call[w].entity).status # "pending"
    BY <2>2, AssignedRow DEF Calls
  <2> QED
    BY <2>1, <2>2, <2>3 DEF Save, Claims, TypeOK, Calls
<1>4. CASE \/ \E w \in Workers: SaveFails(w) \/ ReleaseLock(w) \/ Publish(w) \/ PublishThrows(w)
           \/ \E k \in Keys: LockExpires(k)
           \/ \E m \in Deliveries: PaymentOutcome(m)
           \/ Crash
  BY <1>4 DEF SaveFails, ReleaseLock, Publish, PublishThrows, Abort, Die, LockExpires, PaymentOutcome,
     Crash, Claims, TypeOK
<1>5. CASE \/ \E w \in Requests: HandleRequest(w)
           \/ \E m \in Deliveries: HandleOutcome(m)
           \/ \E w \in Sweeps: FindExpired(w) \/ NextExpired(w)
  BY <1>5 DEF HandleRequest, HandleOutcome, FindExpired, NextExpired, Claims
<1>6. CASE \E b \in Bookings: DeadlinePasses(b)
  BY <1>6 DEF DeadlinePasses, Claims, TypeOK
<1> QED
  BY <1>1, <1>2, <1>3, <1>4, <1>5, <1>6 DEF Next, ServiceNext, Work

\* Every step maps to a step of SlotHold: GiveUp with no slot given up is the
\* stutter.
LEMMA HoldStep == LockInv /\ LockInv' /\ [Next]_vars => Hold!Next
<1> SUFFICES ASSUME LockInv, LockInv', [Next]_vars PROVE Hold!Next
  OBVIOUS
<1>1. HolderDefined /\ HolderDefined'
  <2>1. LockInv' => HolderDefined'
    BY LoneClaimant, PTL
  <2> QED
    BY <2>1, LoneClaimant
<1>2. CASE \E b \in Bookings: CheckConflict(b) /\ Conflicts(b) = {}
  BY <1>2, CheckTakes, KeyInKeys DEF Hold!Next, LockInv
<1>3. CASE ~\E b \in Bookings: CheckConflict(b) /\ Conflicts(b) = {}
  BY <1>1, <1>3, NoOtherClaims, ClaimsEnd DEF Hold!Next
<1> QED
  BY <1>2, <1>3

LEMMA HoldInit == Init => Hold!Init
<1> SUFFICES ASSUME Init PROVE Hold!Init
  OBVIOUS
<1>1. ASSUME NEW k \in Keys PROVE Claimants(k) = {}
  BY DEF Init, Claimants, NoRow
<1> QED
  BY <1>1 DEF Hold!Init

\* As long as a create is faster than its TTL, the service implements the
\* abstract slot: nobody takes a slot that somebody holds, though the lock in
\* Redis and the row in Postgres come and go at different times.
THEOREM ImplementsHold ==
  ASSUME "slow" \notin Faults
  PROVE  Spec => HoldSpec
<1>1. Spec => []LockInv
  BY LockInit, LockStep, PTL DEF Spec
<1> QED
  BY <1>1, HoldInit, HoldStep, PTL DEF Spec, HoldSpec, Hold!Spec
=============================================================================
