------------------------------ MODULE Catalogue ------------------------------
(***************************************************************************)
(* The catalogue service (salons.service.ts). Its handlers share a shape:  *)
(* find the salon, assign to the document in memory, save, and announce    *)
(* the document in memory as a snapshot. mongoose saves the paths that     *)
(* differ from what was loaded, and of an array the elements pushed.       *)
(***************************************************************************)
EXTENDS Naturals, FiniteSets

CONSTANTS
  Salons,             \* ids of the salons that may be created
  OwnerCalls,         \* HTTP calls of create and addService, each made once
  CatalogueFaults,    \* which faults may happen: "crash", "bus", "db"
  MaxCatalogueCrashes \* bound on crashes and on emits that throw

VARIABLES
  salon,     \* salon[s]: the document of salon s
  asked,     \* the HTTP calls made
  jobs,      \* the handler runs in progress
  synced,    \* the messages acknowledged
  unsynced,  \* the messages dead-lettered
  bus,       \* the exchange, shared with the other services
  catalogueCrashes \* how often the service has died

catalogueVars == <<salon, asked, jobs, synced, unsynced, catalogueCrashes>>

-----------------------------------------------------------------------------

Statuses == {"pending", "active", "suspended"}

\* A service offered by a salon is named by the call that has added it.
Documents == [status: Statuses \cup {"none"}, avg: 0..50, count: Nat,
              services: SUBSET OwnerCalls]

NoSalon == [status |-> "none", avg |-> 0, count |-> 0, services |-> {}]

\* The messages of queue catalogue.sync.
SyncKeys == {"salon.rating.updated", "admin.salon.status"}
Waiting(e) == e \in bus \ (synced \cup unsynced) /\ e.rk \in SyncKeys /\ \A j \in jobs: j.work # e

\* Variation: the catalogue counts the ratings it is told of.
Edited_Counts(work, d) ==
  CASE work.rk = "salon.rating.updated" ->
         [d EXCEPT !.avg = work.rating.avg, !.count = @ + 1]
    [] work.rk = "admin.salon.status" -> [d EXCEPT !.status = work.status]
    [] work.rk = "addService"         -> [d EXCEPT !.services = @ \cup {work.by}]

\* What a handler assigns to the document it has loaded.
Edited(work, d) ==
  CASE work.rk = "salon.rating.updated" ->
         [d EXCEPT !.avg = work.rating.avg, !.count = work.rating.count]
    [] work.rk = "admin.salon.status" -> [d EXCEPT !.status = work.status]
    [] work.rk = "addService"         -> [d EXCEPT !.services = @ \cup {work.by}]

Upserted(j) ==
  [rk |-> "salon.upserted", salon |-> j.work.salon, snapshot |-> j.copy, by |-> j.work.by]

CatalogueInit ==
  /\ salon = [s \in Salons |-> NoSalon]
  /\ asked = {}
  /\ jobs = {}
  /\ synced = {}
  /\ unsynced = {}
  /\ catalogueCrashes = 0

-----------------------------------------------------------------------------
(* The handlers.                                                           *)

Begin(work, step, loaded, copy) ==
  jobs' = jobs \cup {[work |-> work, step |-> step, loaded |-> loaded, copy |-> copy]}

\* create inserts a salon that is active at once.
CreateSalon(c) ==
  /\ c \notin asked
  /\ asked' = asked \cup {c}
  /\ \E s \in Salons:
       LET new == [NoSalon EXCEPT !.status = "active"] IN
       /\ salon[s] = NoSalon
       /\ salon' = [salon EXCEPT ![s] = new]
       /\ Begin([rk |-> "create", salon |-> s, by |-> c], "saved", new, new)
  /\ UNCHANGED <<synced, unsynced, bus, catalogueCrashes>>

\* addService finds the salon of its owner; without one it is refused.
AddService(c) ==
  /\ c \notin asked
  /\ asked' = asked \cup {c}
  /\ \E s \in Salons:
       LET work == [rk |-> "addService", salon |-> s, by |-> c] IN
       /\ salon[s] # NoSalon
       /\ Begin(work, "edited", salon[s], Edited(work, salon[s]))
  /\ UNCHANGED <<salon, synced, unsynced, bus, catalogueCrashes>>

\* A rating or the decision of an admin; a salon not found is acknowledged.
Sync(e) ==
  /\ Waiting(e)
  /\ IF salon[e.salon] = NoSalon
       THEN synced' = synced \cup {e} /\ UNCHANGED jobs
       ELSE Begin(e, "edited", salon[e.salon], Edited(e, salon[e.salon])) /\ UNCHANGED synced
  /\ UNCHANGED <<salon, asked, unsynced, bus, catalogueCrashes>>

\* Variation: the document in memory replaces the stored one.
Saved_Whole(d, j) == j.copy

\* Variation: the array of services is written as a whole.
Saved_WholeArray(d, j) ==
  [status   |-> IF j.copy.status # j.loaded.status THEN j.copy.status ELSE d.status,
   avg      |-> IF j.copy.avg # j.loaded.avg THEN j.copy.avg ELSE d.avg,
   count    |-> IF j.copy.count # j.loaded.count THEN j.copy.count ELSE d.count,
   services |-> j.copy.services]

\* save: the fields that were changed, and the services pushed.
Saved(d, j) ==
  [status   |-> IF j.copy.status # j.loaded.status THEN j.copy.status ELSE d.status,
   avg      |-> IF j.copy.avg # j.loaded.avg THEN j.copy.avg ELSE d.avg,
   count    |-> IF j.copy.count # j.loaded.count THEN j.copy.count ELSE d.count,
   services |-> d.services \cup (j.copy.services \ j.loaded.services)]

SaveSalon(j) ==
  /\ j.step = "edited"
  /\ salon' = [salon EXCEPT ![j.work.salon] = Saved(@, j)]
  /\ jobs' = (jobs \ {j}) \cup {[j EXCEPT !.step = "saved"]}
  /\ UNCHANGED <<asked, synced, unsynced, bus, catalogueCrashes>>

Settled(j) == IF j.work.rk \in SyncKeys THEN synced' = synced \cup {j.work} ELSE UNCHANGED synced

\* Variation: only what an owner or an admin has done is announced.
EmitUpserted_NotRatings(j) ==
  /\ j.step = "saved"
  /\ bus' = IF j.work.rk = "salon.rating.updated" THEN bus ELSE bus \cup {Upserted(j)}
  /\ jobs' = jobs \ {j}
  /\ Settled(j)
  /\ UNCHANGED <<salon, asked, unsynced, catalogueCrashes>>

\* The snapshot is the document in memory, not the one stored.
EmitUpserted(j) ==
  /\ j.step = "saved"
  /\ bus' = bus \cup {Upserted(j)}
  /\ jobs' = jobs \ {j}
  /\ Settled(j)
  /\ UNCHANGED <<salon, asked, unsynced, catalogueCrashes>>

\* MongoDB refuses to save: a call is answered 500, a message dead-lettered.
SaveSalonFails(j) ==
  /\ "db" \in CatalogueFaults
  /\ j.step = "edited"
  /\ jobs' = jobs \ {j}
  /\ unsynced' = IF j.work.rk \in SyncKeys THEN unsynced \cup {j.work} ELSE unsynced
  /\ UNCHANGED <<salon, asked, synced, bus, catalogueCrashes>>

\* The process dies; what was not acknowledged is delivered again.
CatalogueDies ==
  /\ catalogueCrashes < MaxCatalogueCrashes
  /\ catalogueCrashes' = catalogueCrashes + 1
  /\ jobs' = {}
  /\ UNCHANGED <<salon, asked, synced, unsynced, bus>>

\* The channel is closed: a call is answered 500; in the consumer the nack
\* throws as well, a rejection nobody handles, and Node ends the process.
EmitThrows(j) ==
  /\ "bus" \in CatalogueFaults
  /\ j.step = "saved"
  /\ IF j.work.rk \in SyncKeys THEN CatalogueDies
     ELSE jobs' = jobs \ {j} /\ UNCHANGED <<salon, asked, synced, unsynced, bus, catalogueCrashes>>

CatalogueCrash == "crash" \in CatalogueFaults /\ CatalogueDies

CatalogueNext ==
  \/ \E c \in OwnerCalls: CreateSalon(c) \/ AddService(c)
  \/ \E e \in bus: Sync(e)
  \/ \E j \in jobs: SaveSalon(j) \/ EmitUpserted(j) \/ SaveSalonFails(j) \/ EmitThrows(j)
  \/ CatalogueCrash

\* Runs go on and messages are delivered; owners need not call.
CatalogueFairness ==
  WF_<<catalogueVars, bus>>((\E e \in bus: Sync(e))
                            \/ \E j \in jobs: SaveSalon(j) \/ EmitUpserted(j))

-----------------------------------------------------------------------------
(* Properties.                                                             *)

\* The state stays in its types.
CatalogueTypeOK ==
  /\ salon \in [Salons -> Documents]
  /\ asked \subseteq OwnerCalls
  /\ \A j \in jobs: /\ j.work.salon \in Salons
                    /\ j.step \in {"edited", "saved"}
                    /\ j.loaded \in Documents /\ j.copy \in Documents
  /\ synced \cup unsynced \subseteq bus
  /\ catalogueCrashes \in 0..MaxCatalogueCrashes

\* No update is lost: every service a snapshot has announced is still offered
\* by the salon, whatever else was loaded before and saved after it.
ServicesKept ==
  \A e \in bus: e.rk = "salon.upserted" => e.snapshot.services \subseteq salon[e.salon].services

\* The status of a salon changes only by the save of a handler that was told
\* so by an admin, to what the admin has said: a rating saved late, from a
\* document loaded before, does not bring a suspended salon back.
StatusIsDecided ==
  [][\A s \in Salons: salon[s] # NoSalon /\ salon'[s].status # salon[s].status =>
       \E e \in bus: /\ e.rk = "admin.salon.status" /\ e.salon = s
                     /\ e.status = salon'[s].status
                     /\ e \notin synced]_salon
=============================================================================
