----------------------------- MODULE Storefront ------------------------------
(***************************************************************************)
(* How a salon gets before its customers: the review, the catalogue and    *)
(* the search service, joined by the exchange only. The bookings that are  *)
(* completed and the decisions of the admin come from outside.             *)
(***************************************************************************)
EXTENDS Naturals, FiniteSets

CONSTANTS
  Salons, OwnerCalls, Visits, SalonOf, Stars, Reviewers,
  AdminCalls,   \* calls of setSalonStatus, each made once
  Decisions,    \* the statuses the admin may decide on
  ReviewFaults, CatalogueFaults, SearchFaults,
  MaxReviewCrashes, MaxCatalogueCrashes, MaxSearchCrashes

ASSUME VisitsAreOfSalons == SalonOf \in [Visits -> Salons] /\ Stars \in [Visits -> 1..5]

ASSUME PublishersDiffer ==
  /\ OwnerCalls \cap Reviewers = {}
  /\ AdminCalls \cap (OwnerCalls \cup Reviewers) = {}

ASSUME DecisionsKnown == Decisions \subseteq {"pending", "active", "suspended"}

ASSUME StorefrontFaultsKnown ==
  /\ ReviewFaults \cup CatalogueFaults \subseteq {"crash", "bus", "db"}
  /\ SearchFaults \subseteq {"crash", "db"}
  /\ MaxReviewCrashes \in Nat /\ MaxCatalogueCrashes \in Nat /\ MaxSearchCrashes \in Nat

VARIABLES
  elig, reviews, rpc, rcall, registered, unregistered, reviewCrashes,
  salon, asked, jobs, synced, unsynced, catalogueCrashes,
  index, indexed, unindexed, searchCrashes,
  bus

R == INSTANCE Reviews
C == INSTANCE Catalogue
S == INSTANCE Search

reviewVars == <<elig, reviews, rpc, rcall, registered, unregistered, reviewCrashes>>
catalogueVars == <<salon, asked, jobs, synced, unsynced, catalogueCrashes>>
searchVars == <<index, indexed, unindexed, searchCrashes>>
storefrontVars == <<reviewVars, catalogueVars, searchVars, bus>>

StorefrontInit == R!ReviewsInit /\ C!CatalogueInit /\ S!SearchInit /\ bus = {}

\* The booking service completes a booking, of a salon that exists.
VisitCompleted(v) ==
  /\ salon[SalonOf[v]] # C!NoSalon
  /\ R!CompletedEvent(v) \notin bus
  /\ bus' = bus \cup {R!CompletedEvent(v)}

\* setSalonStatus publishes whatever id and status it is given.
SetSalonStatus(a) ==
  /\ \A e \in bus: e.by # a
  /\ \E s \in Salons, d \in Decisions:
       bus' = bus \cup {[rk |-> "admin.salon.status", salon |-> s, status |-> d, by |-> a]}

StorefrontNext ==
  \/ R!ReviewsNext /\ UNCHANGED <<catalogueVars, searchVars>>
  \/ C!CatalogueNext /\ UNCHANGED <<reviewVars, searchVars>>
  \/ S!SearchNext /\ UNCHANGED <<reviewVars, catalogueVars>>
  \/ /\ (\E v \in Visits: VisitCompleted(v)) \/ (\E a \in AdminCalls: SetSalonStatus(a))
     /\ UNCHANGED <<reviewVars, catalogueVars, searchVars>>

StorefrontSpec ==
  /\ StorefrontInit
  /\ [][StorefrontNext]_storefrontVars
  /\ R!ReviewsFairness /\ C!CatalogueFairness /\ S!SearchFairness

-----------------------------------------------------------------------------
(* Properties.                                                             *)

\* The state of the three services stays in its types.
StorefrontTypeOK == R!ReviewsTypeOK /\ C!CatalogueTypeOK /\ S!SearchTypeOK

\* What the services promise, where they run side by side (see there): calls
\* of create that race write one review of a visit;
OneReviewPerVisit == R!OneReviewPerVisit
\* a rating announced is that of reviews that exist;
RatingsAreOfReviews == R!RatingsAreOfReviews
\* a completed visit becomes reviewable, unless its message is dead-lettered;
VisitsReviewable == R!VisitsReviewable
\* a service announced stays on offer, whatever stale copies are saved;
ServicesKept == C!ServicesKept
\* and only the save of an admin's decision changes a salon's status.
StatusIsDecided == C!StatusIsDecided

\* Nothing is counted that was not written: the catalogue, and the index
\* behind it, never show more reviews than there are.
CountsAreBacked ==
  \A s \in Salons: /\ salon[s].count <= Cardinality(R!SalonReviews(s))
                   /\ index[s].count <= Cardinality(R!SalonReviews(s))

\* A rating that was announced is shown to those who search, until the next
\* snapshot replaces it, or a message about it was dead-lettered.
RatingsShown ==
  \A w \in Reviewers: <>(rpc[w] = "announced") =>
    <>(\E e \in bus: /\ e.rk = "salon.rating.updated" /\ e.by = w
                     /\ \/ index[e.salon].count = e.rating.count
                        \/ e \in unsynced
                        \/ \E u \in unindexed: u.by = w)

\* Every call is answered and every message acknowledged.
Quiet ==
  /\ \A w \in Reviewers: rpc[w] \in {"idle", "announced", "refused", "broken"}
  /\ jobs = {}
  /\ \A e \in bus: /\ e.rk \in C!SyncKeys => e \in synced
                   /\ e.rk = "salon.upserted" => e \in indexed

\* What salon-index.schema.ts says of the read model, "kept in sync from
\* `salon.upserted` domain events": once all is quiet, it shows the catalogue.
IndexInSync == Quiet => index = salon
=============================================================================
