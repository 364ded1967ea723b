-------------------------- MODULE StorefrontProofs ---------------------------
(***************************************************************************)
(* Theorems about Storefront for any number of salons, visits and calls,   *)
(* and whatever faults there are.                                          *)
(***************************************************************************)
EXTENDS Storefront, FiniteSums

-----------------------------------------------------------------------------
(* Reviews.                                                                *)

\* The calls of create that have written a review.
Writers == {w \in Reviewers: rpc[w] \notin {"idle", "eligible", "refused"}}

Completed(v) == R!CompletedEvent(v) \in bus

\* What the updates below need the state to be.
ReviewShape ==
  /\ elig \in [Visits -> {"none", "open", "used"}]
  /\ DOMAIN rpc = Reviewers
  /\ DOMAIN rcall = Reviewers
  /\ \A w \in Reviewers: DOMAIN rcall[w] = {"visit", "rating"}

\* Only the booking service says that a booking is completed.
CompletedAreVisits ==
  \A e \in bus: e.rk = "booking.completed" => \E v \in Visits: e = R!CompletedEvent(v)

\* A visit is found eligible only after it was completed.
EligibleAreCompleted ==
  /\ \A v \in Visits: elig[v] # "none" => Completed(v)
  /\ \A v \in reviews: Completed(v)
  /\ \A w \in Reviewers: rpc[w] = "eligible" => rcall[w].visit \in Visits /\ Completed(rcall[w].visit)

\* A call that has written a review has the visit to itself.
WritersApart ==
  /\ \A w \in Writers: rcall[w].visit \in reviews
  /\ \A w, x \in Writers: w # x => rcall[w].visit # rcall[x].visit

UsedAreReviewed == \A v \in Visits: elig[v] = "used" => v \in reviews

ReviewInv ==
  /\ ReviewShape
  /\ CompletedAreVisits
  /\ EligibleAreCompleted
  /\ WritersApart
  /\ UsedAreReviewed

\* The invariant says all that the property does.
LEMMA ReviewInvImplies == ReviewInv => OneReviewPerVisit
BY DEF ReviewInv, OneReviewPerVisit, R!OneReviewPerVisit, WritersApart, Writers, UsedAreReviewed,
       EligibleAreCompleted, Completed

\* It starts true: nobody has called and nothing is on the exchange.
LEMMA ReviewInvInit == StorefrontInit => ReviewInv
BY DEF StorefrontInit, R!ReviewsInit, ReviewInv, ReviewShape, CompletedAreVisits,
       EligibleAreCompleted, WritersApart, Writers, UsedAreReviewed, Completed

\* Where reviews change nothing, and no completion is announced but that of a
\* visit, the invariant stays.
LEMMA ReviewFrame ==
  ASSUME ReviewInv, UNCHANGED reviewVars, bus \subseteq bus', CompletedAreVisits'
  PROVE  ReviewInv'
BY DEF ReviewInv, ReviewShape, EligibleAreCompleted, WritersApart, Writers, UsedAreReviewed,
       Completed, reviewVars, R!CompletedEvent

\* An eligibility is only opened, and only for a visit that was completed.
LEMMA EligibleOpens ==
  ASSUME NEW V, elig \in [Visits -> {"none", "open", "used"}]
  PROVE  /\ R!Eligible(V) \in [Visits -> {"none", "open", "used"}]
         /\ \A v \in Visits: /\ R!Eligible(V)[v] # elig[v] => v \in V
                             /\ R!Eligible(V)[v] = "used" <=> elig[v] = "used"
BY DEF R!Eligible

\* Steps that open the eligibility of visits completed, and change no review.
LEMMA OpeningKeeps ==
  ASSUME ReviewInv, NEW E \in SUBSET {e \in bus: R!Registrable(e)},
         elig' = R!Eligible({e.by : e \in E}),
         reviews' = reviews, rcall' = rcall, bus' = bus, DOMAIN rpc' = Reviewers,
         \A w \in Reviewers: rpc'[w] = "eligible" => rpc[w] = "eligible",
         Writers' = Writers
  PROVE  ReviewInv'
<1>1. \A v \in Visits: v \in {e.by : e \in E} => Completed(v)
  BY DEF ReviewInv, CompletedAreVisits, R!Registrable, R!CompletedEvent, Completed
<1>2. ReviewShape'
  BY EligibleOpens DEF ReviewInv, ReviewShape
<1>3. CompletedAreVisits'
  BY DEF ReviewInv, CompletedAreVisits, R!CompletedEvent
<1>4. EligibleAreCompleted'
  BY <1>1, EligibleOpens
  DEF ReviewInv, ReviewShape, EligibleAreCompleted, Completed, R!CompletedEvent
<1>5. WritersApart'
  BY DEF ReviewInv, WritersApart
<1>6. UsedAreReviewed'
  BY EligibleOpens DEF ReviewInv, ReviewShape, UsedAreReviewed
<1> QED
  BY <1>2, <1>3, <1>4, <1>5, <1>6 DEF ReviewInv
\* The steps of a call that change neither what is on record nor what is
\* eligible, and let no call write a review or be found eligible.
LEMMA CallKeeps ==
  ASSUME ReviewInv, UNCHANGED <<elig, reviews>>, bus \subseteq bus', CompletedAreVisits',
         ReviewShape', Writers' \subseteq Writers,
         \A w \in Reviewers: rcall'[w].visit = rcall[w].visit,
         \A w \in Reviewers: rpc'[w] = "eligible" => rpc[w] = "eligible"
  PROVE  ReviewInv'
BY DEF ReviewInv, EligibleAreCompleted, WritersApart, Writers, UsedAreReviewed, Completed,
       R!CompletedEvent

\* Every step of the review service keeps the invariant.
LEMMA ReviewStep ==
  ASSUME ReviewInv, R!ReviewsNext
  PROVE  ReviewInv'
<1>1. ASSUME NEW e \in bus, R!Register(e)
      PROVE  ReviewInv'
  <2>1. e \in {d \in bus: R!Registrable(d)} /\ {d.by : d \in {e}} = {e.by}
    BY <1>1 DEF R!Register
  <2>2. Writers' = Writers
    BY <1>1 DEF R!Register, Writers
  <2> QED
    BY <1>1, <2>1, <2>2, OpeningKeeps DEF R!Register, ReviewInv, ReviewShape
<1>2. ASSUME NEW e \in bus, R!RegisterFails(e)
      PROVE  ReviewInv'
  BY <1>2, CallKeeps
  DEF R!RegisterFails, ReviewInv, ReviewShape, CompletedAreVisits, R!CompletedEvent, Writers
<1>3. ASSUME NEW w \in Reviewers, R!Check(w)
      PROVE  ReviewInv'
  <2>1. PICK v \in Visits: elig[v] = "open" /\ rcall' = [rcall EXCEPT ![w].visit = v]
    BY <1>3 DEF R!Check
  <2>2. ReviewShape'
    BY <1>3, <2>1 DEF R!Check, ReviewInv, ReviewShape
  <2>3. rcall'[w].visit = v /\ \A x \in Reviewers \ {w}: rcall'[x] = rcall[x]
    BY <2>1 DEF ReviewInv, ReviewShape
  <2>4. w \notin Writers /\ Writers' = Writers
    BY <1>3 DEF R!Check, ReviewInv, ReviewShape, Writers
  <2>5. EligibleAreCompleted'
    BY <1>3, <2>1, <2>3
    DEF R!Check, ReviewInv, ReviewShape, EligibleAreCompleted, Completed, R!CompletedEvent
  <2>6. WritersApart'
    BY <1>3, <2>3, <2>4 DEF R!Check, ReviewInv, WritersApart, Writers
  <2>7. CompletedAreVisits' /\ UsedAreReviewed'
    BY <1>3 DEF R!Check, ReviewInv, CompletedAreVisits, UsedAreReviewed, R!CompletedEvent
  <2> QED
    BY <2>2, <2>5, <2>6, <2>7 DEF ReviewInv
<1>4. ASSUME NEW w \in Reviewers, R!InsertReview(w)
      PROVE  ReviewInv'
  <2>1. ReviewShape' /\ CompletedAreVisits'
    BY <1>4 DEF R!InsertReview, ReviewInv, ReviewShape, CompletedAreVisits, R!CompletedEvent
  <2>2. CASE rcall[w].visit \in reviews
    <3>1. Writers' = Writers
      BY <1>4, <2>2 DEF R!InsertReview, ReviewInv, ReviewShape, Writers
    <3> QED
      BY <1>4, <2>1, <2>2, <3>1, CallKeeps DEF R!InsertReview, ReviewInv, ReviewShape
  <2>3. CASE rcall[w].visit \notin reviews
    <3>1. /\ reviews' = reviews \cup {rcall[w].visit}
          /\ Writers' = Writers \cup {w}
          /\ UNCHANGED <<elig, rcall, bus>>
      BY <1>4, <2>3 DEF R!InsertReview, ReviewInv, ReviewShape, Writers
    <3>2. EligibleAreCompleted'
      BY <1>4, <3>1
      DEF R!InsertReview, ReviewInv, ReviewShape, EligibleAreCompleted, Completed,
          R!CompletedEvent
    <3>3. WritersApart'
      BY <2>3, <3>1 DEF ReviewInv, WritersApart
    <3>4. UsedAreReviewed'
      BY <3>1 DEF ReviewInv, UsedAreReviewed
    <3> QED
      BY <2>1, <3>2, <3>3, <3>4 DEF ReviewInv
  <2> QED
    BY <2>2, <2>3
<1>5. ASSUME NEW w \in Reviewers, R!MarkUsed(w)
      PROVE  ReviewInv'
  <2>1. w \in Writers /\ Writers' = Writers
    BY <1>5 DEF R!MarkUsed, ReviewInv, ReviewShape, Writers
  <2>2. rcall[w].visit \in reviews /\ Completed(rcall[w].visit)
    BY <2>1 DEF ReviewInv, WritersApart, EligibleAreCompleted
  <2>3. ReviewShape' /\ CompletedAreVisits'
    BY <1>5 DEF R!MarkUsed, ReviewInv, ReviewShape, CompletedAreVisits, R!CompletedEvent
  <2>4. EligibleAreCompleted'
    BY <1>5, <2>2
    DEF R!MarkUsed, ReviewInv, ReviewShape, EligibleAreCompleted, Completed, R!CompletedEvent
  <2>5. WritersApart' /\ UsedAreReviewed'
    BY <1>5, <2>1, <2>2
    DEF R!MarkUsed, ReviewInv, ReviewShape, WritersApart, UsedAreReviewed
  <2> QED
    BY <2>3, <2>4, <2>5 DEF ReviewInv
<1>6. ASSUME NEW w \in Reviewers, R!Aggregate(w)
      PROVE  ReviewInv'
  <2>1. ReviewShape' /\ CompletedAreVisits'
    BY <1>6 DEF R!Aggregate, ReviewInv, ReviewShape, CompletedAreVisits, R!CompletedEvent
  <2>2. Writers' = Writers /\ \A x \in Reviewers: rcall'[x].visit = rcall[x].visit
    BY <1>6 DEF R!Aggregate, ReviewInv, ReviewShape, Writers
  <2> QED
    BY <1>6, <2>1, <2>2, CallKeeps DEF R!Aggregate, ReviewInv, ReviewShape
<1>7. ASSUME NEW w \in Reviewers, R!PublishRating(w)
      PROVE  ReviewInv'
  <2>1. ReviewShape' /\ CompletedAreVisits'
    BY <1>7
    DEF R!PublishRating, R!RatingEvent, ReviewInv, ReviewShape, CompletedAreVisits,
        R!CompletedEvent
  <2>2. Writers' = Writers
    BY <1>7 DEF R!PublishRating, ReviewInv, ReviewShape, Writers
  <2> QED
    BY <1>7, <2>1, <2>2, CallKeeps DEF R!PublishRating, ReviewInv, ReviewShape
<1>8. ASSUME NEW w \in Reviewers, R!CreateThrows(w)
      PROVE  ReviewInv'
  <2>1. ReviewShape' /\ CompletedAreVisits'
    BY <1>8 DEF R!CreateThrows, ReviewInv, ReviewShape, CompletedAreVisits, R!CompletedEvent
  <2>2. Writers' = Writers
    BY <1>8 DEF R!CreateThrows, ReviewInv, ReviewShape, Writers
  <2> QED
    BY <1>8, <2>1, <2>2, CallKeeps DEF R!CreateThrows, ReviewInv, ReviewShape
<1>9. ASSUME R!ReviewsCrash
      PROVE  ReviewInv'
  <2>1. PICK E \in SUBSET {e \in bus: R!Registrable(e)}: elig' = R!Eligible({e.by : e \in E})
    BY <1>9 DEF R!ReviewsCrash
  <2>2. Writers' = Writers
    BY <1>9 DEF R!ReviewsCrash, Writers
  <2> QED
    BY <1>9, <2>1, <2>2, OpeningKeeps DEF R!ReviewsCrash
<1> QED
  BY <1>1, <1>2, <1>3, <1>4, <1>5, <1>6, <1>7, <1>8, <1>9 DEF R!ReviewsNext, R!Proceed

\* So does every step of the storefront: the other services and the world
\* announce, and touch no review.
LEMMA StorefrontStepKeepsReviews ==
  ASSUME ReviewInv, StorefrontNext
  PROVE  ReviewInv'
<1>1. CASE R!ReviewsNext
  BY <1>1, ReviewStep
<1>2. CASE C!CatalogueNext /\ UNCHANGED reviewVars
  <2>1. bus' = bus \/ \E j \in jobs: bus' = bus \cup {C!Upserted(j)}
    BY <1>2
    DEF C!CatalogueNext, C!CreateSalon, C!AddService, C!Sync, C!SaveSalon, C!EmitUpserted,
        C!SaveSalonFails, C!EmitThrows, C!CatalogueCrash, C!CatalogueDies
  <2>2. CompletedAreVisits'
    BY <2>1 DEF ReviewInv, CompletedAreVisits, C!Upserted, R!CompletedEvent
  <2> QED
    BY <1>2, <2>1, <2>2, ReviewFrame
<1>3. CASE S!SearchNext /\ UNCHANGED reviewVars
  <2>1. bus' = bus
    BY <1>3 DEF S!SearchNext, S!Upsert, S!UpsertFails, S!UpsertAndDie
  <2> QED
    BY <1>3, <2>1, ReviewFrame DEF ReviewInv, CompletedAreVisits, R!CompletedEvent
<1>4. CASE (\E v \in Visits: VisitCompleted(v)) /\ UNCHANGED reviewVars
  <2>1. PICK v \in Visits: bus' = bus \cup {R!CompletedEvent(v)}
    BY <1>4 DEF VisitCompleted
  <2> QED
    BY <1>4, <2>1, ReviewFrame DEF ReviewInv, CompletedAreVisits, R!CompletedEvent
<1>5. CASE (\E a \in AdminCalls: SetSalonStatus(a)) /\ UNCHANGED reviewVars
  <2>1. PICK a \in AdminCalls, s \in Salons, d \in Decisions:
          bus' = bus \cup {[rk |-> "admin.salon.status", salon |-> s, status |-> d, by |-> a]}
    BY <1>5 DEF SetSalonStatus
  <2> QED
    BY <1>5, <2>1, ReviewFrame DEF ReviewInv, CompletedAreVisits, R!CompletedEvent
<1> QED
  BY <1>1, <1>2, <1>3, <1>4, <1>5 DEF StorefrontNext

\* However calls of create race, crash or fail: no two write a review of the
\* same visit, and there is none of a visit that was not completed.
THEOREM ReviewedOnce == StorefrontSpec => []OneReviewPerVisit
<1>1. StorefrontInit => ReviewInv
  BY ReviewInvInit
<1>2. ReviewInv /\ [StorefrontNext]_storefrontVars => ReviewInv'
  <2> SUFFICES ASSUME ReviewInv, [StorefrontNext]_storefrontVars
               PROVE  ReviewInv'
    OBVIOUS
  <2>1. CASE UNCHANGED storefrontVars
    BY <2>1, ReviewFrame
    DEF storefrontVars, ReviewInv, CompletedAreVisits, R!CompletedEvent
  <2>2. CASE StorefrontNext
    BY <2>2, StorefrontStepKeepsReviews
  <2> QED
    BY <2>1, <2>2
<1>3. ReviewInv => OneReviewPerVisit
  BY ReviewInvImplies
<1> QED
  BY <1>1, <1>2, <1>3, PTL DEF StorefrontSpec
-----------------------------------------------------------------------------
(* The catalogue.                                                          *)

\* Every message is about a salon, and so is every handler run.
AboutSalons ==
  /\ DOMAIN salon = Salons
  /\ \A e \in bus: e.salon \in Salons
  /\ \A j \in jobs: DOMAIN j = {"work", "step", "loaded", "copy"} /\ j.work.salon \in Salons

\* What a run has loaded, and what it has saved, is still there: the stored
\* document has moved on, but only by services added.
RunsBehind ==
  \A j \in jobs:
    /\ j.step = "edited" => j.loaded.services \subseteq salon[j.work.salon].services
    /\ j.step = "saved" => j.copy.services \subseteq salon[j.work.salon].services

CatalogueInv ==
  /\ AboutSalons
  /\ RunsBehind
  /\ C!ServicesKept

ServicesGrow == \A s \in Salons: salon[s].services \subseteq salon'[s].services

LEMMA CatalogueInvInit == StorefrontInit => CatalogueInv
BY DEF StorefrontInit, C!CatalogueInit, CatalogueInv, AboutSalons, RunsBehind, C!ServicesKept

\* Steps that announce no snapshot, and start no run.
LEMMA CatalogueFrame ==
  ASSUME CatalogueInv, UNCHANGED salon, jobs' \subseteq jobs,
         \A e \in bus': e \in bus \/ (e.salon \in Salons /\ e.rk # "salon.upserted")
  PROVE  CatalogueInv'
BY DEF CatalogueInv, AboutSalons, RunsBehind, C!ServicesKept

\* Every step of the catalogue keeps the invariant.
LEMMA CatalogueStep ==
  ASSUME CatalogueInv, C!CatalogueNext
  PROVE  CatalogueInv'
<1>1. ASSUME NEW c \in OwnerCalls, C!CreateSalon(c)
      PROVE  CatalogueInv'
  <2> DEFINE new == [C!NoSalon EXCEPT !.status = "active"]
             job(s) == [work |-> [rk |-> "create", salon |-> s, by |-> c],
                        step |-> "saved", loaded |-> new, copy |-> new]
  <2>1. PICK s \in Salons: /\ salon[s] = C!NoSalon
                           /\ salon' = [salon EXCEPT ![s] = new]
                           /\ jobs' = jobs \cup {job(s)}
                           /\ bus' = bus
    BY <1>1 DEF C!CreateSalon, C!Begin
  <2>2. new.services = {} /\ C!NoSalon.services = {}
    BY DEF C!NoSalon
  <2>3. ServicesGrow /\ DOMAIN salon' = Salons
    BY <2>1, <2>2 DEF ServicesGrow, CatalogueInv, AboutSalons
  <2>4. AboutSalons'
    BY <2>1, <2>3 DEF CatalogueInv, AboutSalons
  <2>5. job(s).copy.services \subseteq salon'[s].services
    BY <2>2
  <2>6. RunsBehind'
    BY <2>1, <2>3, <2>5 DEF CatalogueInv, AboutSalons, RunsBehind, ServicesGrow
  <2>7. C!ServicesKept'
    BY <2>1, <2>3 DEF CatalogueInv, AboutSalons, C!ServicesKept, ServicesGrow
  <2> QED
    BY <2>4, <2>6, <2>7 DEF CatalogueInv
<1>2. ASSUME NEW work, NEW copy, work.salon \in Salons,
             C!Begin(work, "edited", salon[work.salon], copy), UNCHANGED <<salon, bus>>
      PROVE  CatalogueInv'
  BY <1>2 DEF C!Begin, CatalogueInv, AboutSalons, RunsBehind, C!ServicesKept
<1>3. ASSUME NEW c \in OwnerCalls, C!AddService(c)
      PROVE  CatalogueInv'
  BY <1>2, <1>3 DEF C!AddService
<1>4. ASSUME NEW e \in bus, C!Sync(e)
      PROVE  CatalogueInv'
  <2>1. CASE salon[e.salon] = C!NoSalon
    BY <1>4, <2>1, CatalogueFrame DEF C!Sync
  <2>2. CASE salon[e.salon] # C!NoSalon
    BY <1>2, <1>4, <2>2 DEF C!Sync, CatalogueInv, AboutSalons
  <2> QED
    BY <2>1, <2>2
<1>5. ASSUME NEW j \in jobs, C!SaveSalon(j)
      PROVE  CatalogueInv'
  <2> DEFINE s == j.work.salon
             saved == [j EXCEPT !.step = "saved"]
  <2>1. /\ j.step = "edited"
        /\ salon' = [salon EXCEPT ![s] = C!Saved(salon[s], j)]
        /\ jobs' = (jobs \ {j}) \cup {saved}
        /\ bus' = bus
    BY <1>5 DEF C!SaveSalon
  <2>2. C!Saved(salon[s], j).services =
          salon[s].services \cup (j.copy.services \ j.loaded.services)
    BY DEF C!Saved
  <2>3. s \in Salons /\ j.loaded.services \subseteq salon[s].services
    BY <2>1 DEF CatalogueInv, AboutSalons, RunsBehind
  <2>4. ServicesGrow /\ DOMAIN salon' = Salons
    BY <2>1, <2>2 DEF ServicesGrow, CatalogueInv, AboutSalons
  <2>5. j.copy.services \subseteq salon'[s].services
    BY <2>1, <2>2, <2>3 DEF CatalogueInv, AboutSalons
  <2>6. saved.work = j.work /\ saved.copy = j.copy /\ saved.step = "saved" /\ DOMAIN saved = DOMAIN j
    BY DEF CatalogueInv, AboutSalons
  <2>7. AboutSalons'
    BY <2>1, <2>4, <2>6 DEF CatalogueInv, AboutSalons
  <2>8. RunsBehind'
    BY <2>1, <2>4, <2>5, <2>6 DEF CatalogueInv, AboutSalons, RunsBehind, ServicesGrow
  <2>9. C!ServicesKept'
    BY <2>1, <2>4 DEF CatalogueInv, AboutSalons, C!ServicesKept, ServicesGrow
  <2> QED
    BY <2>7, <2>8, <2>9 DEF CatalogueInv
<1>6. ASSUME NEW j \in jobs, C!EmitUpserted(j)
      PROVE  CatalogueInv'
  <2>1. /\ j.step = "saved"
        /\ bus' = bus \cup {C!Upserted(j)}
        /\ jobs' \subseteq jobs
        /\ UNCHANGED salon
    BY <1>6 DEF C!EmitUpserted
  <2>2. /\ C!Upserted(j).salon \in Salons
        /\ C!Upserted(j).snapshot.services \subseteq salon[C!Upserted(j).salon].services
    BY <2>1 DEF CatalogueInv, AboutSalons, RunsBehind, C!Upserted
  <2> QED
    BY <2>1, <2>2 DEF CatalogueInv, AboutSalons, RunsBehind, C!ServicesKept
<1>7. ASSUME NEW j \in jobs, C!SaveSalonFails(j) \/ C!EmitThrows(j)
      PROVE  CatalogueInv'
  BY <1>7, CatalogueFrame
  DEF C!SaveSalonFails, C!EmitThrows, C!CatalogueDies, CatalogueInv, AboutSalons
<1>8. ASSUME C!CatalogueCrash
      PROVE  CatalogueInv'
  BY <1>8, CatalogueFrame DEF C!CatalogueCrash, C!CatalogueDies
<1> QED
  BY <1>1, <1>3, <1>4, <1>5, <1>6, <1>7, <1>8 DEF C!CatalogueNext

\* A call that has written a review is about a visit of some salon.
LEMMA WritersOfSalons ==
  ASSUME ReviewInv, NEW w \in Writers
  PROVE  SalonOf[rcall[w].visit] \in Salons
<1>1. Completed(rcall[w].visit)
  BY DEF ReviewInv, WritersApart, EligibleAreCompleted
<1>2. rcall[w].visit \in Visits
  BY <1>1 DEF ReviewInv, CompletedAreVisits, Completed, R!CompletedEvent
<1> QED
  BY <1>2, VisitsAreOfSalons

\* So does every step of the storefront: what the others announce is about
\* salons, and is no snapshot.
LEMMA StorefrontStepKeepsCatalogue ==
  ASSUME ReviewInv, CatalogueInv, StorefrontNext
  PROVE  CatalogueInv'
<1>1. CASE R!ReviewsNext /\ UNCHANGED catalogueVars
  <2>1. CASE \E w \in Reviewers: R!PublishRating(w)
    <3>1. PICK w \in Reviewers: R!PublishRating(w)
      BY <2>1
    <3>2. w \in Writers
      BY <3>1 DEF R!PublishRating, Writers
    <3>3. R!RatingEvent(w).salon \in Salons /\ R!RatingEvent(w).rk # "salon.upserted"
      BY <3>2, WritersOfSalons DEF R!RatingEvent
    <3> QED
      BY <1>1, <3>1, <3>3, CatalogueFrame DEF R!PublishRating, catalogueVars
  <2>2. CASE ~ \E w \in Reviewers: R!PublishRating(w)
    <3>1. bus' = bus
      BY <1>1, <2>2
      DEF R!ReviewsNext, R!Proceed, R!Register, R!RegisterFails, R!Check, R!InsertReview,
          R!MarkUsed, R!Aggregate, R!CreateThrows, R!ReviewsCrash
    <3> QED
      BY <1>1, <3>1, CatalogueFrame DEF catalogueVars, CatalogueInv, AboutSalons
  <2> QED
    BY <2>1, <2>2
<1>2. CASE C!CatalogueNext
  BY <1>2, CatalogueStep
<1>3. CASE S!SearchNext /\ UNCHANGED catalogueVars
  <2>1. bus' = bus
    BY <1>3 DEF S!SearchNext, S!Upsert, S!UpsertFails, S!UpsertAndDie
  <2> QED
    BY <1>3, <2>1, CatalogueFrame DEF catalogueVars
<1>4. CASE (\E v \in Visits: VisitCompleted(v)) /\ UNCHANGED catalogueVars
  <2>1. PICK v \in Visits: bus' = bus \cup {R!CompletedEvent(v)}
    BY <1>4 DEF VisitCompleted
  <2>2. R!CompletedEvent(v).salon \in Salons /\ R!CompletedEvent(v).rk # "salon.upserted"
    BY VisitsAreOfSalons DEF R!CompletedEvent
  <2> QED
    BY <1>4, <2>1, <2>2, CatalogueFrame DEF catalogueVars
<1>5. CASE (\E a \in AdminCalls: SetSalonStatus(a)) /\ UNCHANGED catalogueVars
  <2>1. PICK a \in AdminCalls, s \in Salons, d \in Decisions:
          bus' = bus \cup {[rk |-> "admin.salon.status", salon |-> s, status |-> d, by |-> a]}
    BY <1>5 DEF SetSalonStatus
  <2> QED
    BY <1>5, <2>1, CatalogueFrame DEF catalogueVars
<1> QED
  BY <1>1, <1>2, <1>3, <1>4, <1>5 DEF StorefrontNext

\* However handlers that have loaded a salon interleave, and whichever of
\* their saves and announcements fail: no service once announced is lost.
THEOREM ServicesSurvive == StorefrontSpec => []ServicesKept
<1>1. StorefrontInit => ReviewInv /\ CatalogueInv
  BY ReviewInvInit, CatalogueInvInit
<1>2. ReviewInv /\ CatalogueInv /\ [StorefrontNext]_storefrontVars
        => (ReviewInv /\ CatalogueInv)'
  <2> SUFFICES ASSUME ReviewInv, CatalogueInv, [StorefrontNext]_storefrontVars
               PROVE  (ReviewInv /\ CatalogueInv)'
    OBVIOUS
  <2>1. CASE UNCHANGED storefrontVars
    <3>1. ReviewInv'
      BY <2>1, ReviewFrame
      DEF storefrontVars, ReviewInv, CompletedAreVisits, R!CompletedEvent
    <3>2. CatalogueInv'
      BY <2>1, CatalogueFrame DEF storefrontVars, catalogueVars
    <3> QED
      BY <3>1, <3>2
  <2>2. CASE StorefrontNext
    BY <2>2, StorefrontStepKeepsReviews, StorefrontStepKeepsCatalogue
  <2> QED
    BY <2>1, <2>2
<1>3. CatalogueInv => ServicesKept
  BY DEF CatalogueInv, ServicesKept
<1> QED
  BY <1>1, <1>2, <1>3, PTL DEF StorefrontSpec

-----------------------------------------------------------------------------
(* Types. The reviews are finitely many, as each call writes one: ratings  *)
(* are averages of one to five stars.                                      *)

Ratings == [avg: 0..50, count: Nat]

\* What the messages carry.
MessagesTyped ==
  \A e \in bus:
    /\ e.salon \in Salons
    /\ e.rk = "salon.rating.updated" => e.rating \in Ratings
    /\ e.rk = "admin.salon.status" => e.status \in C!Statuses
    /\ e.rk = "salon.upserted" => e.snapshot \in C!Documents

\* A run of the consumer is of a message.
RunsOfMessages == \A j \in jobs: j.work.rk \in C!SyncKeys => j.work \in bus

TypeInv ==
  StorefrontTypeOK /\ index \in [Salons -> C!Documents] /\ IsFiniteSet(reviews) /\ MessagesTyped /\ RunsOfMessages

\* The stars of visits add up to five for each at most.
LEMMA StarsSum ==
  ASSUME NEW V \in SUBSET Visits, IsFiniteSet(V)
  PROVE  /\ R!MapThenSumSet(LAMBDA v: Stars[v], V) \in Nat
         /\ R!MapThenSumSet(LAMBDA v: Stars[v], V) <= 5 * Cardinality(V)
<1> DEFINE F == [v \in V |-> Stars[v]]
           P(h) == h = [U \in SUBSET V |-> IF U = {} THEN 0
                          ELSE Stars[CHOOSE v \in U: TRUE] + h[U \ {CHOOSE v \in U: TRUE}]]
<1>1. R!MapThenSumSet(LAMBDA v: Stars[v], V) = (CHOOSE h: P(h))[V]
  BY DEF R!MapThenSumSet, R!MapThenFoldSet
<1>2. F \in [V -> 1..5] /\ F \in [V -> Nat]
  BY VisitsAreOfSalons
<1>3. \A U \in SUBSET V: U # {} => F[Pick(U)] = Stars[CHOOSE v \in U: TRUE]
  BY DEF Pick
<1> HIDE DEF F
<1>4. \A h: Sums(V, F, h) <=> P(h)
  BY <1>3 DEF Sums, Pick
<1> HIDE DEF P
<1>5. P(CHOOSE h: P(h))
  BY <1>2, <1>4, SumsExist
<1> DEFINE g == CHOOSE h: P(h)
<1>6. Sums(V, F, g)
  BY <1>4, <1>5
<1> HIDE DEF g
<1>7. g \in [SUBSET V -> Nat]
  BY <1>2, <1>6, SumsType
<1>8. g[V] <= 5 * Cardinality(V)
  BY <1>2, <1>6, SumsBounded
<1> QED
  BY <1>1, <1>7, <1>8 DEF g

LEMMA Rounded ==
  ASSUME NEW s \in Nat, NEW n \in Nat, n # 0, s <= 5 * n
  PROVE  (20 * s + n) \div (2 * n) \in 0..50
OBVIOUS

LEMMA RatingTyped ==
  ASSUME NEW V \in SUBSET Visits, IsFiniteSet(V)
  PROVE  R!Rating(V) \in Ratings /\ R!Rating(V).count = Cardinality(V)
<1> DEFINE n == Cardinality(V)
           s == R!MapThenSumSet(LAMBDA v: Stars[v], V)
<1>1. n \in Nat /\ (n = 0 <=> V = {}) /\ s \in Nat /\ s <= 5 * n
  BY FS_CardinalityType, FS_EmptySet, StarsSum
<1>2. R!Rating(V) = IF V = {} THEN [avg |-> 0, count |-> 0] ELSE [avg |-> (20 * s + n) \div (2 * n), count |-> n]
  BY DEF R!Rating, R!NoRating, R!Cardinality, Cardinality
<1> HIDE DEF n, s
<1>3. CASE V = {}
  BY <1>1, <1>2, <1>3 DEF Ratings, n
<1>4. CASE V # {}
  <2>1. (20 * s + n) \div (2 * n) \in 0..50
    BY <1>1, <1>4, Rounded
  <2> QED
    BY <1>1, <1>2, <1>4, <2>1 DEF Ratings, n
<1> QED
  BY <1>3, <1>4

LEMMA TypeInit == StorefrontInit => TypeInv
<1> SUFFICES ASSUME StorefrontInit PROVE TypeInv
  OBVIOUS
<1>1. R!ReviewsTypeOK
  BY StorefrontFaultsKnown DEF StorefrontInit, R!ReviewsInit, R!ReviewsTypeOK, R!NoRating
<1>2. C!CatalogueTypeOK
  BY StorefrontFaultsKnown
  DEF StorefrontInit, C!CatalogueInit, C!CatalogueTypeOK, C!NoSalon, C!Documents, C!Statuses
<1>3. S!SearchTypeOK
  BY StorefrontFaultsKnown DEF StorefrontInit, S!SearchInit, S!SearchTypeOK, S!NotIndexed
<1>4. index \in [Salons -> C!Documents]
  BY DEF StorefrontInit, S!SearchInit, S!NotIndexed, C!Documents, C!Statuses
<1> QED
  BY <1>1, <1>2, <1>3, <1>4, FS_EmptySet
  DEF TypeInv, StorefrontTypeOK, StorefrontInit, R!ReviewsInit, MessagesTyped, C!CatalogueInit, RunsOfMessages

\* Where a service stands still its types do, whatever is announced.
LEMMA TypeFrames ==
  ASSUME TypeInv, bus \subseteq bus'
  PROVE  /\ UNCHANGED reviewVars => R!ReviewsTypeOK' /\ IsFiniteSet(reviews')
         /\ UNCHANGED catalogueVars => C!CatalogueTypeOK' /\ RunsOfMessages'
         /\ UNCHANGED searchVars => S!SearchTypeOK' /\ index' \in [Salons -> C!Documents]
<1>1. UNCHANGED reviewVars => R!ReviewsTypeOK' /\ IsFiniteSet(reviews')
  BY DEF TypeInv, StorefrontTypeOK, reviewVars, R!ReviewsTypeOK
<1>2. UNCHANGED catalogueVars => C!CatalogueTypeOK' /\ RunsOfMessages'
  BY DEF TypeInv, StorefrontTypeOK, catalogueVars, C!CatalogueTypeOK, RunsOfMessages
<1>3. UNCHANGED searchVars => S!SearchTypeOK' /\ index' \in [Salons -> C!Documents]
  BY DEF TypeInv, StorefrontTypeOK, searchVars, S!SearchTypeOK
<1> QED
  BY <1>1, <1>2, <1>3

LEMMA ReviewTypes ==
  ASSUME TypeInv, ReviewInv, R!ReviewsNext
  PROVE  R!ReviewsTypeOK' /\ IsFiniteSet(reviews') /\ MessagesTyped' /\ bus \subseteq bus'
<1> DEFINE Steps == {"idle", "eligible", "inserted", "marked", "computed", "announced", "refused", "broken"}
           Calls == [visit: Visits \cup {"none"}, rating: Ratings]
<1>1. /\ elig \in [Visits -> {"none", "open", "used"}] /\ reviews \subseteq Visits /\ IsFiniteSet(reviews)
      /\ rpc \in [Reviewers -> Steps] /\ rcall \in [Reviewers -> Calls]
      /\ registered \cup unregistered \subseteq bus /\ reviewCrashes \in 0..MaxReviewCrashes
  BY DEF TypeInv, StorefrontTypeOK, R!ReviewsTypeOK, Ratings
<1>2. SUFFICES /\ elig' \in [Visits -> {"none", "open", "used"}] /\ reviews' \subseteq Visits /\ IsFiniteSet(reviews')
               /\ rpc' \in [Reviewers -> Steps] /\ rcall' \in [Reviewers -> Calls]
               /\ registered' \cup unregistered' \subseteq bus' /\ reviewCrashes' \in 0..MaxReviewCrashes
               /\ MessagesTyped' /\ bus \subseteq bus'
  BY DEF R!ReviewsTypeOK, Ratings
<1>3. MessagesTyped
  BY DEF TypeInv
<1>4. ASSUME bus' = bus PROVE MessagesTyped'
  BY <1>3, <1>4 DEF MessagesTyped
<1>5. CASE \E e \in bus: R!Register(e) \/ R!RegisterFails(e)
  BY <1>1, <1>4, <1>5, EligibleOpens DEF R!Register, R!RegisterFails, R!Registrable
<1>6. CASE \E w \in Reviewers: R!Check(w)
  <2>1. PICK w \in Reviewers, v \in Visits: /\ rcall' = [rcall EXCEPT ![w].visit = v]
                                            /\ rpc' = [rpc EXCEPT ![w] = "eligible"]
    BY <1>6 DEF R!Check
  <2>2. rcall' \in [Reviewers -> Calls]
    BY <1>1, <2>1
  <2> QED
    BY <1>1, <1>4, <1>6, <2>1, <2>2 DEF R!Check
<1>7. CASE \E w \in Reviewers: R!InsertReview(w)
  <2>1. PICK w \in Reviewers: R!InsertReview(w)
    BY <1>7
  <2>2. rcall[w].visit \in Visits
    BY <2>1 DEF R!InsertReview, ReviewInv, EligibleAreCompleted
  <2>3. IsFiniteSet(reviews \cup {rcall[w].visit})
    BY <1>1, FS_AddElement
  <2> QED
    BY <1>1, <1>4, <2>1, <2>2, <2>3 DEF R!InsertReview
<1>8. CASE \E w \in Reviewers: R!MarkUsed(w)
  BY <1>1, <1>4, <1>8 DEF R!MarkUsed
<1>9. CASE \E w \in Reviewers: R!Aggregate(w)
  <2>1. PICK w \in Reviewers: R!Aggregate(w)
    BY <1>9
  <2> DEFINE V == R!SalonReviews(SalonOf[rcall[w].visit])
  <2>2. V \in SUBSET Visits /\ IsFiniteSet(V)
    BY <1>1, FS_Subset DEF R!SalonReviews
  <2> HIDE DEF V
  <2>3. R!Rating(V) \in Ratings
    BY <2>2, RatingTyped
  <2>4. rcall' \in [Reviewers -> Calls]
    BY <1>1, <2>1, <2>3 DEF R!Aggregate, V
  <2> QED
    BY <1>1, <1>4, <2>1, <2>4 DEF R!Aggregate
<1>10. CASE \E w \in Reviewers: R!PublishRating(w)
  <2>1. PICK w \in Reviewers: R!PublishRating(w)
    BY <1>10
  <2>2. w \in Writers
    BY <2>1 DEF R!PublishRating, Writers
  <2>3. R!RatingEvent(w).salon \in Salons /\ R!RatingEvent(w).rating \in Ratings
    BY <1>1, <2>2, WritersOfSalons DEF R!RatingEvent
  <2>4. R!RatingEvent(w).rk = "salon.rating.updated"
    BY DEF R!RatingEvent
  <2>5. MessagesTyped'
    BY <1>3, <2>1, <2>3, <2>4 DEF R!PublishRating, MessagesTyped
  <2> QED
    BY <1>1, <2>1, <2>5 DEF R!PublishRating
<1>11. CASE \E w \in Reviewers: R!CreateThrows(w)
  BY <1>1, <1>4, <1>11 DEF R!CreateThrows
<1>12. CASE R!ReviewsCrash
  <2>1. rpc' \in [Reviewers -> Steps]
    <3>1. \A w \in Reviewers: rpc'[w] \in Steps
      BY <1>1, <1>12 DEF R!ReviewsCrash
    <3>2. rpc' = [w \in Reviewers |-> rpc'[w]]
      BY <1>12 DEF R!ReviewsCrash
    <3> QED
      BY <3>1, <3>2
  <2>2. elig' \in [Visits -> {"none", "open", "used"}]
    BY <1>1, <1>12, EligibleOpens DEF R!ReviewsCrash
  <2>3. reviewCrashes' \in 0..MaxReviewCrashes
    BY <1>1, <1>12, StorefrontFaultsKnown DEF R!ReviewsCrash
  <2> QED
    BY <1>1, <1>4, <1>12, <2>1, <2>2, <2>3 DEF R!ReviewsCrash
<1> QED
  BY <1>5, <1>6, <1>7, <1>8, <1>9, <1>10, <1>11, <1>12 DEF R!ReviewsNext, R!Proceed

\* What a run may work on, and what the edit makes of the document.
Workable(work) ==
  \/ work.rk = "salon.rating.updated" /\ work.rating \in Ratings
  \/ work.rk = "admin.salon.status" /\ work.status \in C!Statuses
  \/ work.rk = "addService" /\ work.by \in OwnerCalls

LEMMA EditedTyped ==
  ASSUME NEW work, Workable(work), NEW d \in C!Documents
  PROVE  /\ C!Edited(work, d) \in C!Documents
         /\ C!Edited(work, d).status # d.status =>
              work.rk = "admin.salon.status" /\ work.status = C!Edited(work, d).status
         /\ C!Edited(work, d).count # d.count =>
              work.rk = "salon.rating.updated" /\ work.rating.count = C!Edited(work, d).count
<1> DEFINE st == d.status
           av == d.avg
           co == d.count
           sv == d.services
<1>1. /\ st \in C!Statuses \cup {"none"} /\ av \in 0..50 /\ co \in Nat /\ sv \in SUBSET OwnerCalls
      /\ d = [status |-> st, avg |-> av, count |-> co, services |-> sv]
  BY DEF C!Documents
<1> HIDE DEF st, av, co, sv
<1>2. CASE work.rk = "salon.rating.updated" /\ work.rating \in Ratings
  <2>1. C!Edited(work, d) = [[d EXCEPT !.avg = work.rating.avg] EXCEPT !.count = work.rating.count]
    BY <1>1, <1>2 DEF C!Edited
  <2>2. [d EXCEPT !.avg = work.rating.avg] = [status |-> st, avg |-> work.rating.avg, count |-> co, services |-> sv]
    BY <1>1
  <2>3. \A a, n: [[status |-> st, avg |-> a, count |-> co, services |-> sv] EXCEPT !.count = n] =
                 [status |-> st, avg |-> a, count |-> n, services |-> sv]
    OBVIOUS
  <2>4. C!Edited(work, d) = [status |-> st, avg |-> work.rating.avg, count |-> work.rating.count, services |-> sv]
    BY <2>1, <2>2, <2>3
  <2> QED
    BY <1>1, <1>2, <2>4 DEF C!Documents, Ratings
<1>3. CASE work.rk = "admin.salon.status" /\ work.status \in C!Statuses
  <2>1. C!Edited(work, d) = [d EXCEPT !.status = work.status]
    BY <1>3 DEF C!Edited
  <2>2. C!Edited(work, d) = [status |-> work.status, avg |-> av, count |-> co, services |-> sv]
    BY <1>1, <2>1
  <2> QED
    BY <1>1, <1>3, <2>2 DEF C!Documents
<1>4. CASE work.rk = "addService" /\ work.by \in OwnerCalls
  <2>1. C!Edited(work, d) = [d EXCEPT !.services = d.services \cup {work.by}]
    BY <1>4 DEF C!Edited
  <2>2. C!Edited(work, d) = [status |-> st, avg |-> av, count |-> co, services |-> sv \cup {work.by}]
    BY <1>1, <2>1
  <2> QED
    BY <1>1, <1>4, <2>2 DEF C!Documents
<1> QED
  BY <1>2, <1>3, <1>4 DEF Workable

LEMMA SavedTyped ==
  ASSUME NEW d \in C!Documents, NEW j, j.loaded \in C!Documents, j.copy \in C!Documents
  PROVE  /\ C!Saved(d, j) \in C!Documents
         /\ C!Saved(d, j).status # d.status =>
              j.copy.status # j.loaded.status /\ C!Saved(d, j).status = j.copy.status
         /\ C!Saved(d, j).count \in {d.count, j.copy.count}
BY DEF C!Saved, C!Documents

LEMMA CatalogueTypes ==
  ASSUME TypeInv, AboutSalons, C!CatalogueNext
  PROVE  C!CatalogueTypeOK' /\ MessagesTyped' /\ RunsOfMessages' /\ bus \subseteq bus'
<1>1. /\ salon \in [Salons -> C!Documents] /\ asked \subseteq OwnerCalls
      /\ \A j \in jobs: /\ j.work.salon \in Salons /\ j.step \in {"edited", "saved"}
                        /\ j.loaded \in C!Documents /\ j.copy \in C!Documents
      /\ synced \cup unsynced \subseteq bus /\ catalogueCrashes \in 0..MaxCatalogueCrashes
      /\ MessagesTyped /\ RunsOfMessages
  BY DEF TypeInv, StorefrontTypeOK, C!CatalogueTypeOK
<1>2. ASSUME bus' = bus PROVE MessagesTyped'
  BY <1>1, <1>2 DEF MessagesTyped
<1>3. ASSUME NEW work, work.salon \in Salons, Workable(work), work.rk \in C!SyncKeys => work \in bus,
             C!Begin(work, "edited", salon[work.salon], C!Edited(work, salon[work.salon])),
             UNCHANGED <<salon, unsynced, bus, catalogueCrashes, synced>>, asked' \subseteq OwnerCalls
      PROVE  C!CatalogueTypeOK' /\ MessagesTyped' /\ RunsOfMessages' /\ bus \subseteq bus'
  <2> DEFINE copy == C!Edited(work, salon[work.salon])
  <2>1. copy \in C!Documents
    BY <1>1, <1>3, EditedTyped
  <2> HIDE DEF copy
  <2>2. jobs' = jobs \cup {[work |-> work, step |-> "edited", loaded |-> salon[work.salon], copy |-> copy]}
    BY <1>3 DEF C!Begin, copy
  <2> QED
    BY <1>1, <1>2, <1>3, <2>1, <2>2 DEF C!CatalogueTypeOK, RunsOfMessages
<1>4. CASE \E c \in OwnerCalls: C!CreateSalon(c)
  <2> DEFINE new == [C!NoSalon EXCEPT !.status = "active"]
  <2>1. PICK c \in OwnerCalls, s \in Salons:
          /\ salon' = [salon EXCEPT ![s] = new] /\ asked' = asked \cup {c}
          /\ jobs' = jobs \cup {[work |-> [rk |-> "create", salon |-> s, by |-> c], step |-> "saved",
                                 loaded |-> new, copy |-> new]}
          /\ UNCHANGED <<synced, unsynced, bus, catalogueCrashes>>
    BY <1>4 DEF C!CreateSalon, C!Begin
  <2>2. new \in C!Documents
    BY DEF C!NoSalon, C!Documents, C!Statuses
  <2> HIDE DEF new
  <2> QED
    BY <1>1, <1>2, <2>1, <2>2 DEF C!SyncKeys, C!CatalogueTypeOK, RunsOfMessages
<1>5. CASE \E c \in OwnerCalls: C!AddService(c)
  <2>1. PICK c \in OwnerCalls, s \in Salons:
          LET work == [rk |-> "addService", salon |-> s, by |-> c]
          IN /\ C!Begin(work, "edited", salon[s], C!Edited(work, salon[s]))
             /\ UNCHANGED <<salon, synced, unsynced, bus, catalogueCrashes>>
             /\ asked' = asked \cup {c}
    BY <1>5 DEF C!AddService
  <2> DEFINE work == [rk |-> "addService", salon |-> s, by |-> c]
  <2>2. Workable(work) /\ work.salon = s /\ work.rk \notin C!SyncKeys
    BY DEF Workable, C!SyncKeys
  <2>3. C!Begin(work, "edited", salon[work.salon], C!Edited(work, salon[work.salon]))
    BY <2>1
  <2> HIDE DEF work
  <2> QED
    BY <1>1, <1>3, <2>1, <2>2, <2>3
<1>6. CASE \E e \in bus: C!Sync(e)
  <2>1. PICK e \in bus: C!Sync(e)
    BY <1>6
  <2>2. CASE salon[e.salon] = C!NoSalon
    BY <1>1, <1>2, <2>1, <2>2 DEF C!Sync, C!CatalogueTypeOK, RunsOfMessages
  <2>3. CASE salon[e.salon] # C!NoSalon
    <3>1. Workable(e) /\ e.salon \in Salons
      BY <1>1, <2>1 DEF C!Sync, C!Waiting, C!SyncKeys, MessagesTyped, Workable
    <3> QED
      BY <1>1, <1>3, <2>1, <2>3, <3>1 DEF C!Sync
  <2> QED
    BY <2>2, <2>3
<1>7. CASE \E j \in jobs: C!SaveSalon(j)
  <2>1. PICK j \in jobs: C!SaveSalon(j)
    BY <1>7
  <2> DEFINE s == j.work.salon
             i == [j EXCEPT !.step = "saved"]
  <2>2. /\ salon' = [salon EXCEPT ![s] = C!Saved(salon[s], j)] /\ jobs' = (jobs \ {j}) \cup {i}
        /\ UNCHANGED <<asked, synced, unsynced, bus, catalogueCrashes>>
    BY <2>1 DEF C!SaveSalon
  <2>3. i.work = j.work /\ i.step = "saved" /\ i.loaded = j.loaded /\ i.copy = j.copy
    BY DEF AboutSalons
  <2>4. s \in Salons /\ C!Saved(salon[s], j) \in C!Documents
    BY <1>1, SavedTyped
  <2> HIDE DEF i
  <2> QED
    BY <1>1, <1>2, <2>2, <2>3, <2>4 DEF C!CatalogueTypeOK, RunsOfMessages
<1>8. CASE \E j \in jobs: C!EmitUpserted(j)
  <2>1. PICK j \in jobs: C!EmitUpserted(j)
    BY <1>8
  <2>2. /\ C!Upserted(j).salon \in Salons /\ C!Upserted(j).snapshot \in C!Documents
        /\ C!Upserted(j).rk = "salon.upserted"
    BY <1>1 DEF C!Upserted
  <2>3. bus' = bus \cup {C!Upserted(j)} /\ UNCHANGED <<salon, asked, unsynced, catalogueCrashes>>
        /\ jobs' = jobs \ {j}
    BY <2>1 DEF C!EmitUpserted
  <2>4. MessagesTyped'
    BY <1>1, <2>2, <2>3 DEF MessagesTyped
  <2>5. synced' \subseteq bus'
    <3>1. synced' \subseteq synced \cup {j.work} /\ (j.work.rk \notin C!SyncKeys => synced' = synced)
      BY <2>1 DEF C!EmitUpserted, C!Settled
    <3> QED
      BY <1>1, <2>3, <3>1 DEF RunsOfMessages
  <2> QED
    BY <1>1, <2>3, <2>4, <2>5 DEF C!CatalogueTypeOK, RunsOfMessages
<1>9. CASE \E j \in jobs: C!SaveSalonFails(j)
  BY <1>1, <1>2, <1>9 DEF C!SaveSalonFails, C!CatalogueTypeOK, RunsOfMessages
<1>10. CASE C!CatalogueDies
  BY <1>1, <1>2, <1>10, StorefrontFaultsKnown DEF C!CatalogueDies, C!CatalogueTypeOK, RunsOfMessages
<1>11. CASE \E j \in jobs: C!EmitThrows(j)
  BY <1>1, <1>2, <1>10, <1>11 DEF C!EmitThrows, C!CatalogueTypeOK, RunsOfMessages
<1> QED
  BY <1>4, <1>5, <1>6, <1>7, <1>8, <1>9, <1>10, <1>11 DEF C!CatalogueNext, C!CatalogueCrash

LEMMA SearchTypes ==
  ASSUME TypeInv, S!SearchNext
  PROVE  S!SearchTypeOK' /\ index' \in [Salons -> C!Documents] /\ MessagesTyped' /\ bus' = bus
<1>1. PICK e \in bus: S!Upsert(e) \/ S!UpsertFails(e) \/ S!UpsertAndDie(e)
  BY DEF S!SearchNext
<1>2. bus' = bus /\ MessagesTyped'
  BY <1>1 DEF S!Upsert, S!UpsertFails, S!UpsertAndDie, TypeInv, MessagesTyped
<1>3. index' = index \/ (index' = [index EXCEPT ![e.salon] = e.snapshot] /\ e.rk = "salon.upserted")
  BY <1>1 DEF S!Upsert, S!UpsertFails, S!UpsertAndDie, S!Unread
<1>4. index' \in [Salons -> C!Documents]
  BY <1>3 DEF TypeInv, MessagesTyped
<1>5. \A s \in Salons: DOMAIN index'[s] = DOMAIN S!NotIndexed
  BY <1>4 DEF C!Documents, S!NotIndexed
<1>6. indexed' \cup unindexed' \subseteq bus' /\ searchCrashes' \in 0..MaxSearchCrashes
  BY <1>1, StorefrontFaultsKnown
  DEF S!Upsert, S!UpsertFails, S!UpsertAndDie, TypeInv, StorefrontTypeOK, S!SearchTypeOK
<1> QED
  BY <1>2, <1>4, <1>5, <1>6 DEF S!SearchTypeOK

\* Bookings are completed and salons decided on elsewhere.
WorldNext == (\E v \in Visits: VisitCompleted(v)) \/ (\E a \in AdminCalls: SetSalonStatus(a))

LEMMA WorldTypes ==
  ASSUME TypeInv, WorldNext
  PROVE  /\ MessagesTyped' /\ bus \subseteq bus'
         /\ \A e \in bus' \ bus: e.rk \notin {"salon.rating.updated", "salon.upserted"}
<1>1. CASE \E v \in Visits: VisitCompleted(v)
  <2>1. PICK v \in Visits: bus' = bus \cup {R!CompletedEvent(v)}
    BY <1>1 DEF VisitCompleted
  <2>2. R!CompletedEvent(v).salon \in Salons /\ R!CompletedEvent(v).rk = "booking.completed"
    BY VisitsAreOfSalons DEF R!CompletedEvent
  <2> QED
    BY <2>1, <2>2 DEF TypeInv, MessagesTyped
<1>2. CASE \E a \in AdminCalls: SetSalonStatus(a)
  <2>1. PICK a \in AdminCalls, s \in Salons, d \in Decisions:
          bus' = bus \cup {[rk |-> "admin.salon.status", salon |-> s, status |-> d, by |-> a]}
    BY <1>2 DEF SetSalonStatus
  <2> QED
    BY <2>1, DecisionsKnown DEF TypeInv, MessagesTyped, C!Statuses
<1> QED
  BY <1>1, <1>2 DEF WorldNext

LEMMA TypeStep ==
  ASSUME TypeInv, ReviewInv, AboutSalons, [StorefrontNext]_storefrontVars
  PROVE  TypeInv' /\ bus \subseteq bus'
<1> USE DEF TypeInv, StorefrontTypeOK
<1>1. CASE R!ReviewsNext /\ UNCHANGED <<catalogueVars, searchVars>>
  BY <1>1, ReviewTypes, TypeFrames
<1>2. CASE C!CatalogueNext /\ UNCHANGED <<reviewVars, searchVars>>
  BY <1>2, CatalogueTypes, TypeFrames
<1>3. CASE S!SearchNext /\ UNCHANGED <<reviewVars, catalogueVars>>
  BY <1>3, SearchTypes, TypeFrames
<1>4. CASE WorldNext /\ UNCHANGED <<reviewVars, catalogueVars, searchVars>>
  BY <1>4, WorldTypes, TypeFrames
<1>5. CASE UNCHANGED storefrontVars
  <2>1. UNCHANGED <<reviewVars, catalogueVars, searchVars, bus>> /\ MessagesTyped'
    BY <1>5 DEF storefrontVars, MessagesTyped
  <2> QED
    BY <2>1, TypeFrames
<1> QED
  BY <1>1, <1>2, <1>3, <1>4, <1>5 DEF StorefrontNext, WorldNext

\* What the theorems below rest on.
StoreInv == ReviewInv /\ CatalogueInv /\ TypeInv

LEMMA StoreInit == StorefrontInit => StoreInv
BY ReviewInvInit, CatalogueInvInit, TypeInit DEF StoreInv

LEMMA StoreStep == StoreInv /\ [StorefrontNext]_storefrontVars => StoreInv'
<1> SUFFICES ASSUME StoreInv, [StorefrontNext]_storefrontVars PROVE StoreInv'
  OBVIOUS
<1>1. TypeInv'
  BY TypeStep DEF StoreInv, CatalogueInv
<1>2. CASE StorefrontNext
  BY <1>1, <1>2, StorefrontStepKeepsReviews, StorefrontStepKeepsCatalogue DEF StoreInv
<1>3. CASE UNCHANGED storefrontVars
  <2>1. ReviewInv'
    BY <1>3, ReviewFrame DEF StoreInv, storefrontVars, ReviewInv, CompletedAreVisits, R!CompletedEvent
  <2>2. CatalogueInv'
    BY <1>3, CatalogueFrame DEF StoreInv, storefrontVars, catalogueVars
  <2> QED
    BY <1>1, <2>1, <2>2 DEF StoreInv
<1> QED
  BY <1>2, <1>3

\* The three services keep their state in its types; every average there is
\* lies between zero and five stars.
THEOREM StorefrontTyped == StorefrontSpec => []StorefrontTypeOK
<1>1. StoreInv => StorefrontTypeOK
  BY DEF StoreInv, TypeInv
<1> QED
  BY <1>1, StoreInit, StoreStep, PTL DEF StorefrontSpec

-----------------------------------------------------------------------------
(* Ratings. The reviews a rating was computed of are still there when it   *)
(* is announced, and counts are passed on and never made up.               *)

\* A rating of reviews of the salon of visit v, that visit among them.
RatingOf(v, rating) ==
  \E V \in SUBSET R!SalonReviews(SalonOf[v]): v \in V /\ rating = R!Rating(V)

RatingInv ==
  /\ \A w \in Reviewers: rpc[w] = "computed" => RatingOf(rcall[w].visit, rcall[w].rating)
  /\ \A e \in bus: e.rk = "salon.rating.updated" =>
       /\ e.by \in Reviewers /\ rpc[e.by] = "announced"
       /\ e.salon = SalonOf[rcall[e.by].visit] /\ RatingOf(rcall[e.by].visit, e.rating)

\* Reviews are only added, so a rating stays one of reviews that exist.
LEMMA ReviewsKept ==
  ASSUME StoreInv, [StorefrontNext]_storefrontVars
  PROVE  /\ reviews \subseteq reviews'
         /\ \A v, rating: RatingOf(v, rating) => RatingOf(v, rating)'
<1>1. reviews \subseteq reviews'
  BY DEF StorefrontNext, storefrontVars, reviewVars, R!ReviewsNext, R!Proceed, R!Register, R!RegisterFails,
     R!Check, R!InsertReview, R!MarkUsed, R!Aggregate, R!PublishRating, R!CreateThrows, R!ReviewsCrash
<1>2. \A v: R!SalonReviews(SalonOf[v]) \subseteq R!SalonReviews(SalonOf[v])'
  BY <1>1 DEF R!SalonReviews
<1>3. ASSUME NEW v, NEW rating, RatingOf(v, rating)
      PROVE  RatingOf(v, rating)'
  <2>1. PICK V \in SUBSET R!SalonReviews(SalonOf[v]): v \in V /\ rating = R!Rating(V)
    BY <1>3 DEF RatingOf
  <2>2. V \in SUBSET (R!SalonReviews(SalonOf[v])')
    BY <1>2, <2>1
  <2> QED
    BY <2>1, <2>2 DEF RatingOf
<1> QED
  BY <1>1, <1>3

LEMMA RatingInit == StorefrontInit => RatingInv
BY DEF StorefrontInit, R!ReviewsInit, RatingInv

LEMMA RatingStep == StoreInv /\ RatingInv /\ [StorefrontNext]_storefrontVars => RatingInv'
<1> SUFFICES ASSUME StoreInv, RatingInv, [StorefrontNext]_storefrontVars PROVE RatingInv'
  OBVIOUS
<1>1. \A v, rating: RatingOf(v, rating) => RatingOf(v, rating)'
  BY ReviewsKept
<1>2. /\ rpc \in [Reviewers -> {"idle", "eligible", "inserted", "marked", "computed", "announced", "refused", "broken"}]
      /\ DOMAIN rcall = Reviewers /\ \A w \in Reviewers: DOMAIN rcall[w] = {"visit", "rating"}
  BY DEF StoreInv, TypeInv, StorefrontTypeOK, R!ReviewsTypeOK, ReviewInv, ReviewShape
\* Steps after which a call stands at "computed" or "announced" only if it did.
<1>3. ASSUME \A e \in bus' \ bus: e.rk # "salon.rating.updated",
             \A w \in Reviewers: /\ rpc'[w] = "computed" => rpc[w] = "computed"
                                 /\ rpc[w] = "announced" => rpc'[w] = "announced"
                                 /\ rpc[w] \in {"computed", "announced"} => rcall'[w] = rcall[w]
      PROVE  RatingInv'
  BY <1>1, <1>3 DEF RatingInv
<1>4. CASE UNCHANGED storefrontVars
  BY <1>3, <1>4 DEF storefrontVars, reviewVars
<1>5. CASE WorldNext /\ UNCHANGED reviewVars
  BY <1>3, <1>5, WorldTypes DEF StoreInv, reviewVars
<1>6. CASE S!SearchNext /\ UNCHANGED reviewVars
  BY <1>3, <1>6, SearchTypes DEF StoreInv, reviewVars
<1>7. CASE C!CatalogueNext /\ UNCHANGED reviewVars
  <2>1. bus' = bus \/ \E j \in jobs: bus' = bus \cup {C!Upserted(j)}
    BY <1>7
    DEF C!CatalogueNext, C!CreateSalon, C!AddService, C!Sync, C!SaveSalon, C!EmitUpserted,
        C!SaveSalonFails, C!EmitThrows, C!CatalogueCrash, C!CatalogueDies
  <2> QED
    BY <1>3, <1>7, <2>1 DEF C!Upserted, reviewVars
<1>8. CASE (\E e \in bus: R!Register(e) \/ R!RegisterFails(e)) \/ R!ReviewsCrash
  <2>1. bus' = bus /\ rcall' = rcall
    BY <1>8 DEF R!Register, R!RegisterFails, R!ReviewsCrash
  <2>2. \A w \in Reviewers: /\ rpc'[w] = "computed" => rpc[w] = "computed"
                            /\ rpc[w] = "announced" => rpc'[w] = "announced"
    BY <1>2, <1>8 DEF R!Register, R!RegisterFails, R!ReviewsCrash
  <2> QED
    BY <1>3, <2>1, <2>2
<1>9. ASSUME NEW w \in Reviewers, R!Check(w) \/ R!InsertReview(w) \/ R!MarkUsed(w) \/ R!CreateThrows(w)
      PROVE  RatingInv'
  <2>1. bus' = bus /\ rpc[w] # "announced"
    BY <1>9 DEF R!Check, R!InsertReview, R!MarkUsed, R!CreateThrows
  <2>2. rpc'[w] # "computed" /\ \A x \in Reviewers \ {w}: rpc'[x] = rpc[x]
    BY <1>2, <1>9 DEF R!Check, R!InsertReview, R!MarkUsed, R!CreateThrows
  <2>3. \A x \in Reviewers: rpc[x] \in {"computed", "announced"} => rcall'[x] = rcall[x]
    BY <1>2, <1>9 DEF R!Check, R!InsertReview, R!MarkUsed, R!CreateThrows
  <2> QED
    BY <1>3, <2>1, <2>2, <2>3
<1>10. ASSUME NEW w \in Reviewers, R!Aggregate(w)
       PROVE  RatingInv'
  <2> PICK v, rating: v = rcall[w].visit /\ rating = R!Rating(R!SalonReviews(SalonOf[v]))
    OBVIOUS
  <2>1. v \in R!SalonReviews(SalonOf[v])
    BY <1>10 DEF R!Aggregate, StoreInv, ReviewInv, WritersApart, Writers, R!SalonReviews
  <2>2. RatingOf(v, rating)
    BY <2>1 DEF RatingOf
  <2>3. rcall'[w].visit = v /\ rcall'[w].rating = rating /\ \A x \in Reviewers \ {w}: rcall'[x] = rcall[x]
    BY <1>2, <1>10 DEF R!Aggregate
  <2>4. /\ bus' = bus /\ rpc[w] = "marked" /\ \A x \in Reviewers \ {w}: rpc'[x] = rpc[x]
    BY <1>10 DEF R!Aggregate
  <2> QED
    BY <1>1, <2>2, <2>3, <2>4 DEF RatingInv
<1>11. ASSUME NEW w \in Reviewers, R!PublishRating(w)
       PROVE  RatingInv'
  <2>1. /\ rpc[w] = "computed" /\ bus' = bus \cup {R!RatingEvent(w)} /\ UNCHANGED <<rcall, reviews>>
        /\ rpc'[w] = "announced" /\ \A x \in Reviewers \ {w}: rpc'[x] = rpc[x]
    BY <1>2, <1>11 DEF R!PublishRating
  <2>2. /\ R!RatingEvent(w).by = w /\ R!RatingEvent(w).salon = SalonOf[rcall[w].visit]
        /\ R!RatingEvent(w).rating = rcall[w].rating
    BY DEF R!RatingEvent
  <2>3. RatingOf(rcall[w].visit, rcall[w].rating)
    BY <2>1 DEF RatingInv
  <2> QED
    BY <1>1, <2>1, <2>2, <2>3 DEF RatingInv
<1> QED
  BY <1>4, <1>5, <1>6, <1>7, <1>8, <1>9, <1>10, <1>11 DEF StorefrontNext, WorldNext, R!ReviewsNext, R!Proceed

\* A rating that was announced is that of reviews of the salon which exist, the
\* one it was announced for among them, though others are written meanwhile.
THEOREM RatingsAreReal == StorefrontSpec => []RatingsAreOfReviews
<1>1. RatingInv => RatingsAreOfReviews
  <2> SUFFICES ASSUME RatingInv, NEW e \in bus, e.rk = "salon.rating.updated"
               PROVE  \E V \in SUBSET R!SalonReviews(e.salon): rcall[e.by].visit \in V /\ e.rating = R!Rating(V)
    BY DEF RatingsAreOfReviews, R!RatingsAreOfReviews
  <2>1. e.salon = SalonOf[rcall[e.by].visit] /\ RatingOf(rcall[e.by].visit, e.rating)
    BY DEF RatingInv
  <2> QED
    BY <2>1 DEF RatingOf
<1> QED
  BY <1>1, StoreInit, StoreStep, RatingInit, RatingStep, PTL DEF StorefrontSpec

-----------------------------------------------------------------------------
(* Counts. Snapshots carry them from the catalogue to the index; each was  *)
(* once the number of some of the reviews there are.                       *)

\* So many reviews salon s has at least.
Backed(s, n) == n <= Cardinality(R!SalonReviews(s))

CountInv ==
  /\ \A s \in Salons: Backed(s, salon[s].count) /\ Backed(s, index[s].count)
  /\ \A j \in jobs: Backed(j.work.salon, j.loaded.count) /\ Backed(j.work.salon, j.copy.count)
  /\ \A e \in bus: e.rk = "salon.upserted" => Backed(e.salon, e.snapshot.count)

LEMMA SalonReviewsFinite ==
  ASSUME TypeInv
  PROVE  \A s: IsFiniteSet(R!SalonReviews(s)) /\ Cardinality(R!SalonReviews(s)) \in Nat
<1>1. IsFiniteSet(reviews)
  BY DEF TypeInv
<1>2. ASSUME NEW s
      PROVE  IsFiniteSet(R!SalonReviews(s)) /\ Cardinality(R!SalonReviews(s)) \in Nat
  <2>1. R!SalonReviews(s) \in SUBSET reviews
    BY DEF R!SalonReviews
  <2> QED
    BY <1>1, <2>1, FS_Subset, FS_CardinalityType
<1> QED
  BY <1>2

\* What was backed stays so.
LEMMA BackedKept ==
  ASSUME StoreInv, [StorefrontNext]_storefrontVars, NEW s, NEW n \in Nat, Backed(s, n)
  PROVE  Backed(s, n)'
<1>1. IsFiniteSet(reviews')
  BY StoreStep DEF StoreInv, TypeInv
<1>2. R!SalonReviews(s) \in SUBSET (R!SalonReviews(s)') /\ R!SalonReviews(s)' \in SUBSET reviews'
  BY ReviewsKept DEF R!SalonReviews
<1>3. IsFiniteSet(R!SalonReviews(s)')
  BY <1>1, <1>2, FS_Subset
<1>4. /\ Cardinality(R!SalonReviews(s)) <= Cardinality(R!SalonReviews(s)')
      /\ Cardinality(R!SalonReviews(s)') \in Nat
  BY <1>2, <1>3, FS_Subset, FS_CardinalityType
<1>5. Cardinality(R!SalonReviews(s)) \in Nat
  BY SalonReviewsFinite DEF StoreInv
<1> QED
  BY <1>4, <1>5 DEF Backed

\* The count of a rating announced is backed.
LEMMA RatingsBacked ==
  ASSUME TypeInv, RatingInv, NEW e \in bus, e.rk = "salon.rating.updated"
  PROVE  Backed(e.salon, e.rating.count)
<1>1. PICK V \in SUBSET R!SalonReviews(e.salon): e.rating = R!Rating(V)
  BY DEF RatingInv, RatingOf
<1>2. IsFiniteSet(R!SalonReviews(e.salon))
  BY SalonReviewsFinite
<1>3. IsFiniteSet(V) /\ Cardinality(V) <= Cardinality(R!SalonReviews(e.salon))
  BY <1>2, FS_Subset
<1>4. V \in SUBSET Visits
  BY DEF R!SalonReviews, TypeInv, StorefrontTypeOK, R!ReviewsTypeOK
<1>5. e.rating.count = Cardinality(V)
  BY <1>1, <1>3, <1>4, RatingTyped
<1> QED
  BY <1>3, <1>5 DEF Backed

LEMMA CountInit == StorefrontInit => CountInv
<1> SUFFICES ASSUME StorefrontInit PROVE CountInv
  OBVIOUS
<1>1. \A s: Backed(s, 0)
  BY TypeInit, SalonReviewsFinite DEF Backed
<1> QED
  BY <1>1 DEF CountInv, StorefrontInit, C!CatalogueInit, S!SearchInit, C!NoSalon, S!NotIndexed

LEMMA CountStep == StoreInv /\ RatingInv /\ CountInv /\ [StorefrontNext]_storefrontVars => CountInv'
<1> SUFFICES ASSUME StoreInv, RatingInv, CountInv, [StorefrontNext]_storefrontVars PROVE CountInv'
  OBVIOUS
<1> DEFINE Covered(s, n) == n \in Nat /\ n <= Cardinality(R!SalonReviews(s)')
<1>1. /\ salon \in [Salons -> C!Documents] /\ index \in [Salons -> C!Documents] /\ TypeInv
      /\ \A j \in jobs: j.work.salon \in Salons /\ j.loaded \in C!Documents /\ j.copy \in C!Documents
      /\ \A e \in bus: e.salon \in Salons /\ (e.rk = "salon.upserted" => e.snapshot \in C!Documents)
      /\ \A e \in bus: e.rk = "salon.rating.updated" => e.rating \in Ratings
  BY DEF StoreInv, TypeInv, StorefrontTypeOK, C!CatalogueTypeOK, MessagesTyped
<1>2. \A d \in C!Documents: d.count \in Nat
  BY DEF C!Documents
<1>3. \A s, n: n \in Nat /\ Backed(s, n) => Covered(s, n)
  BY BackedKept DEF Backed
<1>4. \A e \in bus: e.rk = "salon.rating.updated" => Backed(e.salon, e.rating.count) /\ e.rating.count \in Nat
  BY <1>1, RatingsBacked DEF Ratings
\* The counts of the state that went before are backed in the next.
<1>5. /\ \A s \in Salons: Covered(s, salon[s].count) /\ Covered(s, index[s].count)
      /\ \A j \in jobs: Covered(j.work.salon, j.loaded.count) /\ Covered(j.work.salon, j.copy.count)
      /\ \A e \in bus: e.rk = "salon.upserted" => Covered(e.salon, e.snapshot.count)
      /\ \A e \in bus: e.rk = "salon.rating.updated" => Covered(e.salon, e.rating.count)
  <2> HIDE DEF Covered
  <2> QED
    BY <1>1, <1>2, <1>3, <1>4 DEF CountInv
<1>6. \A s: Covered(s, 0)
  BY <1>1, <1>3, SalonReviewsFinite DEF Backed
<1> SUFFICES /\ \A s \in Salons: Covered(s, salon'[s].count) /\ Covered(s, index'[s].count)
             /\ \A j \in jobs': Covered(j.work.salon, j.loaded.count) /\ Covered(j.work.salon, j.copy.count)
             /\ \A e \in bus': e.rk = "salon.upserted" => Covered(e.salon, e.snapshot.count)
  BY DEF CountInv, Backed
<1> HIDE DEF Covered
<1>7. CASE UNCHANGED storefrontVars
  BY <1>5, <1>7 DEF storefrontVars, catalogueVars, searchVars
<1>8. CASE WorldNext /\ UNCHANGED <<catalogueVars, searchVars>>
  BY <1>1, <1>5, <1>8, WorldTypes DEF catalogueVars, searchVars
<1>9. CASE R!ReviewsNext /\ UNCHANGED <<catalogueVars, searchVars>>
  <2>1. bus' = bus \/ \E w \in Reviewers: bus' = bus \cup {R!RatingEvent(w)}
    BY <1>9 DEF R!ReviewsNext, R!Proceed, R!Register, R!RegisterFails, R!Check, R!InsertReview, R!MarkUsed,
       R!Aggregate, R!PublishRating, R!CreateThrows, R!ReviewsCrash
  <2>2. \A w: R!RatingEvent(w).rk # "salon.upserted"
    BY DEF R!RatingEvent
  <2> QED
    BY <1>5, <1>9, <2>1, <2>2 DEF catalogueVars, searchVars
<1>10. CASE S!SearchNext /\ UNCHANGED catalogueVars
  <2>1. PICK e \in bus: /\ bus' = bus
                        /\ \/ index' = index
                           \/ index' = [index EXCEPT ![e.salon] = e.snapshot] /\ e.rk = "salon.upserted"
    BY <1>10 DEF S!SearchNext, S!Upsert, S!UpsertFails, S!UpsertAndDie, S!Unread
  <2> QED
    BY <1>1, <1>5, <1>10, <2>1 DEF catalogueVars
<1>11. ASSUME NEW work, Workable(work), work.salon \in Salons,
              work.rk = "salon.rating.updated" => Covered(work.salon, work.rating.count),
              C!Begin(work, "edited", salon[work.salon], C!Edited(work, salon[work.salon])),
              UNCHANGED <<salon, index, bus>>
       PROVE  \A j \in jobs': Covered(j.work.salon, j.loaded.count) /\ Covered(j.work.salon, j.copy.count)
  <2> DEFINE d == salon[work.salon]
             copy == C!Edited(work, d)
             job == [work |-> work, step |-> "edited", loaded |-> d, copy |-> copy]
  <2>1. d \in C!Documents /\ Covered(work.salon, d.count)
    BY <1>1, <1>5, <1>11
  <2>2. Covered(work.salon, copy.count)
    BY <1>11, <2>1, EditedTyped
  <2>3. jobs' = jobs \cup {job}
    BY <1>11 DEF C!Begin
  <2>4. job.work = work /\ job.loaded = d /\ job.copy = copy
    OBVIOUS
  <2> HIDE DEF job, copy, d
  <2> QED
    BY <1>5, <2>1, <2>2, <2>3, <2>4
<1>12. CASE C!CatalogueNext /\ UNCHANGED searchVars
  <2>1. CASE \E c \in OwnerCalls: C!CreateSalon(c)
    <3> DEFINE new == [C!NoSalon EXCEPT !.status = "active"]
               job(s, c) == [work |-> [rk |-> "create", salon |-> s, by |-> c], step |-> "saved",
                             loaded |-> new, copy |-> new]
    <3>1. PICK c \in OwnerCalls, s \in Salons:
            salon' = [salon EXCEPT ![s] = new] /\ jobs' = jobs \cup {job(s, c)} /\ bus' = bus
      BY <2>1 DEF C!CreateSalon, C!Begin
    <3>2. new.count = 0
      BY DEF C!NoSalon
    <3>3. job(s, c).work.salon = s /\ job(s, c).loaded = new /\ job(s, c).copy = new
      OBVIOUS
    <3> HIDE DEF new, job
    <3> QED
      BY <1>1, <1>5, <1>6, <1>12, <3>1, <3>2, <3>3 DEF searchVars
  <2>2. CASE \E c \in OwnerCalls: C!AddService(c)
    <3>1. PICK c \in OwnerCalls, s \in Salons:
            LET work == [rk |-> "addService", salon |-> s, by |-> c]
            IN C!Begin(work, "edited", salon[s], C!Edited(work, salon[s])) /\ UNCHANGED <<salon, bus>>
      BY <2>2 DEF C!AddService
    <3> DEFINE work == [rk |-> "addService", salon |-> s, by |-> c]
    <3>2. Workable(work) /\ work.salon = s /\ work.rk # "salon.rating.updated"
      BY DEF Workable
    <3>3. C!Begin(work, "edited", salon[work.salon], C!Edited(work, salon[work.salon]))
      BY <3>1
    <3> HIDE DEF work
    <3> QED
      BY <1>5, <1>11, <1>12, <3>1, <3>2, <3>3 DEF searchVars
  <2>3. CASE \E e \in bus: C!Sync(e)
    <3>1. PICK e \in bus: C!Sync(e)
      BY <2>3
    <3>2. CASE salon[e.salon] = C!NoSalon
      BY <1>5, <1>12, <3>1, <3>2 DEF C!Sync, searchVars
    <3>3. CASE salon[e.salon] # C!NoSalon
      <4>1. Workable(e) /\ e.salon \in Salons
        BY <1>1, <3>1 DEF C!Sync, C!Waiting, C!SyncKeys, TypeInv, MessagesTyped, Workable
      <4> QED
        BY <1>5, <1>11, <1>12, <3>1, <3>3, <4>1 DEF C!Sync, searchVars
    <3> QED
      BY <3>2, <3>3
  <2>4. CASE \E j \in jobs: C!SaveSalon(j)
    <3>1. PICK j \in jobs: C!SaveSalon(j)
      BY <2>4
    <3> DEFINE s == j.work.salon
               i == [j EXCEPT !.step = "saved"]
    <3>2. salon' = [salon EXCEPT ![s] = C!Saved(salon[s], j)] /\ jobs' = (jobs \ {j}) \cup {i} /\ bus' = bus
      BY <3>1 DEF C!SaveSalon
    <3>3. i.work = j.work /\ i.loaded = j.loaded /\ i.copy = j.copy
      BY DEF StoreInv, CatalogueInv, AboutSalons
    <3>4. s \in Salons /\ Covered(s, C!Saved(salon[s], j).count)
      BY <1>1, <1>5, SavedTyped
    <3> HIDE DEF i, s
    <3> QED
      BY <1>1, <1>5, <1>12, <3>2, <3>3, <3>4 DEF searchVars
  <2>5. CASE \E j \in jobs: C!EmitUpserted(j)
    <3>1. PICK j \in jobs: jobs' = jobs \ {j} /\ bus' = bus \cup {C!Upserted(j)} /\ UNCHANGED salon
      BY <2>5 DEF C!EmitUpserted
    <3>2. C!Upserted(j).salon = j.work.salon /\ C!Upserted(j).snapshot = j.copy
      BY DEF C!Upserted
    <3> QED
      BY <1>5, <1>12, <3>1, <3>2 DEF searchVars
  <2>6. CASE UNCHANGED <<salon, bus>> /\ jobs' \subseteq jobs
    BY <1>5, <1>12, <2>6 DEF searchVars
  <2> QED
    BY <1>12, <2>1, <2>2, <2>3, <2>4, <2>5, <2>6
    DEF C!CatalogueNext, C!SaveSalonFails, C!EmitThrows, C!CatalogueCrash, C!CatalogueDies
<1> QED
  BY <1>7, <1>8, <1>9, <1>10, <1>12 DEF StorefrontNext, WorldNext

\* However late a snapshot or a rating is applied, neither the catalogue nor
\* the index shows more reviews of a salon than were written.
THEOREM CountsAreReal == StorefrontSpec => []CountsAreBacked
<1>1. CountInv => CountsAreBacked
  BY DEF CountInv, CountsAreBacked, Backed
<1> QED
  BY <1>1, StoreInit, StoreStep, RatingInit, RatingStep, CountInit, CountStep, PTL DEF StorefrontSpec

-----------------------------------------------------------------------------
(* Decisions.                                                              *)

\* A run that would save another status has it from a message of the admin
\* which is not acknowledged; a message has one run.
DecisionInv ==
  /\ \A j \in jobs: j.copy.status # j.loaded.status =>
       j.work.rk = "admin.salon.status" /\ j.work.status = j.copy.status
  /\ \A j \in jobs: j.work.rk \in C!SyncKeys => j.work \notin synced
  /\ \A i, j \in jobs: i.work = j.work /\ i.work.rk \in C!SyncKeys => i = j

LEMMA DecisionInit == StorefrontInit => DecisionInv
BY DEF StorefrontInit, C!CatalogueInit, DecisionInv

LEMMA DecisionStep == StoreInv /\ DecisionInv /\ [StorefrontNext]_storefrontVars => DecisionInv'
<1> SUFFICES ASSUME StoreInv, DecisionInv, [StorefrontNext]_storefrontVars PROVE DecisionInv'
  OBVIOUS
<1>1. /\ \A j \in jobs: DOMAIN j = {"work", "step", "loaded", "copy"}
      /\ TypeInv /\ salon \in [Salons -> C!Documents]
  BY DEF StoreInv, CatalogueInv, AboutSalons, TypeInv, StorefrontTypeOK, C!CatalogueTypeOK
<1>2. ASSUME jobs' \subseteq jobs, synced' = synced
      PROVE  DecisionInv'
  BY <1>2 DEF DecisionInv
<1>3. CASE UNCHANGED catalogueVars
  BY <1>2, <1>3 DEF catalogueVars
<1>4. ASSUME NEW work, Workable(work), NEW d \in C!Documents,
             C!Begin(work, "edited", d, C!Edited(work, d)), synced' = synced,
             work.rk \in C!SyncKeys => work \notin synced /\ \A j \in jobs: j.work # work
      PROVE  DecisionInv'
  <2> DEFINE copy == C!Edited(work, d)
             job == [work |-> work, step |-> "edited", loaded |-> d, copy |-> copy]
  <2>1. copy.status # d.status => work.rk = "admin.salon.status" /\ work.status = copy.status
    BY <1>4, EditedTyped
  <2>2. jobs' = jobs \cup {job}
    BY <1>4 DEF C!Begin
  <2>3. job.work = work /\ job.loaded = d /\ job.copy = copy
    OBVIOUS
  <2> HIDE DEF job, copy
  <2> QED
    BY <1>4, <2>1, <2>2, <2>3 DEF DecisionInv
<1>5. CASE \E c \in OwnerCalls: C!CreateSalon(c)
  <2> DEFINE new == [C!NoSalon EXCEPT !.status = "active"]
             job(s, c) == [work |-> [rk |-> "create", salon |-> s, by |-> c], step |-> "saved",
                           loaded |-> new, copy |-> new]
  <2>1. PICK c \in OwnerCalls, s \in Salons: jobs' = jobs \cup {job(s, c)} /\ synced' = synced
    BY <1>5 DEF C!CreateSalon, C!Begin
  <2>2. job(s, c).work.rk \notin C!SyncKeys /\ job(s, c).loaded = job(s, c).copy
    BY DEF C!SyncKeys
  <2> HIDE DEF job
  <2> QED
    BY <2>1, <2>2 DEF DecisionInv
<1>6. CASE \E c \in OwnerCalls: C!AddService(c)
  <2>1. PICK c \in OwnerCalls, s \in Salons:
          LET work == [rk |-> "addService", salon |-> s, by |-> c]
          IN C!Begin(work, "edited", salon[s], C!Edited(work, salon[s])) /\ synced' = synced
    BY <1>6 DEF C!AddService
  <2> DEFINE work == [rk |-> "addService", salon |-> s, by |-> c]
  <2>2. Workable(work) /\ work.rk \notin C!SyncKeys
    BY DEF Workable, C!SyncKeys
  <2>3. C!Begin(work, "edited", salon[s], C!Edited(work, salon[s])) /\ salon[s] \in C!Documents
    BY <1>1, <2>1
  <2> HIDE DEF work
  <2> QED
    BY <1>4, <2>1, <2>2, <2>3
<1>7. CASE \E e \in bus: C!Sync(e)
  <2>1. PICK e \in bus: C!Sync(e)
    BY <1>7
  <2>2. e \notin synced /\ e.rk \in C!SyncKeys /\ \A j \in jobs: j.work # e
    BY <2>1 DEF C!Sync, C!Waiting
  <2>3. CASE salon[e.salon] = C!NoSalon
    BY <2>1, <2>2, <2>3 DEF C!Sync, DecisionInv
  <2>4. CASE salon[e.salon] # C!NoSalon
    <3>1. Workable(e) /\ salon[e.salon] \in C!Documents
      BY <1>1, <2>2 DEF C!SyncKeys, TypeInv, MessagesTyped, Workable
    <3> QED
      BY <1>4, <2>1, <2>2, <2>4, <3>1 DEF C!Sync
  <2> QED
    BY <2>3, <2>4
<1>8. CASE \E j \in jobs: C!SaveSalon(j)
  <2>1. PICK j \in jobs: jobs' = (jobs \ {j}) \cup {[j EXCEPT !.step = "saved"]} /\ synced' = synced
    BY <1>8 DEF C!SaveSalon
  <2> DEFINE i == [j EXCEPT !.step = "saved"]
  <2>2. i.work = j.work /\ i.loaded = j.loaded /\ i.copy = j.copy
    BY <1>1
  <2>3. jobs' = (jobs \ {j}) \cup {i}
    BY <2>1
  <2> HIDE DEF i
  <2> QED
    BY <2>1, <2>2, <2>3 DEF DecisionInv
<1>9. CASE \E j \in jobs: C!EmitUpserted(j)
  <2>1. PICK j \in jobs: /\ jobs' = jobs \ {j} /\ synced' \subseteq synced \cup {j.work}
                         /\ j.work.rk \notin C!SyncKeys => synced' = synced
    BY <1>9 DEF C!EmitUpserted, C!Settled
  <2>2. ASSUME NEW i \in jobs', i.work.rk \in C!SyncKeys
        PROVE  i.work \notin synced'
    <3>1. i \in jobs /\ i # j /\ i.work \notin synced
      BY <2>1, <2>2 DEF DecisionInv
    <3>2. CASE j.work.rk \in C!SyncKeys
      BY <2>1, <2>2, <3>1, <3>2 DEF DecisionInv
    <3> QED
      BY <2>1, <3>1, <3>2
  <2> QED
    BY <2>1, <2>2 DEF DecisionInv
<1>10. CASE (\E j \in jobs: C!SaveSalonFails(j) \/ C!EmitThrows(j)) \/ C!CatalogueCrash
  BY <1>2, <1>10 DEF C!SaveSalonFails, C!EmitThrows, C!CatalogueCrash, C!CatalogueDies
<1> QED
  BY <1>3, <1>5, <1>6, <1>7, <1>8, <1>9, <1>10 DEF StorefrontNext, C!CatalogueNext, storefrontVars

\* The status of a salon changes only when the decision of an admin is saved,
\* and to what was decided: no rating saved late from an older copy undoes it.
THEOREM OnlyAdminDecides == StorefrontSpec => StatusIsDecided
<1> DEFINE Decided(s) ==
      \E e \in bus: /\ e.rk = "admin.salon.status" /\ e.salon = s
                    /\ e.status = salon'[s].status
                    /\ e \notin synced
<1>1. ASSUME StoreInv, DecisionInv, [StorefrontNext]_storefrontVars,
             NEW s \in Salons, salon[s] # C!NoSalon, salon'[s].status # salon[s].status
      PROVE  Decided(s)
  <2>1. salon \in [Salons -> C!Documents]
    BY <1>1 DEF StoreInv, TypeInv, StorefrontTypeOK, C!CatalogueTypeOK
  <2>2. ~UNCHANGED salon
    BY <1>1
  <2>3. CASE \E c \in OwnerCalls: C!CreateSalon(c)
    <3>1. PICK c \in OwnerCalls, t \in Salons:
            salon[t] = C!NoSalon /\ salon' = [salon EXCEPT ![t] = [C!NoSalon EXCEPT !.status = "active"]]
      BY <2>3 DEF C!CreateSalon
    <3> QED
      BY <1>1, <2>1, <3>1
  <2>4. CASE \E j \in jobs: C!SaveSalon(j)
    <3>1. PICK j \in jobs: salon' = [salon EXCEPT ![j.work.salon] = C!Saved(salon[j.work.salon], j)]
      BY <2>4 DEF C!SaveSalon
    <3>2. j.work.salon = s /\ salon'[s] = C!Saved(salon[s], j)
      BY <1>1, <2>1, <3>1
    <3>3. j.copy.status # j.loaded.status /\ salon'[s].status = j.copy.status
      BY <1>1, <2>1, <3>2, SavedTyped DEF StoreInv, TypeInv, StorefrontTypeOK, C!CatalogueTypeOK
    <3>4. j.work.rk = "admin.salon.status" /\ j.work.status = j.copy.status /\ j.work \in bus /\ j.work \notin synced
      BY <1>1, <3>3 DEF DecisionInv, StoreInv, TypeInv, RunsOfMessages, C!SyncKeys
    <3> QED
      BY <3>2, <3>3, <3>4
  <2> QED
    BY <1>1, <2>2, <2>3, <2>4
    DEF StorefrontNext, storefrontVars, catalogueVars, C!CatalogueNext, C!AddService, C!Sync, C!EmitUpserted,
        C!SaveSalonFails, C!EmitThrows, C!CatalogueCrash, C!CatalogueDies
<1>2. StoreInv /\ DecisionInv /\ [StorefrontNext]_storefrontVars =>
        [\A s \in Salons: salon[s] # C!NoSalon /\ salon'[s].status # salon[s].status => Decided(s)]_salon
  BY <1>1
<1> QED
  BY <1>2, StoreInit, StoreStep, DecisionInit, DecisionStep, PTL
  DEF StorefrontSpec, StatusIsDecided, C!StatusIsDecided
=============================================================================
