------------------------------- MODULE Reviews -------------------------------
(***************************************************************************)
(* The review service (reviews.service.ts): which visits may be reviewed,  *)
(* the reviews, and the ratings it announces. Handlers are cut at their    *)
(* awaits. Texts, names and the owner's reply are left out.                *)
(***************************************************************************)
EXTENDS Naturals, FiniteSets, FiniteSetsExt

CONSTANTS
  Visits,            \* completed bookings, each of one salon
  SalonOf,           \* SalonOf[v]: the salon of visit v
  Stars,             \* Stars[v]: the rating, 1 to 5, its customer would give
  Reviewers,         \* HTTP calls of create, each made once
  ReviewFaults,      \* which faults may happen: "crash", "bus", "db"
  MaxReviewCrashes   \* bound on the number of crashes

VARIABLES
  elig,          \* elig[v]: the document of review_eligibility for visit v
  reviews,       \* the visits that have a review
  rpc,           \* rpc[w]: where call w of create stands
  rcall,         \* rcall[w]: the visit it reviews and the rating it has computed
  registered,    \* the messages acknowledged
  unregistered,  \* the messages dead-lettered
  bus,           \* the exchange, shared with the other services
  reviewCrashes  \* how often the service has crashed

reviewVars == <<elig, reviews, rpc, rcall, registered, unregistered, reviewCrashes>>

-----------------------------------------------------------------------------

NoRating == [avg |-> 0, count |-> 0]

\* Variation: the average is not scaled back.
Rating_Scaled(V) ==
  LET n == Cardinality(V)
      sum == MapThenSumSet(LAMBDA v: Stars[v], V)
  IN IF V = {} THEN NoRating ELSE [avg |-> (200 * sum + n) \div (2 * n), count |-> n]

\* Math.round(avg * 10) / 10 and the count, the average kept in tenths.
Rating(V) ==
  LET n == Cardinality(V)
      sum == MapThenSumSet(LAMBDA v: Stars[v], V)
  IN IF V = {} THEN NoRating ELSE [avg |-> (20 * sum + n) \div (2 * n), count |-> n]

SalonReviews(s) == {v \in reviews: SalonOf[v] = s}

CompletedEvent(v) == [rk |-> "booking.completed", salon |-> SalonOf[v], by |-> v]

RatingEvent(w) ==
  [rk |-> "salon.rating.updated", salon |-> SalonOf[rcall[w].visit],
   rating |-> rcall[w].rating, by |-> w]

ReviewsInit ==
  /\ elig = [v \in Visits |-> "none"]
  /\ reviews = {}
  /\ rpc = [w \in Reviewers |-> "idle"]
  /\ rcall = [w \in Reviewers |-> [visit |-> "none", rating |-> NoRating]]
  /\ registered = {}
  /\ unregistered = {}
  /\ reviewCrashes = 0

-----------------------------------------------------------------------------
(* The consumer of booking.completed.                                      *)

Registrable(e) ==
  e \in bus \ (registered \cup unregistered) /\ e.rk = "booking.completed"

\* An upsert that sets its fields on insert only.
Eligible(V) == [v \in Visits |-> IF v \in V /\ elig[v] = "none" THEN "open" ELSE elig[v]]

\* The update is applied and the message acknowledged.
Register(e) ==
  /\ Registrable(e)
  /\ elig' = Eligible({e.by})
  /\ registered' = registered \cup {e}
  /\ UNCHANGED <<reviews, rpc, rcall, unregistered, bus, reviewCrashes>>

\* Variation: the error is caught in the handler, the message acknowledged.
RegisterFails_Swallowed(e) ==
  /\ "db" \in ReviewFaults
  /\ Registrable(e)
  /\ registered' = registered \cup {e}
  /\ UNCHANGED <<elig, reviews, rpc, rcall, unregistered, bus, reviewCrashes>>

\* MongoDB refuses the update and the message is dead-lettered.
RegisterFails(e) ==
  /\ "db" \in ReviewFaults
  /\ Registrable(e)
  /\ unregistered' = unregistered \cup {e}
  /\ UNCHANGED <<elig, reviews, rpc, rcall, registered, bus, reviewCrashes>>

-----------------------------------------------------------------------------
(* create: check eligibility, insert, mark as used, compute and announce.  *)

\* findOne: a call whose visit is not eligible or used up is refused at once
\* and has changed nothing.
Check(w) ==
  /\ rpc[w] = "idle"
  /\ \E v \in Visits:
       /\ elig[v] = "open"
       /\ rcall' = [rcall EXCEPT ![w].visit = v]
  /\ rpc' = [rpc EXCEPT ![w] = "eligible"]
  /\ UNCHANGED <<elig, reviews, registered, unregistered, bus, reviewCrashes>>

\* Variation: bookingId is not unique.
InsertReview_Duplicates(w) ==
  /\ rpc[w] = "eligible"
  /\ reviews' = reviews \cup {rcall[w].visit}
  /\ rpc' = [rpc EXCEPT ![w] = "inserted"]
  /\ UNCHANGED <<elig, rcall, registered, unregistered, bus, reviewCrashes>>

\* Variation: the insert is not awaited, and fails.
InsertReview_NotAwaited(w) ==
  /\ rpc[w] = "eligible"
  /\ rpc' = [rpc EXCEPT ![w] = "inserted"]
  /\ UNCHANGED <<elig, reviews, rcall, registered, unregistered, bus, reviewCrashes>>

\* The unique index on bookingId refuses a second review of a visit.
InsertReview(w) ==
  /\ rpc[w] = "eligible"
  /\ IF rcall[w].visit \in reviews
       THEN rpc' = [rpc EXCEPT ![w] = "refused"] /\ UNCHANGED reviews
       ELSE /\ reviews' = reviews \cup {rcall[w].visit}
            /\ rpc' = [rpc EXCEPT ![w] = "inserted"]
  /\ UNCHANGED <<elig, rcall, registered, unregistered, bus, reviewCrashes>>

MarkUsed(w) ==
  /\ rpc[w] = "inserted"
  /\ elig' = [elig EXCEPT ![rcall[w].visit] = "used"]
  /\ rpc' = [rpc EXCEPT ![w] = "marked"]
  /\ UNCHANGED <<reviews, rcall, registered, unregistered, bus, reviewCrashes>>

\* The aggregation of publishRating; reviews may come in before it publishes.
Aggregate(w) ==
  /\ rpc[w] = "marked"
  /\ rcall' = [rcall EXCEPT ![w].rating = Rating(SalonReviews(SalonOf[rcall[w].visit]))]
  /\ rpc' = [rpc EXCEPT ![w] = "computed"]
  /\ UNCHANGED <<elig, reviews, registered, unregistered, bus, reviewCrashes>>

PublishRating(w) ==
  /\ rpc[w] = "computed"
  /\ bus' = bus \cup {RatingEvent(w)}
  /\ rpc' = [rpc EXCEPT ![w] = "announced"]
  /\ UNCHANGED <<elig, reviews, rcall, registered, unregistered, reviewCrashes>>

\* A statement or the publish throws: the call is answered 500, what it has
\* written stays.
CreateThrows(w) ==
  /\ \/ "db" \in ReviewFaults /\ rpc[w] \in {"eligible", "inserted", "marked"}
     \/ "bus" \in ReviewFaults /\ rpc[w] = "computed"
  /\ rpc' = [rpc EXCEPT ![w] = IF @ = "eligible" THEN "refused" ELSE "broken"]
  /\ UNCHANGED <<elig, reviews, rcall, registered, unregistered, bus, reviewCrashes>>

\* Calls in progress are lost. A message is not, even if its update is
\* applied: it was not acknowledged and is delivered again.
ReviewsCrash ==
  /\ "crash" \in ReviewFaults
  /\ reviewCrashes < MaxReviewCrashes
  /\ reviewCrashes' = reviewCrashes + 1
  /\ rpc' = [w \in Reviewers |-> CASE rpc[w] = "eligible" -> "refused"
                                   [] rpc[w] \in {"inserted", "marked", "computed"} -> "broken"
                                   [] OTHER -> rpc[w]]
  /\ \E E \in SUBSET {e \in bus: Registrable(e)}: elig' = Eligible({e.by : e \in E})
  /\ UNCHANGED <<reviews, rcall, registered, unregistered, bus>>

Proceed(w) == InsertReview(w) \/ MarkUsed(w) \/ Aggregate(w) \/ PublishRating(w)

ReviewsNext ==
  \/ \E e \in bus: Register(e) \/ RegisterFails(e)
  \/ \E w \in Reviewers: Check(w) \/ Proceed(w) \/ CreateThrows(w)
  \/ ReviewsCrash

\* Messages are delivered and calls go on; nobody has to review.
ReviewsFairness ==
  /\ WF_<<reviewVars, bus>>(\E e \in bus: Register(e))
  /\ \A w \in Reviewers: WF_<<reviewVars, bus>>(Proceed(w))

-----------------------------------------------------------------------------
(* Properties.                                                             *)

\* The state stays in its types.
ReviewsTypeOK ==
  /\ elig \in [Visits -> {"none", "open", "used"}]
  /\ reviews \subseteq Visits
  /\ rpc \in [Reviewers -> {"idle", "eligible", "inserted", "marked", "computed",
                            "announced", "refused", "broken"}]
  /\ rcall \in [Reviewers -> [visit: Visits \cup {"none"}, rating: [avg: 0..50, count: Nat]]]
  /\ registered \cup unregistered \subseteq bus
  /\ reviewCrashes \in 0..MaxReviewCrashes

\* "One review per completed appointment": two calls never both write a review
\* of the same visit, however they race; a visit that is used up has a review,
\* and a review a completed visit.
OneReviewPerVisit ==
  /\ \A w, x \in Reviewers:
       /\ w # x
       /\ rpc[w] \notin {"idle", "eligible", "refused"}
       /\ rpc[x] \notin {"idle", "eligible", "refused"}
       => rcall[w].visit # rcall[x].visit
  /\ \A v \in Visits: elig[v] = "used" => v \in reviews
  /\ \A v \in reviews: CompletedEvent(v) \in bus

\* A rating announced after a review is that of reviews of the salon which
\* exist, the new one among them.
RatingsAreOfReviews ==
  \A e \in bus: e.rk = "salon.rating.updated" =>
    \E V \in SUBSET SalonReviews(e.salon): rcall[e.by].visit \in V /\ e.rating = Rating(V)

\* Every completed visit can be reviewed some time, or its message lies in
\* the dead-letter exchange.
VisitsReviewable ==
  \A v \in Visits: CompletedEvent(v) \in bus ~>
    elig[v] # "none" \/ CompletedEvent(v) \in unregistered
=============================================================================
