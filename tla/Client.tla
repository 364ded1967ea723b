------------------------------- MODULE Client --------------------------------
(***************************************************************************)
(* The frontend with what it talks to: being signed in (Session, over the  *)
(* accounts of Identity) and choosing a slot (SalonPage). A click of the   *)
(* page is one call of the session; CarriedOutOnce is what the page needs  *)
(* of it, so a behaviour looks at the one or at the other.                 *)
(***************************************************************************)
EXTENDS Integers, Session

CONSTANTS
  Services, Duration, Buffer, Dates, Day, Step, Hours, Closed, OtherRows, Clicks, Unset,
  Watched  \* what behaviours look at: "session", "page"

ASSUME WatchedKnown == Watched \subseteq {"session", "page"}

ASSUME PageFacts ==
  /\ Dates \subseteq Nat /\ 0 \in Dates  \* today, which the page begins with
  /\ Day \in Nat \ {0} /\ Step \in Nat \ {0}
  /\ Duration \in [Services -> Nat \ {0}] /\ Buffer \in [Services -> Nat]
  /\ \A d \in Dates: Hours[d] # Closed => Hours[d].open \in 0..Day /\ Hours[d].close \in 0..Day
  /\ OtherRows \subseteq [start: Int, until: Int]
  /\ \A r \in OtherRows: r.start < r.until

VARIABLES
  active, locks, rows, service, date, list, slot, click,
  watched  \* what this behaviour looks at

P == INSTANCE SalonPage

pageVars == <<active, locks, rows, service, date, list, slot, click>>
clientVars == <<identityVars, sessionVars, pageVars, watched>>

ClientInit ==
  /\ IdentityInit /\ SessionInit /\ P!PageInit
  /\ watched \in Watched

ClientNext ==
  \/ watched = "session" /\ SessionNext /\ UNCHANGED <<pageVars, watched>>
  \/ watched = "page" /\ P!PageNext /\ UNCHANGED <<identityVars, sessionVars, watched>>

ClientSpec == ClientInit /\ [][ClientNext]_clientVars

-----------------------------------------------------------------------------
(* Properties: see SalonPage.                                              *)

\* What the page books lies within the opening hours,
BookedWithinHours == P!BookedWithinHours
\* and meets a booking, in create's conflict check, only if it was made since the
\* slots were listed, or begins on a later day.
ConflictOnlyIfTakenSince == P!ConflictOnlyIfTakenSince
=============================================================================
