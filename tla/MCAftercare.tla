---------------------------- MODULE MCAftercare ------------------------------
(***************************************************************************)
(* Instances of Aftercare for TLC.                                         *)
(***************************************************************************)
EXTENDS Aftercare

CONSTANTS b1, c1, o1, k2, k3

\* One customer and one owner; the visits are worth 2 and 3 points.
MCCustomerOf == [b \in Bookings |-> c1]
MCOwnerOf == [b \in Bookings |-> o1]
MCAmount == [b \in Bookings |-> IF b = b1 THEN 25 ELSE 30]
MCDisputeOf == [d \in Disputes |-> b1]

\* A rate sent as a number, one sent as text and one not sent at all.
MCSent == [k \in RateCalls |-> IF k = k2 THEN "text" ELSE IF k = k3 THEN "missing" ELSE "number"]
=============================================================================
