----------------------------- MODULE MCBooking ------------------------------
(***************************************************************************)
(* Instances of Booking for TLC.                                           *)
(***************************************************************************)
EXTENDS Booking, TLC

\* One resource, two start times half an hour apart whose appointments
\* intersect: two calls may ask for the same slot or for overlapping ones.
MCSlots == {[resource |-> "salon1", start |-> 1, blockedUntil |-> 3],
            [resource |-> "salon1", start |-> 2, blockedUntil |-> 4]}

MCOneSlot == {[resource |-> "salon1", start |-> 1, blockedUntil |-> 3]}

MCSymmetry == Permutations(Bookings)
=============================================================================
