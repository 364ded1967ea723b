------------------------------ MODULE MCClient -------------------------------
(***************************************************************************)
(* Instances of Client for TLC.                                            *)
(***************************************************************************)
EXTENDS Client, TLC

CONSTANTS r1, r2, t1, s1, s2

\* Two registrations of one address in two spellings, beside the admin's.
MCEmail == [p \in Registrations \cup {Admin} |->
             IF p = r1 THEN "ann" ELSE IF p = r2 THEN "Ann" ELSE "admin"]
MCLower == [a \in {"ann", "Ann", "admin"} |-> IF a = "Ann" THEN "ann" ELSE a]

\* The calls are made by one tab; in the other somebody signs in and out.
MCTabOf == [c \in Calls |-> t1]
MCSymmetry == Permutations(Calls)

\* A day has eight units, a slot begins every two. The last slot of the first
\* day is one for the short service only, which then blocks time of the
\* second day, where others may have a booking from the beginning.
MCDuration == [s \in Services |-> IF s = s1 THEN 1 ELSE 2]
MCBuffer == [s \in Services |-> IF s = s1 THEN 2 ELSE 1]
MCHours == [d \in Dates |-> IF d = 0 THEN [open |-> 4, close |-> 7] ELSE [open |-> 0, close |-> 4]]
MCOtherRows == {[start |-> 5, until |-> 7], [start |-> 8, until |-> 10]}
=============================================================================
