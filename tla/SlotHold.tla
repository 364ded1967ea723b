------------------------------ MODULE SlotHold ------------------------------
(***************************************************************************)
(* What the booking service promises about one bookable slot while its     *)
(* payment window runs, with nothing said about Redis, SQL or events:      *)
(* at most one claim holds a slot, a claim is taken only on a free slot,   *)
(* and the slot is free again before the next claim gets it.               *)
(***************************************************************************)
CONSTANTS Keys,      \* the bookable slots: a resource and a start time
          Claims,    \* the booking requests
          Nobody     \* no claim

VARIABLE holder      \* holder[k]: the claim that holds slot k, or Nobody

HoldTypeOK == holder \in [Keys -> Claims \cup {Nobody}]

Init == holder = [k \in Keys |-> Nobody]

Take(k) ==
  /\ holder[k] = Nobody
  /\ \E c \in Claims: holder' = [holder EXCEPT ![k] = c]

\* One claim is settled, or all claims in progress die with the service.
GiveUp ==
  \E K \in SUBSET Keys:
    /\ \A k \in K: holder[k] # Nobody
    /\ holder' = [k \in Keys |-> IF k \in K THEN Nobody ELSE holder[k]]

Next == GiveUp \/ \E k \in Keys: Take(k)

Spec == Init /\ [][Next]_holder

\* A slot is never held for ever: the claim is paid for, or it is released.
FairSpec == Spec /\ \A k \in Keys: WF_holder(GiveUp /\ holder[k] # Nobody /\ holder'[k] = Nobody)
=============================================================================
