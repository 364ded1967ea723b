------------------------------ MODULE Delivery -------------------------------
(***************************************************************************)
(* What the consumers of the system take a queue to be: a message is       *)
(* handled by one run at a time, leaves the queue with the run that has    *)
(* handled it, and comes again only when its run ended without that.       *)
(***************************************************************************)
EXTENDS Naturals

CONSTANT Messages

VARIABLES
  fate,     \* fate[m]: "unsent", "queued", "settled" or "lost"
  runs,     \* runs[m]: how many handler runs of m are in progress
  finished  \* the messages whose handler has come to an end

deliveryVars == <<fate, runs, finished>>

DeliveryInit ==
  /\ fate = [m \in Messages |-> "unsent"]
  /\ runs = [m \in Messages |-> 0]
  /\ finished = {}

\* A message nobody has a queue for is lost.
Send(m) ==
  /\ fate[m] = "unsent"
  /\ \E f \in {"queued", "lost"}: fate' = [fate EXCEPT ![m] = f]
  /\ UNCHANGED <<runs, finished>>

Take(m) ==
  /\ fate[m] = "queued" /\ runs[m] = 0
  /\ runs' = [runs EXCEPT ![m] = 1]
  /\ UNCHANGED <<fate, finished>>

Settle(m) ==
  /\ fate[m] = "queued" /\ runs[m] = 1
  /\ fate' = [fate EXCEPT ![m] = "settled"]
  /\ runs' = [runs EXCEPT ![m] = 0]
  /\ finished' = finished \cup {m}

\* Runs end without settling their messages, one of them perhaps finished: the
\* process has died, or there was nobody to tell.
GiveBack ==
  /\ \E S \in SUBSET Messages:
        /\ runs' = [m \in Messages |-> IF m \in S THEN 0 ELSE runs[m]]
        /\ finished' \in {finished} \cup {finished \cup {m}: m \in {n \in S: runs[n] = 1}}
  /\ UNCHANGED fate

\* The broker loses what it has.
Forget ==
  /\ fate' = [m \in Messages |-> IF fate[m] = "queued" THEN "lost" ELSE fate[m]]
  /\ UNCHANGED <<runs, finished>>

DeliveryNext ==
  \/ \E m \in Messages: Send(m) \/ Take(m) \/ Settle(m)
  \/ GiveBack
  \/ Forget

DeliverySpec == DeliveryInit /\ [][DeliveryNext]_deliveryVars
=============================================================================
