------------------------------- MODULE Search --------------------------------
(***************************************************************************)
(* The search service (search.service.ts): a read model built from the     *)
(* snapshots the catalogue announces. Queries only read; the prices and    *)
(* categories kept beside the services are functions of them and left out. *)
(***************************************************************************)
EXTENDS Naturals

CONSTANTS
  Salons,          \* ids of salons
  SearchFaults,    \* which faults may happen: "crash", "db"
  MaxSearchCrashes \* bound on the number of crashes

VARIABLES
  index,     \* index[s]: the document of salon_index for salon s
  indexed,   \* the messages acknowledged
  unindexed, \* the messages dead-lettered
  bus,       \* the exchange, shared with the other services
  searchCrashes

searchVars == <<index, indexed, unindexed, searchCrashes>>

NotIndexed == [status |-> "none", avg |-> 0, count |-> 0, services |-> {}]

SearchInit ==
  /\ index = [s \in Salons |-> NotIndexed]
  /\ indexed = {}
  /\ unindexed = {}
  /\ searchCrashes = 0

Unread(e) == e \in bus \ (indexed \cup unindexed) /\ e.rk = "salon.upserted"

\* updateOne with upsert replaces every field. The updates of messages that
\* arrive together go over different connections and may swap.
Upsert(e) ==
  /\ Unread(e)
  /\ index' = [index EXCEPT ![e.salon] = e.snapshot]
  /\ indexed' = indexed \cup {e}
  /\ UNCHANGED <<unindexed, bus, searchCrashes>>

\* MongoDB refuses the update and the message is dead-lettered.
UpsertFails(e) ==
  /\ "db" \in SearchFaults
  /\ Unread(e)
  /\ unindexed' = unindexed \cup {e}
  /\ UNCHANGED <<index, indexed, bus, searchCrashes>>

\* The process dies before the acknowledgement: the message is delivered,
\* and its snapshot applied, once more, perhaps after newer ones.
UpsertAndDie(e) ==
  /\ "crash" \in SearchFaults
  /\ searchCrashes < MaxSearchCrashes
  /\ Unread(e)
  /\ searchCrashes' = searchCrashes + 1
  /\ index' = [index EXCEPT ![e.salon] = e.snapshot]
  /\ UNCHANGED <<indexed, unindexed, bus>>

SearchNext == \E e \in bus: Upsert(e) \/ UpsertFails(e) \/ UpsertAndDie(e)

SearchFairness == WF_<<searchVars, bus>>(\E e \in bus: Upsert(e))

-----------------------------------------------------------------------------

\* The state stays in its types.
SearchTypeOK ==
  /\ \A s \in Salons: DOMAIN index[s] = DOMAIN NotIndexed
  /\ indexed \cup unindexed \subseteq bus
  /\ searchCrashes \in 0..MaxSearchCrashes
=============================================================================
