------------------------------ MODULE Exchange ------------------------------
(***************************************************************************)
(* Events on the topic exchange, as event-bus.service.ts publishes them.   *)
(* Every service keeps a queue of its own per subscription and starts a    *)
(* handler run per message without waiting for the one before, so order    *)
(* is lost and the exchange is a set. A handler run publishes a routing    *)
(* key at most once for a booking: with the name of its publisher in it,   *)
(* an event published twice is two elements.                               *)
(***************************************************************************)

Event(rk, booking, by, reason) ==
  [rk |-> rk, booking |-> booking, by |-> by, reason |-> reason]

\* Some handler has published rk for booking b.
PublishedOn(exchange, rk, b) == \E e \in exchange: e.rk = rk /\ e.booking = b
=============================================================================
