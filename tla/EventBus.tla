------------------------------ MODULE EventBus -------------------------------
(***************************************************************************)
(* event-bus.service.ts, of which every service has a copy: one process,   *)
(* its connection to RabbitMQ, and the queue it consumes. amqplib and the  *)
(* broker are modelled as the code uses them.                              *)
(***************************************************************************)
EXTENDS Naturals, FiniteSets

CONSTANTS
  Messages,           \* what other services publish for this one
  Events,             \* what this one publishes
  MaxAttempts,        \* how often connectWithRetry tries: 20
  MaxLosses,          \* bounds: connections lost,
  MaxBrokerRestarts,  \*   restarts of the broker,
  MaxStarts           \*   starts of the process

ASSUME EventBusBounds ==
  /\ MaxAttempts \in Nat \ {0} /\ MaxStarts \in Nat \ {0}
  /\ MaxLosses \in Nat /\ MaxBrokerRestarts \in Nat

VARIABLES
  process,   \* "connecting", "subscribing", "consuming" (before consume answers), "running", "exited"
  link,      \* the connection with its channel: "up", "down"
  channel,   \* which channel this.channel is, by number; 0 when undefined
  attempt,   \* the parameter of connectWithRetry
  consumer,  \* the channel that consume was called on, 0 for none
  tags,      \* the deliveries made on this channel so far
  bound,     \* the queue exists with its bindings
  at,        \* at[m]: "unsent", "waiting", "unacked", "settled", "lost"
  tagOf,     \* tagOf[m]: the delivery tag of an unacknowledged message
  runs,      \* the handler runs: [msg, tag]
  finished,  \* the messages whose handler has returned or thrown
  out,       \* out[e]: "unpublished", "wire", "arrived", "refused", "dropped", "lost"
  losses, brokerRestarts, starts

linkVars == <<link, channel, attempt, consumer, tags>>
brokerVars == <<bound, at, tagOf>>
faultVars == <<losses, brokerRestarts, starts>>
eventBusVars == <<process, linkVars, brokerVars, runs, finished, out, faultVars>>

EventBusInit ==
  /\ process = "connecting"
  /\ link = "down" /\ channel = 0 /\ attempt = 1 /\ consumer = 0 /\ tags = 0
  /\ bound = FALSE
  /\ at = [m \in Messages |-> "unsent"]
  /\ tagOf = [m \in Messages |-> 0]
  /\ runs = {}
  /\ finished = {}
  /\ out = [e \in Events |-> "unpublished"]
  /\ losses = 0 /\ brokerRestarts = 0 /\ starts = 1

-----------------------------------------------------------------------------
(* The broker, and what a lost connection means to it.                     *)

\* What has not been acknowledged goes back to the queue.
Requeued == [m \in Messages |-> IF at[m] = "unacked" THEN "waiting" ELSE at[m]]

\* What was not yet sent is gone: there are no publisher confirms.
WireLost == [e \in Events |-> IF out[e] = "wire" THEN "lost" ELSE out[e]]

\* Another service publishes: without a queue the broker drops the message.
Incoming(m) ==
  /\ at[m] = "unsent"
  /\ at' = [at EXCEPT ![m] = IF bound THEN "waiting" ELSE "lost"]
  /\ UNCHANGED <<process, linkVars, bound, tagOf, runs, finished, out, faultVars>>

\* While consume is pending, its rejection ends onModuleInit and the process.
LoseConnection ==
  /\ losses < MaxLosses /\ losses' = losses + 1
  /\ link = "up" /\ link' = "down"
  /\ at' = Requeued
  /\ out' = WireLost
  /\ attempt' = 1
  /\ process' = IF process = "consuming" THEN "exited" ELSE process
  /\ runs' = IF process = "consuming" THEN {} ELSE runs
  /\ UNCHANGED <<channel, consumer, tags, bound, tagOf, finished, brokerRestarts, starts>>

\* The broker keeps its data on a tmpfs: queues, bindings and messages go.
BrokerRestarts ==
  /\ brokerRestarts < MaxBrokerRestarts /\ brokerRestarts' = brokerRestarts + 1
  /\ link = "down"
  /\ bound' = FALSE
  /\ at' = [m \in Messages |-> IF at[m] = "waiting" THEN "lost" ELSE at[m]]
  /\ UNCHANGED <<process, linkVars, tagOf, runs, finished, out, losses, starts>>

-----------------------------------------------------------------------------
(* The process.                                                            *)

\* It ends with whatever it was doing, and its connection with it.
Exit ==
  /\ process' = "exited"
  /\ link' = "down"
  /\ at' = Requeued
  /\ out' = WireLost
  /\ runs' = {}
  /\ UNCHANGED <<channel, attempt, consumer, tags, bound, tagOf>>

Crash ==
  /\ process # "exited"
  /\ starts < MaxStarts  \* the crash is bounded with the start that follows
  /\ Exit
  /\ UNCHANGED <<finished, faultVars>>

Start ==
  /\ process = "exited"
  /\ starts < MaxStarts /\ starts' = starts + 1
  /\ process' = "connecting"
  /\ channel' = 0 /\ attempt' = 1 /\ consumer' = 0 /\ tags' = 0
  /\ UNCHANGED <<link, brokerVars, runs, finished, out, losses, brokerRestarts>>

\* Variation: consume is called again on the new channel.
Connect_Resubscribes ==
  /\ process # "exited" /\ link = "down"
  /\ link' = "up"
  /\ channel' = channel + 1
  /\ tags' = 0
  /\ process' = IF process = "connecting" THEN "subscribing" ELSE process
  /\ consumer' = IF process = "running" /\ bound THEN channel + 1 ELSE consumer
  /\ UNCHANGED <<attempt, brokerVars, runs, finished, out, faultVars>>

\* connectWithRetry, at the start or after a close. It asserts the exchange and
\* nothing else; the consumer stays on the channel it was.
Connect ==
  /\ process # "exited" /\ link = "down"
  /\ link' = "up"
  /\ channel' = channel + 1
  /\ tags' = 0
  /\ process' = IF process = "connecting" THEN "subscribing" ELSE process
  /\ UNCHANGED <<attempt, consumer, brokerVars, runs, finished, out, faultVars>>

\* After the last attempt nobody catches what it throws.
ConnectFails ==
  /\ process # "exited" /\ link = "down"
  /\ IF attempt < MaxAttempts
     THEN attempt' = attempt + 1 /\ UNCHANGED <<process, link, channel, consumer, tags, brokerVars, runs, out>>
     ELSE Exit
  /\ UNCHANGED <<finished, faultVars>>

\* subscribe, once per process: assert and bind the queue,
BindQueue ==
  /\ process = "subscribing" /\ link = "up"
  /\ process' = "consuming"
  /\ bound' = TRUE
  /\ consumer' = channel
  /\ UNCHANGED <<link, channel, attempt, tags, at, tagOf, runs, finished, out, faultVars>>

\* and consume, with whose answer onModuleInit is done and requests are let in.
Consume ==
  /\ process = "consuming"
  /\ process' = "running"
  /\ UNCHANGED <<linkVars, brokerVars, runs, finished, out, faultVars>>

\* On a channel that is closed it throws, and nobody catches that either.
SubscribeFails ==
  /\ process = "subscribing" /\ link = "down"
  /\ Exit
  /\ UNCHANGED <<finished, faultVars>>

-----------------------------------------------------------------------------
(* Consuming.                                                              *)

Listening == link = "up" /\ consumer = channel /\ channel # 0

\* There is no prefetch limit: deliveries do not wait for acknowledgements.
Deliver(m) ==
  /\ Listening
  /\ at[m] = "waiting"
  /\ tags' = tags + 1
  /\ at' = [at EXCEPT ![m] = "unacked"]
  /\ tagOf' = [tagOf EXCEPT ![m] = tags + 1]
  /\ runs' = runs \cup {[msg |-> m, tag |-> tags + 1]}
  /\ UNCHANGED <<process, link, channel, attempt, consumer, bound, finished, out, faultVars>>

\* What a tag means on the channel that this.channel is now.
Tagged(tag) == {m \in Messages: at[m] = "unacked" /\ tagOf[m] = tag}

\* Variation: the handler returns early and the acknowledgement is skipped.
RunEnds_NotAcknowledged(r) ==
  /\ link = "up" /\ Tagged(r.tag) # {}
  /\ runs' = runs \ {r}
  /\ finished' = finished \cup {r.msg}
  /\ UNCHANGED <<process, linkVars, brokerVars, out, faultVars>>

\* The handler returns and is acknowledged, or throws and is rejected without
\* requeue; nobody reads the dead letters. Both go by tag, over this.channel.
RunEnds(r) ==
  /\ link = "up" /\ Tagged(r.tag) # {}
  /\ runs' = runs \ {r}
  /\ finished' = finished \cup {r.msg}
  /\ at' = [m \in Messages |-> IF m \in Tagged(r.tag) THEN "settled" ELSE at[m]]
  /\ UNCHANGED <<process, linkVars, bound, tagOf, out, faultVars>>

\* On a closed channel ack throws, and so does nack in the catch block: the
\* rejection ends the process.
RunEndsUnheard(r) ==
  /\ link = "down"
  /\ finished' = finished \cup {r.msg}
  /\ Exit
  /\ UNCHANGED faultVars

\* A tag of a former channel is unknown: the broker closes the channel, and
\* amqplib ends the connection or, as nobody listens for the error, the process.
RunEndsRefused(r) ==
  /\ link = "up" /\ Tagged(r.tag) = {}
  /\ finished' = finished \cup {r.msg}
  /\ \/ Exit
     \/ /\ link' = "down" /\ at' = Requeued /\ out' = WireLost /\ attempt' = 1
        /\ runs' = runs \ {r}
        /\ UNCHANGED <<process, channel, consumer, tags, bound, tagOf>>
  /\ UNCHANGED faultVars

-----------------------------------------------------------------------------
(* Publishing.                                                             *)

\* Variation: requests are let in before the first connection is made.
Publish_NotAwaited(e) ==
  /\ process # "exited"
  /\ out[e] = "unpublished"
  /\ out' = [out EXCEPT ![e] = IF channel = 0 THEN "dropped"
                               ELSE IF link = "up" THEN "wire" ELSE "refused"]
  /\ UNCHANGED <<process, linkVars, brokerVars, runs, finished, faultVars>>

\* publish drops the event when there is no channel, and throws when it is
\* closed. Requests and the cron start when the process runs, handlers before.
Publish(e) ==
  /\ process = "running" \/ runs # {}
  /\ out[e] = "unpublished"
  /\ out' = [out EXCEPT ![e] = IF channel = 0 THEN "dropped"
                               ELSE IF link = "up" THEN "wire" ELSE "refused"]
  /\ UNCHANGED <<process, linkVars, brokerVars, runs, finished, faultVars>>

Arrive(e) ==
  /\ out[e] = "wire"
  /\ out' = [out EXCEPT ![e] = "arrived"]
  /\ UNCHANGED <<process, linkVars, brokerVars, runs, finished, faultVars>>

-----------------------------------------------------------------------------

RunStep(r) == RunEnds(r) \/ RunEndsUnheard(r) \/ RunEndsRefused(r)

EventBusNext ==
  \/ LoseConnection \/ BrokerRestarts \/ Crash \/ Start
  \/ Connect \/ ConnectFails \/ BindQueue \/ Consume \/ SubscribeFails
  \/ \E m \in Messages: Incoming(m) \/ Deliver(m)
  \/ \E r \in runs: RunStep(r)
  \/ \E e \in Events: Publish(e) \/ Arrive(e)

\* The broker delivers, handlers come to an end, the event loop goes on. Nobody
\* has to start the process again or to publish anything.
EventBusFairness ==
  /\ WF_eventBusVars(Connect) /\ WF_eventBusVars(BindQueue \/ Consume)
  /\ WF_eventBusVars(\E m \in Messages: Deliver(m))
  /\ WF_eventBusVars(\E r \in runs: RunStep(r))

EventBusSpec == EventBusInit /\ [][EventBusNext]_eventBusVars /\ EventBusFairness

-----------------------------------------------------------------------------
(* Properties.                                                             *)

\* The type of the state.
EventBusTypeOK ==
  /\ process \in {"connecting", "subscribing", "consuming", "running", "exited"}
  /\ link \in {"up", "down"} /\ bound \in BOOLEAN
  /\ channel \in Nat /\ attempt \in Nat /\ consumer \in Nat /\ tags \in Nat
  /\ at \in [Messages -> {"unsent", "waiting", "unacked", "settled", "lost"}]
  /\ tagOf \in [Messages -> Nat]
  /\ runs \subseteq [msg: Messages, tag: Nat]
  /\ finished \subseteq Messages
  /\ out \in [Events -> {"unpublished", "wire", "arrived", "refused", "dropped", "lost"}]
  /\ losses \in Nat /\ brokerRestarts \in Nat /\ starts \in Nat

\* publish never finds the channel undefined: an event whose publish returned
\* is lost only with its connection.
NothingDropped == \A e \in Events: out[e] # "dropped"

\* The queue is what its consumers take it to be: a message goes with the run
\* that has handled it, although runs acknowledge by tag over whatever channel
\* this.channel is by then; and it never has two runs at once.
D == INSTANCE Delivery WITH
  fate <- [m \in Messages |-> IF at[m] \in {"waiting", "unacked"} THEN "queued" ELSE at[m]],
  runs <- [m \in Messages |-> Cardinality({r \in runs: r.msg = m})]
DeliverySpec == D!DeliverySpec

\* As long as the consumer is on the channel of the day, every message of the
\* queue is settled. (After a reconnect it is not, and messages wait until the
\* process is started again.)
HeardIsSettled ==
  []<>(~Listening \/ \A m \in Messages: at[m] \notin {"waiting", "unacked"})
=============================================================================
