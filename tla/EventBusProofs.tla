--------------------------- MODULE EventBusProofs ----------------------------
(***************************************************************************)
(* Theorems about EventBus for any messages, events and bounds: what is    *)
(* published is not dropped, and the queue is the one Delivery describes.  *)
(***************************************************************************)
EXTENDS EventBus, FiniteSetTheorems, TLAPS

-----------------------------------------------------------------------------
(* The invariant.                                                          *)

BusShape ==
  /\ channel \in Nat /\ consumer \in Nat /\ tags \in Nat
  /\ at \in [Messages -> {"unsent", "waiting", "unacked", "settled", "lost"}]
  /\ tagOf \in [Messages -> Nat]
  /\ runs \subseteq [msg: Messages, tag: Nat]
  /\ DOMAIN out = Events

\* A process has a channel once it has connected, and a consumer on it, or on a
\* former one, once it has bound its queue; without a consumer nothing runs.
Started ==
  /\ process \in {"connecting", "subscribing", "consuming", "running", "exited"}
  /\ link \in {"up", "down"}
  /\ process \in {"connecting", "exited"} => link = "down"
  /\ process = "connecting" => consumer = 0
  /\ process = "subscribing" => consumer = 0
  /\ process = "exited" => runs = {}
  /\ process \in {"subscribing", "consuming", "running"} => channel # 0
  /\ consumer <= channel
  /\ consumer = 0 => runs = {}

\* A message has one run at most. While the consumer is on the channel of the day,
\* the runs are those of the messages that wait for an acknowledgement, and tags
\* tell these apart; when it is not, no message waits for one.
TagsTell ==
  /\ \A r, q \in runs: r.msg = q.msg => r = q
  /\ ~Listening => \A m \in Messages: at[m] # "unacked"
  /\ Listening => \A r \in runs: at[r.msg] = "unacked" /\ tagOf[r.msg] = r.tag
  /\ Listening => \A m \in Messages: at[m] = "unacked" => tagOf[m] <= tags
  /\ Listening => \A m, n \in Messages:
       at[m] = "unacked" /\ at[n] = "unacked" /\ tagOf[m] = tagOf[n] => m = n

BusInv == BusShape /\ Started /\ TagsTell

LEMMA BusInvInit == EventBusInit => BusInv
BY DEF EventBusInit, BusInv, BusShape, Started, TagsTell, Listening

\* The process ends: what it had not acknowledged is requeued.
LEMMA ExitKeeps ==
  ASSUME BusInv, Exit
  PROVE  BusInv'
BY DEF BusInv, BusShape, Started, TagsTell, Listening, Exit, Requeued, WireLost

\* The connection is lost, and perhaps the run that has caused it.
LEMMA LinkLost ==
  ASSUME BusInv, link' = "down", at' = Requeued, DOMAIN out' = Events,
         process' \in {process, "exited"}, process' = "exited" => runs' = {},
         runs' \subseteq runs,
         UNCHANGED <<channel, consumer, tags, tagOf>>
  PROVE  BusInv'
BY DEF BusInv, BusShape, Started, TagsTell, Listening, Requeued

LEMMA DeliverKeeps ==
  ASSUME BusInv, NEW m \in Messages, Deliver(m)
  PROVE  BusInv'
<1>1. BusShape'
  BY DEF BusInv, BusShape, Deliver
<1>2. Started'
  BY DEF BusInv, BusShape, Started, Deliver, Listening
<1>3. Listening /\ Listening'
  BY DEF Deliver, Listening
<1>4. \A r \in runs: r.msg # m
  BY <1>3 DEF Deliver, BusInv, TagsTell
<1>5. /\ at'[m] = "unacked" /\ tagOf'[m] = tags + 1
      /\ \A n \in Messages \ {m}: at'[n] = at[n] /\ tagOf'[n] = tagOf[n]
      /\ tags' = tags + 1
      /\ runs' = runs \cup {[msg |-> m, tag |-> tags + 1]}
  BY DEF Deliver, BusInv, BusShape
<1>6. TagsTell'
  <2>1. (\A r, q \in runs: r.msg = q.msg => r = q)'
    BY <1>4, <1>5 DEF BusInv, TagsTell
  <2>2. \A r \in runs': at'[r.msg] = "unacked" /\ tagOf'[r.msg] = r.tag
    BY <1>3, <1>4, <1>5 DEF BusInv, BusShape, TagsTell
  <2>3. \A n \in Messages: at'[n] = "unacked" => tagOf'[n] <= tags'
    BY <1>3, <1>5 DEF BusInv, BusShape, TagsTell
  <2>4. \A n, o \in Messages:
          at'[n] = "unacked" /\ at'[o] = "unacked" /\ tagOf'[n] = tagOf'[o] => n = o
    BY <1>3, <1>5 DEF BusInv, BusShape, TagsTell
  <2> QED
    BY <1>3, <2>1, <2>2, <2>3, <2>4 DEF TagsTell
<1> QED
  BY <1>1, <1>2, <1>6 DEF BusInv

\* An acknowledgement that finds a message finds that of its run.
LEMMA TagIsOwn ==
  ASSUME BusInv, NEW r \in runs, link = "up", Tagged(r.tag) # {}
  PROVE  Listening /\ Tagged(r.tag) = {r.msg} /\ at[r.msg] = "unacked"
<1>1. Listening
  BY DEF Tagged, BusInv, TagsTell
<1>2. at[r.msg] = "unacked" /\ tagOf[r.msg] = r.tag /\ r.msg \in Messages
  BY <1>1 DEF BusInv, BusShape, TagsTell
<1>3. \A m \in Tagged(r.tag): m = r.msg
  BY <1>1, <1>2 DEF Tagged, BusInv, TagsTell
<1> QED
  BY <1>1, <1>2, <1>3 DEF Tagged

LEMMA RunEndsKeeps ==
  ASSUME BusInv, NEW r \in runs, RunEnds(r)
  PROVE  BusInv'
<1>1. Listening /\ Tagged(r.tag) = {r.msg}
  BY TagIsOwn DEF RunEnds
<1>2. r.msg \in Messages
  BY DEF BusInv, BusShape
<1>3. /\ at' = [m \in Messages |-> IF m = r.msg THEN "settled" ELSE at[m]]
      /\ runs' = runs \ {r}
      /\ UNCHANGED <<process, linkVars, tagOf, out>>
  BY <1>1 DEF RunEnds
<1>4. BusShape' /\ Started'
  BY <1>3 DEF BusInv, BusShape, Started, linkVars
<1>5. \A q \in runs': q.msg # r.msg /\ q.msg \in Messages
  BY <1>3 DEF BusInv, BusShape, TagsTell
<1>6. Listening'
  BY <1>1, <1>3 DEF Listening, linkVars
<1>7. TagsTell'
  BY <1>1, <1>3, <1>5, <1>6 DEF BusInv, TagsTell, linkVars
<1> QED
  BY <1>4, <1>7 DEF BusInv

LEMMA BusStep ==
  ASSUME BusInv, [EventBusNext]_eventBusVars
  PROVE  BusInv'
<1>1. CASE UNCHANGED <<process, linkVars, at, tagOf, runs>> /\ DOMAIN out' = DOMAIN out
  BY <1>1 DEF BusInv, BusShape, Started, TagsTell, Listening, linkVars
<1>2. CASE LoseConnection
  <2>1. DOMAIN out' = Events
    BY <1>2 DEF LoseConnection, WireLost
  <2>2. process' = "exited" => runs' = {}
    BY <1>2 DEF LoseConnection, BusInv, Started
  <2>3. process' \in {process, "exited"} /\ runs' \subseteq runs
    BY <1>2 DEF LoseConnection
  <2> QED
    BY <1>2, <2>1, <2>2, <2>3, LinkLost DEF LoseConnection
<1>3. CASE BrokerRestarts
  BY <1>3 DEF BrokerRestarts, BusInv, BusShape, Started, TagsTell, Listening, linkVars
<1>4. CASE Crash \/ SubscribeFails \/ \E r \in runs: RunEndsUnheard(r)
  BY <1>4, ExitKeeps DEF Crash, SubscribeFails, RunEndsUnheard
<1>5. CASE Start
  BY <1>5 DEF Start, BusInv, BusShape, Started, TagsTell, Listening, brokerVars
<1>6. CASE Connect
  BY <1>6 DEF Connect, BusInv, BusShape, Started, TagsTell, Listening, brokerVars
<1>7. CASE ConnectFails
  <2>1. CASE Exit
    BY <2>1, ExitKeeps
  <2>2. CASE UNCHANGED <<process, link, channel, consumer, tags, brokerVars, runs, out>>
    BY <2>2 DEF BusInv, BusShape, Started, TagsTell, Listening, brokerVars
  <2> QED
    BY <1>7, <2>1, <2>2 DEF ConnectFails
<1>8. CASE BindQueue \/ Consume
  BY <1>8 DEF BindQueue, Consume, BusInv, BusShape, Started, TagsTell, Listening, linkVars, brokerVars
<1>9. ASSUME NEW m \in Messages, Incoming(m)
      PROVE  BusInv'
  BY <1>9 DEF Incoming, BusInv, BusShape, Started, TagsTell, Listening, linkVars
<1>10. ASSUME NEW m \in Messages, Deliver(m)
       PROVE  BusInv'
  BY <1>10, DeliverKeeps
<1>11. ASSUME NEW r \in runs, RunEnds(r)
       PROVE  BusInv'
  BY <1>11, RunEndsKeeps
<1>12. ASSUME NEW r \in runs, RunEndsRefused(r)
       PROVE  BusInv'
  <2>1. CASE Exit
    BY <2>1, ExitKeeps
  <2>2. CASE /\ link' = "down" /\ at' = Requeued /\ out' = WireLost
             /\ runs' = runs \ {r}
             /\ UNCHANGED <<process, channel, consumer, tags, bound, tagOf>>
    <3>1. DOMAIN out' = Events
      BY <2>2 DEF WireLost
    <3>2. process' = "exited" => runs' = {}
      BY <2>2 DEF BusInv, Started
    <3> QED
      BY <2>2, <3>1, <3>2, LinkLost
  <2> QED
    BY <1>12, <2>1, <2>2 DEF RunEndsRefused
<1>13. ASSUME NEW e \in Events, Publish(e) \/ Arrive(e)
       PROVE  BusInv'
  BY <1>1, <1>13 DEF Publish, Arrive, brokerVars
<1>14. CASE UNCHANGED eventBusVars
  BY <1>1, <1>14 DEF eventBusVars, brokerVars
<1> QED
  BY <1>2, <1>3, <1>4, <1>5, <1>6, <1>7, <1>8, <1>9, <1>10, <1>11, <1>12, <1>13, <1>14
  DEF EventBusNext, RunStep

LEMMA BusInvariant == EventBusSpec => []BusInv
BY BusInvInit, BusStep, PTL DEF EventBusSpec

-----------------------------------------------------------------------------
(* Publishing.                                                             *)

\* Whoever publishes, a request, the cron or a handler, the channel is there.
LEMMA PublishStep ==
  ASSUME BusInv, DOMAIN out = Events, NothingDropped, [EventBusNext]_eventBusVars
  PROVE  NothingDropped'
<1>1. CASE out' \in {out, WireLost}
  BY <1>1 DEF NothingDropped, WireLost
<1>2. ASSUME NEW e \in Events, Publish(e)
      PROVE  NothingDropped'
  <2>1. channel # 0
    BY <1>2 DEF Publish, BusInv, BusShape, Started
  <2> QED
    BY <1>2, <2>1 DEF Publish, NothingDropped
<1>3. ASSUME NEW e \in Events, Arrive(e)
      PROVE  NothingDropped'
  BY <1>3 DEF Arrive, NothingDropped
<1> QED
  BY <1>1, <1>2, <1>3
  DEF EventBusNext, RunStep, LoseConnection, BrokerRestarts, Crash, Exit, Start, Connect,
      ConnectFails, BindQueue, Consume, SubscribeFails, Incoming, Deliver, RunEnds,
      RunEndsUnheard, RunEndsRefused, eventBusVars

\* However often connections and processes come and go, no event whose publish
\* has returned was dropped for want of a channel.
THEOREM PublishHasChannel == EventBusSpec => []NothingDropped
<1>1. EventBusInit => NothingDropped
  BY DEF EventBusInit, NothingDropped
<1>2. BusInv /\ NothingDropped /\ [EventBusNext]_eventBusVars => NothingDropped'
  BY PublishStep DEF BusInv, BusShape
<1> QED
  BY <1>1, <1>2, BusInvariant, PTL DEF EventBusSpec
-----------------------------------------------------------------------------
(* The queue.                                                              *)

\* What DeliverySpec puts for fate and runs.
Fate == [m \in Messages |-> IF at[m] \in {"waiting", "unacked"} THEN "queued" ELSE at[m]]
Count == [m \in Messages |-> Cardinality({r \in runs: r.msg = m})]

LEMMA OneRun ==
  ASSUME NEW S, NEW m, \A r, q \in S: r.msg = q.msg => r = q
  PROVE  Cardinality({r \in S: r.msg = m}) = IF \E r \in S: r.msg = m THEN 1 ELSE 0
<1>1. CASE \E r \in S: r.msg = m
  <2>1. PICK r \in S: r.msg = m
    BY <1>1
  <2>2. {q \in S: q.msg = m} = {r}
    BY <2>1
  <2> QED
    BY <1>1, <2>2, FS_Singleton
<1>2. CASE ~\E r \in S: r.msg = m
  <2>1. {r \in S: r.msg = m} = {}
    BY <1>2
  <2> QED
    BY <1>2, <2>1, FS_EmptySet
<1> QED
  BY <1>1, <1>2

\* So a message counts one run or none.
LEMMA CountsOne ==
  ASSUME BusInv, BusInv'
  PROVE  \A m \in Messages:
           /\ Count[m] = IF \E r \in runs: r.msg = m THEN 1 ELSE 0
           /\ Count'[m] = IF \E r \in runs': r.msg = m THEN 1 ELSE 0
<1> TAKE m \in Messages
<1>1. Count[m] = IF \E r \in runs: r.msg = m THEN 1 ELSE 0
  BY OneRun DEF Count, BusInv, TagsTell
<1>2. Count'[m] = IF \E r \in runs': r.msg = m THEN 1 ELSE 0
  BY OneRun DEF Count, BusInv, TagsTell
<1> QED
  BY <1>1, <1>2

\* Runs that end without settling a message give it back.
LEMMA RunsGiveBack ==
  ASSUME BusInv, BusInv', UNCHANGED Fate, runs' \subseteq runs,
         finished' = finished \/ \E r \in runs \ runs': finished' = finished \cup {r.msg}
  PROVE  D!GiveBack
<1> DEFINE S == {m \in Messages: ~\E r \in runs': r.msg = m}
<1>1. Count' = [m \in Messages |-> IF m \in S THEN 0 ELSE Count[m]]
  <2>1. \A m \in Messages: Count'[m] = IF m \in S THEN 0 ELSE Count[m]
    BY CountsOne
  <2> QED
    BY <2>1 DEF Count
<1>2. finished' \in {finished} \cup {finished \cup {m}: m \in {n \in S: Count[n] = 1}}
  <2>1. CASE finished' = finished
    BY <2>1
  <2>2. ASSUME NEW r \in runs \ runs', finished' = finished \cup {r.msg}
        PROVE  finished' \in {finished \cup {m}: m \in {n \in S: Count[n] = 1}}
    <3>1. r.msg \in Messages /\ Count[r.msg] = 1
      BY CountsOne DEF BusInv, BusShape
    <3>2. r.msg \in S
      BY <3>1 DEF BusInv, TagsTell
    <3> QED
      BY <2>2, <3>1, <3>2
  <2> QED
    BY <2>1, <2>2
<1> HIDE DEF S
<1>3. S \in SUBSET Messages
  BY DEF S
<1>4. \E T \in SUBSET Messages:
        /\ Count' = [m \in Messages |-> IF m \in T THEN 0 ELSE Count[m]]
        /\ finished' \in {finished} \cup {finished \cup {m}: m \in {n \in T: Count[n] = 1}}
  BY <1>1, <1>2, <1>3
<1> QED
  BY <1>4 DEF D!GiveBack, Fate, Count

\* The end of the process, and the loss of its connection, give messages back.
LEMMA RequeuedFate ==
  ASSUME BusInv, at' = Requeued
  PROVE  UNCHANGED Fate
BY DEF Fate, Requeued, BusInv, BusShape

\* A delivery is a message taken: it had no run before.
LEMMA DeliverTakes ==
  ASSUME BusInv, BusInv', NEW m \in Messages, Deliver(m)
  PROVE  D!Take(m)
<1>1. at[m] = "waiting" /\ at' = [at EXCEPT ![m] = "unacked"] /\ UNCHANGED finished
  BY DEF Deliver
<1>2. UNCHANGED Fate /\ Fate[m] = "queued"
  BY <1>1 DEF Fate, BusInv, BusShape
<1>3. runs' = runs \cup {[msg |-> m, tag |-> tags + 1]}
  BY DEF Deliver
<1>4. \A r \in runs: r.msg # m
  BY <1>1 DEF Deliver, BusInv, TagsTell
<1>5. Count[m] = 0 /\ Count' = [Count EXCEPT ![m] = 1]
  <2>1. Count[m] = 0 /\ Count'[m] = 1
    BY <1>3, <1>4, CountsOne
  <2>2. \A n \in Messages \ {m}: Count'[n] = Count[n]
    BY <1>3, CountsOne
  <2> QED
    BY <2>1, <2>2 DEF Count
<1> QED
  BY <1>1, <1>2, <1>5 DEF D!Take, Fate, Count

\* An acknowledgement settles the message of its run, and no other.
LEMMA RunEndsSettles ==
  ASSUME BusInv, BusInv', NEW r \in runs, RunEnds(r)
  PROVE  D!Settle(r.msg)
<1>1. Tagged(r.tag) = {r.msg} /\ at[r.msg] = "unacked" /\ r.msg \in Messages
  BY TagIsOwn DEF RunEnds, BusInv, BusShape
<1>2. /\ at' = [m \in Messages |-> IF m = r.msg THEN "settled" ELSE at[m]]
      /\ runs' = runs \ {r} /\ finished' = finished \cup {r.msg}
  BY <1>1 DEF RunEnds
<1>3. Fate[r.msg] = "queued" /\ Fate' = [Fate EXCEPT ![r.msg] = "settled"]
  BY <1>1, <1>2 DEF Fate, BusInv, BusShape
<1>4. Count[r.msg] = 1 /\ Count' = [Count EXCEPT ![r.msg] = 0]
  <2>1. Count[r.msg] = 1
    BY <1>1, CountsOne
  <2>2. Count'[r.msg] = 0
    BY <1>1, <1>2, CountsOne DEF BusInv, TagsTell
  <2>3. \A n \in Messages \ {r.msg}: Count'[n] = Count[n]
    BY <1>2, CountsOne
  <2> QED
    BY <2>1, <2>2, <2>3 DEF Count
<1> QED
  BY <1>2, <1>3, <1>4 DEF D!Settle, Fate, Count

LEMMA QueueStep ==
  ASSUME BusInv, BusInv', [EventBusNext]_eventBusVars
  PROVE  [D!DeliveryNext]_D!deliveryVars
<1>1. CASE UNCHANGED <<at, runs, finished>>
  BY <1>1 DEF D!deliveryVars
<1>2. CASE LoseConnection
  BY <1>2, RequeuedFate, RunsGiveBack DEF LoseConnection, D!DeliveryNext
<1>3. CASE Exit /\ UNCHANGED finished
  BY <1>3, RequeuedFate, RunsGiveBack DEF Exit, D!DeliveryNext
<1>4. ASSUME NEW r \in runs, RunEndsUnheard(r) \/ RunEndsRefused(r)
      PROVE  D!DeliveryNext
  <2>1. /\ at' = Requeued /\ runs' \subseteq runs /\ r \notin runs'
        /\ finished' = finished \cup {r.msg}
    BY <1>4 DEF RunEndsUnheard, RunEndsRefused, Exit
  <2> QED
    BY <2>1, RequeuedFate, RunsGiveBack DEF D!DeliveryNext
<1>5. CASE BrokerRestarts
  <2>1. \A m \in Messages: at[m] # "unacked"
    BY <1>5 DEF BrokerRestarts, BusInv, TagsTell, Listening
  <2>2. Fate' = [m \in Messages |-> IF Fate[m] = "queued" THEN "lost" ELSE Fate[m]]
    BY <1>5, <2>1 DEF BrokerRestarts, Fate, BusInv, BusShape
  <2>3. UNCHANGED <<Count, finished>>
    BY <1>5 DEF BrokerRestarts, Count
  <2> QED
    BY <2>2, <2>3 DEF D!DeliveryNext, D!Forget, Fate, Count
<1>6. ASSUME NEW m \in Messages, Incoming(m)
      PROVE  D!DeliveryNext
  <2>1. PICK w \in {"waiting", "lost"}: at' = [at EXCEPT ![m] = w]
    BY <1>6 DEF Incoming
  <2>2. Fate[m] = "unsent"
    BY <1>6 DEF Incoming, Fate
  <2>3. \E f \in {"queued", "lost"}: Fate' = [Fate EXCEPT ![m] = f]
    BY <2>1 DEF Fate, BusInv, BusShape
  <2>4. UNCHANGED <<Count, finished>>
    BY <1>6 DEF Incoming, Count
  <2>5. D!Send(m)
    BY <2>2, <2>3, <2>4 DEF D!Send, Fate, Count
  <2> QED
    BY <2>5 DEF D!DeliveryNext
<1>7. ASSUME NEW m \in Messages, Deliver(m)
      PROVE  D!DeliveryNext
  BY <1>7, DeliverTakes DEF D!DeliveryNext
<1>8. ASSUME NEW r \in runs, RunEnds(r)
      PROVE  D!DeliveryNext
  <2>1. r.msg \in Messages
    BY DEF BusInv, BusShape
  <2> QED
    BY <1>8, <2>1, RunEndsSettles DEF D!DeliveryNext
<1> QED
  BY <1>1, <1>2, <1>3, <1>4, <1>5, <1>6, <1>7, <1>8
  DEF EventBusNext, RunStep, Crash, Start, Connect, ConnectFails, BindQueue, Consume,
      SubscribeFails, Publish, Arrive, brokerVars, eventBusVars

\* The process with its connection, its channels and its tags is the queue that
\* consumers take it for, whatever is lost and restarted, for any messages.
THEOREM BusIsQueue == EventBusSpec => DeliverySpec
<1>1. EventBusInit => D!DeliveryInit
  <2> SUFFICES ASSUME EventBusInit
               PROVE  D!DeliveryInit
    OBVIOUS
  <2>1. \A m \in Messages: {r \in runs: r.msg = m} = {}
    BY DEF EventBusInit
  <2> QED
    BY <2>1, FS_EmptySet DEF EventBusInit, D!DeliveryInit
<1>2. BusInv /\ BusInv' /\ [EventBusNext]_eventBusVars => [D!DeliveryNext]_D!deliveryVars
  BY QueueStep
<1> QED
  BY <1>1, <1>2, BusInvariant, PTL DEF EventBusSpec, DeliverySpec, D!DeliverySpec
=============================================================================
