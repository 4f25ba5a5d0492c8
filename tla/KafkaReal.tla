------------------------------- MODULE KafkaReal -------------------------------
(***************************************************************************)
(* The Kafka-backed task queue (persistence/kafka_real.ts) over one topic: *)
(* what kafkajs and the broker do (commits, retries, rebalances) is        *)
(* modelled as the adapter uses them.                                      *)
(*                                                                         *)
(* Left out: the counters that only depth() reads, messages that do not    *)
(* decode, and the close of the whole queue.                               *)
(***************************************************************************)
EXTENDS Integers, Sequences, FiniteSets

CONSTANTS
  Messages,     \* packets that may be published
  Groups,       \* consumer groups
  Consumers,    \* kafkajs consumers: one for each call of subscribe
  Replaying,    \* those subscribed with replayFromStart
  NoConsumer,
  MaxTopic,     \* bound: the topic's length
  MaxSends      \* bound: sends of one message that are not settled

\* "" is no group: what a consumer that nobody has made yet has.
ASSUME ConsumerAssumption ==
  NoConsumer \notin Consumers /\ Replaying \subseteq Consumers /\ "" \notin Groups

VARIABLES
  topic,      \* the broker's log of the topic
  sends,      \* [Messages -> sends that are not settled]: pendingSends
  consumer,   \* [Consumers -> group, connected, closed, inFlight]
  entry,      \* [Groups -> the consumer that the adapter knows the group by]
  position,   \* [Groups -> messages the group has been handed by kafkajs]
  committed,  \* [Groups -> the broker's committed offset, or NoOffset]
  published,  \* history: messages published
  lost,       \* history: messages of which a send failed
  since,      \* [Groups -> the offset the group began at, the last time it had none committed]
  past,       \* history: [Groups -> offsets the handler took or a closed subscription let pass]
  returned    \* history: [Groups -> messages nacked and not given again]

broker == <<topic, position, committed, since>>
local == <<sends, consumer, entry, published, lost>>
record == <<past, returned>>
kafkaVars == <<broker, local, record>>

NoOffset == -1
Unused == [group |-> "", connected |-> FALSE, closed |-> FALSE, inFlight |-> {}]

KafkaInit ==
  /\ topic = <<>> /\ sends = [m \in Messages |-> 0]
  /\ consumer = [c \in Consumers |-> Unused] /\ entry = [g \in Groups |-> NoConsumer]
  /\ position = [g \in Groups |-> 0] /\ since = position /\ committed = [g \in Groups |-> NoOffset]
  /\ published = {} /\ lost = {}
  /\ past = [g \in Groups |-> {}] /\ returned = past

-----------------------------------------------------------------------------
(* publish, and what becomes of a send. *)

Publish(m) ==
  /\ m \notin published /\ published' = published \cup {m}
  /\ sends' = [sends EXCEPT ![m] = @ + 1]
  /\ UNCHANGED <<broker, consumer, entry, lost, record>>

Land(m) ==
  /\ sends[m] > 0 /\ Len(topic) < MaxTopic
  /\ sends' = [sends EXCEPT ![m] = @ - 1] /\ topic' = Append(topic, m)
  /\ UNCHANGED <<consumer, entry, published, lost, position, committed, since, record>>

\* The catch gives the error to onError: nothing is sent again.
SendFails(m) ==
  /\ sends[m] > 0
  /\ sends' = [sends EXCEPT ![m] = @ - 1] /\ lost' = lost \cup {m}
  /\ UNCHANGED <<broker, consumer, entry, published, record>>

-----------------------------------------------------------------------------
(* subscribe and close.  A second subscribe of a group takes the entry and    *)
(* leaves the first consumer running.                                         *)

Running(g) == {c \in Consumers : consumer[c].connected /\ consumer[c].group = g}

\* Where a group goes on: at what it committed.  While it has committed nothing,
\* at the beginning or the end of the topic as it is now: no assignment and no
\* start commits anything, only a message that was handled does.
Resume(c, g) ==
  LET start == IF c \in Replaying THEN 0 ELSE Len(topic)
  IN  IF committed[g] # NoOffset
        THEN position' = [position EXCEPT ![g] = committed[g]] /\ UNCHANGED since
        ELSE position' = [position EXCEPT ![g] = start] /\ since' = [since EXCEPT ![g] = start]

Subscribe(c, g) ==
  /\ consumer[c].group = ""
  /\ consumer' = [consumer EXCEPT ![c] = [group |-> g, connected |-> TRUE, closed |-> FALSE, inFlight |-> {}]]
  /\ entry' = [entry EXCEPT ![g] = c]
  /\ IF Running(g) = {} THEN Resume(c, g) ELSE UNCHANGED <<position, since>>
  /\ UNCHANGED <<topic, committed, sends, published, lost, record>>

Close(c) ==
  /\ consumer[c].connected /\ ~consumer[c].closed
  /\ consumer' = [consumer EXCEPT ![c].closed = TRUE]
  /\ entry' = [entry EXCEPT ![consumer[c].group] = NoConsumer]
  /\ UNCHANGED <<broker, sends, published, lost, record>>

Disconnect(c) ==
  /\ consumer[c].connected /\ consumer[c].closed
  /\ consumer' = [consumer EXCEPT ![c].connected = FALSE]
  /\ UNCHANGED <<broker, entry, sends, published, lost, record>>

-----------------------------------------------------------------------------
(* eachMessage: the next message of the topic to one consumer of the group. *)

Upcoming(g) == position[g] + 1
Handed(c, g) == c \in Running(g) /\ position[g] < Len(topic)

Taken(g) ==
  /\ past' = [past EXCEPT ![g] = @ \cup {Upcoming(g)}]
  /\ returned' = [returned EXCEPT ![g] = @ \ {topic[Upcoming(g)]}]

Pass(c, g) ==
  /\ Handed(c, g) /\ consumer[c].closed
  /\ position' = [position EXCEPT ![g] = @ + 1]
  /\ Taken(g)
  /\ UNCHANGED <<topic, committed, since, local>>

\* The handler keeps the message, to ack or nack it later, or throws: then
\* kafkajs hands the same message over again.
ThrowIsPassed(g, how) == position[g] + 1   \* mutant of After: a throw is swallowed before the hand-over counts
After(g, how) == IF how = "throws" THEN position[g] ELSE position[g] + 1
Deliver(c, g, how) ==
  /\ Handed(c, g) /\ ~consumer[c].closed
  /\ position' = [position EXCEPT ![g] = After(g, how)]
  /\ consumer' = [consumer EXCEPT ![c].inFlight = @ \cup {topic[Upcoming(g)]}]
  /\ IF how = "throws" THEN UNCHANGED record ELSE Taken(g)
  /\ UNCHANGED <<topic, committed, since, sends, entry, published, lost>>

\* kafkajs commits what it handed over after the handler, sooner or later; after a
\* rebalance the group goes on from what is committed, if anything is.
Commit(g) ==
  /\ Running(g) # {} /\ position[g] > (IF committed[g] = NoOffset THEN since[g] ELSE committed[g])
  /\ committed' = [committed EXCEPT ![g] = position[g]]
  /\ UNCHANGED <<topic, position, since, local, record>>
Rebalance(g) ==
  /\ \E c \in Running(g) : Resume(c, g)
  /\ UNCHANGED <<topic, committed, local, record>>

-----------------------------------------------------------------------------
(* ack, nack and clear, on the group's entry: what an older consumer of the   *)
(* group was given cannot be found any more.                                  *)

Known(g, m) == entry[g] # NoConsumer /\ m \in consumer[entry[g]].inFlight
Forget(g, m) == consumer' = [consumer EXCEPT ![entry[g]].inFlight = @ \ {m}]

Ack(g, m) ==
  /\ Known(g, m) /\ Forget(g, m)
  /\ UNCHANGED <<broker, sends, entry, published, lost, record>>

\* The message goes to the end of the topic, for every group.
Nack(g, m) ==
  /\ Known(g, m) /\ Forget(g, m) /\ sends[m] < MaxSends
  /\ sends' = [sends EXCEPT ![m] = @ + 1]
  /\ returned' = [returned EXCEPT ![g] = @ \cup {m}]
  /\ UNCHANGED <<broker, entry, published, lost, past>>

Clear ==
  /\ \E g \in Groups : entry[g] # NoConsumer /\ consumer[entry[g]].inFlight # {}
  /\ consumer' = [c \in Consumers |->
       IF \E g \in Groups : entry[g] = c THEN [consumer[c] EXCEPT !.inFlight = {}] ELSE consumer[c]]
  /\ UNCHANGED <<broker, sends, entry, published, lost, record>>

\* The process dies: what it had not sent is lost, what it had in flight forgotten;
\* its groups go on when the next process subscribes them.
ProcessDies ==
  /\ \E c \in Consumers : consumer[c].connected
  /\ consumer' = [c \in Consumers |-> [consumer[c] EXCEPT !.connected = FALSE, !.closed = TRUE, !.inFlight = {}]]
  /\ entry' = [g \in Groups |-> NoConsumer]
  /\ lost' = lost \cup {m \in Messages : sends[m] > 0} /\ sends' = [m \in Messages |-> 0]
  /\ UNCHANGED <<broker, published, record>>

-----------------------------------------------------------------------------
KafkaNext ==
  \/ \E m \in Messages : Publish(m) \/ Land(m) \/ SendFails(m)
  \/ \E c \in Consumers, g \in Groups : Subscribe(c, g)
  \/ \E c \in Consumers : Close(c) \/ Disconnect(c)
  \/ \E c \in Consumers, g \in Groups : Pass(c, g) \/ \E how \in {"returns", "throws"} : Deliver(c, g, how)
  \/ \E g \in Groups : Commit(g) \/ Rebalance(g)
  \/ \E g \in Groups, m \in Messages : Ack(g, m) \/ Nack(g, m)
  \/ Clear \/ ProcessDies

KafkaSpec == KafkaInit /\ [][KafkaNext]_kafkaVars

-----------------------------------------------------------------------------
(* Properties. *)

KafkaTypeOK ==
  /\ topic \in Seq(Messages) /\ sends \in [Messages -> Nat]
  /\ consumer \in [Consumers -> [group : Groups \cup {""}, connected : BOOLEAN, closed : BOOLEAN,
                                 inFlight : SUBSET Messages]]
  /\ entry \in [Groups -> Consumers \cup {NoConsumer}]
  /\ position \in [Groups -> Nat] /\ committed \in [Groups -> Nat \cup {NoOffset}] /\ since \in [Groups -> Nat]
  /\ published \subseteq Messages /\ lost \subseteq published

\* What was published is on its way, in the topic, or a send of it failed.  What
\* the broker holds as done by a group, counted from where the group began, was
\* handled by its handler without a throw or met a subscription that was being
\* closed.  And what a group handed back is on its way, a send of it failed, or it
\* is in the topic where the group has not taken it: ahead of the group, or before
\* the offset the group began at.  A group begins past the start of the topic only
\* when one of its subscriptions did not ask for the beginning; it does so again
\* whenever it dies or is rebalanced before its first commit, and what was sent
\* meanwhile is passed over: the one way in which this queue forgets (kafka_real.ts:
\* fromBeginning is replayFromStart ?? false, the commit comes after eachMessage,
\* nack publishes again).
NothingForgotten ==
  /\ \A m \in published : sends[m] > 0 \/ m \in lost \/ \E i \in DOMAIN topic : topic[i] = m
  /\ \A g \in Groups :
       /\ committed[g] <= position[g] /\ position[g] <= Len(topic)
       /\ (since[g] + 1)..position[g] \subseteq past[g]
       /\ since[g] # 0 => \E c \in Consumers : consumer[c].group = g /\ c \notin Replaying
       /\ \A m \in returned[g] :
            sends[m] > 0 \/ m \in lost \/ \E i \in DOMAIN topic \ past[g] : topic[i] = m
=============================================================================
