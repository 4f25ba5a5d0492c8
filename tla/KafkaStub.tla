------------------------------ MODULE KafkaStub ------------------------------
(***************************************************************************)
(* The in-memory partitioned task queue (persistence/kafka_stub.ts) and    *)
(* APEX's intake consumer (apex/orchestrator.ts startQueueConsumer).       *)
(*                                                                         *)
(* Every method is synchronous and calls the subscribers' handlers before  *)
(* it returns, and a handler may call the queue again: "stack" is the      *)
(* JavaScript call stack, a frame per publish that is fanning out, per     *)
(* subscribe that is handing over a backlog, per deliverNew loop and per   *)
(* handler.  A message is the pair of its partition and its offset.        *)
(***************************************************************************)
EXTENDS Naturals, Sequences, SequencesExt, FiniteSets

CONSTANTS
  Partitions, Groups,
  Modes,        \* what subscribes: subsets of {"consumer", "custom"}
  Replays,      \* the values of replayFromStart in use
  IdleOps,      \* the queue methods called from outside any handler ...
  HandlerOps,   \* ... and from inside one (a custom handler, or onResult)
  MaxOffset,    \* bound: messages published to one partition
  MaxSubs,      \* bound: subscriptions ever made
  MaxAttempts   \* bound: a message is nacked up to this delivery count

Methods == {"publish", "subscribe", "close", "ack", "nack", "clear"}
ASSUME ModesAssumption == Modes \subseteq {"consumer", "custom"}
ASSUME OptionsAssumption ==
  Replays \subseteq BOOLEAN /\ IdleOps \cup HandlerOps \subseteq Methods
ASSUME BoundsAssumption == {MaxOffset, MaxSubs, MaxAttempts} \subseteq Nat

VARIABLES
  log,        \* how many messages a partition holds
  joined,     \* the groups, in the order they were created
  subs,       \* per group: its subscriptions, in the order they were made
  nsubs,      \* subscriptions ever made; a subscription is its number
  cursor,     \* per group and partition: the next offset to consume
  inFlight,   \* per group: the delivered, unacked messages with their count
  stack,
  seen, committed, dropped,  \* history, per group: messages handed to a
                             \* handler, acked, nacked while nobody owned them;
  aborted                    \* partitions whose hand-over an exception cut off

busVars == <<log, joined, subs, nsubs, cursor, inFlight, stack, seen, committed, dropped, aborted>>

Messages == Partitions \X (0..MaxOffset)
Subscriptions == [id : 1..MaxSubs, mode : Modes, parts : SUBSET Partitions]
Deliveries == [msg : Messages, count : 1..(MaxAttempts + 1)]
Fan == [kind : {"publish"}, part : Partitions, next : Nat \ {0}]
Backlog == [kind : {"subscribe"}, group : Groups, parts : SUBSET Partitions]
Drain == [kind : {"deliverNew"}, group : Groups, part : Partitions, at : Nat,
          owner : Subscriptions]
\* again: the group had been given the message when this delivery began.
Handler == [kind : {"handler"}, group : Groups, msg : Messages, mode : Modes,
            pc : {"run", "onResult"}, again : BOOLEAN]

Idle == stack = <<>>
Top == stack[Len(stack)]
Rest == SubSeq(stack, 1, Len(stack) - 1)
On(kind) == ~Idle /\ Top.kind = kind
Push(frame) == stack' = Append(stack, frame)
Under(top, frame) == Append([stack EXCEPT ![Len(stack)] = top], frame)

BusInit ==
  /\ log = [p \in Partitions |-> 0]
  /\ joined = <<>> /\ subs = [g \in Groups |-> <<>>] /\ nsubs = 0
  /\ cursor = [g \in Groups |-> [p \in Partitions |-> 0]]
  /\ inFlight = [g \in Groups |-> {}]
  /\ stack = <<>>
  /\ seen = [g \in Groups |-> {}] /\ committed = [g \in Groups |-> {}]
  /\ dropped = [g \in Groups |-> {}] /\ aborted = [g \in Groups |-> {}]

\* The thread is in a caller's code, or in a handler's own code.
MayCall(op) ==
  \/ Idle /\ op \in IdleOps
  \/ /\ On("handler") /\ op \in HandlerOps
     /\ Top.mode = "consumer" => Top.pc = "onResult"

Members(g) == {subs[g][i] : i \in DOMAIN subs[g]}

\* The subscription that owns a partition: the first whose filter has it.
Owns(g, p, s) ==
  \E i \in DOMAIN subs[g] :
    /\ s = subs[g][i] /\ p \in s.parts
    /\ \A j \in 1..(i - 1) : p \notin subs[g][j].parts
Unowned(g, p) == \A s \in Members(g) : p \notin s.parts

\* deliverNew starts: the owner and the cursor are read once.
DeliverNew(g, p, under) ==
  IF Unowned(g, p) THEN stack' = under /\ UNCHANGED aborted
  ELSE \E s \in Members(g) :
         /\ Owns(g, p, s)
         /\ aborted' = [aborted EXCEPT ![g] = @ \ {p}]
         /\ stack' = Append(under, [kind |-> "deliverNew", group |-> g, part |-> p,
                                    at |-> cursor[g][p], owner |-> s])

HandlerFrame(g, m, s) ==
  [kind |-> "handler", group |-> g, msg |-> m, mode |-> s.mode, pc |-> "run",
   again |-> m \in seen[g]]

\* Map.set: a delivery replaces the one the message had.
TrackOnce(g, m, count) ==   \* mutant of Track: only first deliveries are held
  [inFlight EXCEPT ![g] = {d \in @ : d.msg # m}
     \cup (IF count = 1 THEN {[msg |-> m, count |-> 1]} ELSE {})]
Track(g, m, count) ==
  [inFlight EXCEPT ![g] = {d \in @ : d.msg # m} \cup {[msg |-> m, count |-> count]}]

-----------------------------------------------------------------------------
(* publish *)

Publish(p) ==
  /\ MayCall("publish") /\ log[p] < MaxOffset
  /\ log' = [log EXCEPT ![p] = @ + 1]
  /\ Push([kind |-> "publish", part |-> p, next |-> 1])
  /\ UNCHANGED <<joined, subs, nsubs, cursor, inFlight, seen, committed, dropped, aborted>>

\* The loop over the groups also meets the groups that join while it runs.
FanOut ==
  /\ On("publish") /\ Top.next <= Len(joined)
  /\ DeliverNew(joined[Top.next], Top.part,
                [stack EXCEPT ![Len(stack)].next = @ + 1])
  /\ UNCHANGED <<log, joined, subs, nsubs, cursor, inFlight, seen, committed, dropped>>

FirstGroupOnly ==   \* mutant of PublishReturns: the loop ends after one group
  /\ On("publish") /\ Top.next > 1
  /\ stack' = Rest
  /\ UNCHANGED <<log, joined, subs, nsubs, cursor, inFlight, seen, committed, dropped, aborted>>
PublishReturns ==
  /\ On("publish") /\ Top.next > Len(joined)
  /\ stack' = Rest
  /\ UNCHANGED <<log, joined, subs, nsubs, cursor, inFlight, seen, committed, dropped, aborted>>

(* deliverNew *)

Deliver ==
  /\ On("deliverNew") /\ Top.at < log[Top.part]
  /\ LET g == Top.group  m == <<Top.part, Top.at>> IN
     /\ cursor' = [cursor EXCEPT ![g][Top.part] = Top.at + 1]
     /\ inFlight' = Track(g, m, 1)
     /\ seen' = [seen EXCEPT ![g] = @ \cup {m}]
     /\ stack' = Under([Top EXCEPT !.at = @ + 1], HandlerFrame(g, m, Top.owner))
  /\ UNCHANGED <<log, joined, subs, nsubs, committed, dropped, aborted>>

DeliverNewReturns ==
  /\ On("deliverNew") /\ Top.at >= log[Top.part]
  /\ stack' = Rest
  /\ UNCHANGED <<log, joined, subs, nsubs, cursor, inFlight, seen, committed, dropped, aborted>>

(* subscribe and close *)

Subscribe(g, parts, mode, replay) ==
  /\ MayCall("subscribe") /\ nsubs < MaxSubs
  /\ nsubs' = nsubs + 1
  /\ joined' = IF \E i \in DOMAIN joined : joined[i] = g THEN joined ELSE Append(joined, g)
  /\ subs' = [subs EXCEPT ![g] =
                Append(@, [id |-> nsubs', mode |-> mode, parts |-> parts])]
  /\ cursor' = [cursor EXCEPT ![g] =
                  [p \in Partitions |-> IF replay /\ p \in parts THEN 0 ELSE cursor[g][p]]]
  /\ Push([kind |-> "subscribe", group |-> g, parts |-> parts])
  /\ UNCHANGED <<log, inFlight, seen, committed, dropped, aborted>>

\* Each partition's backlog in turn, in the order the caller listed them.
HandOver ==
  /\ On("subscribe")
  /\ \E p \in Top.parts :
       DeliverNew(Top.group, p, [stack EXCEPT ![Len(stack)].parts = @ \ {p}])
  /\ UNCHANGED <<log, joined, subs, nsubs, cursor, inFlight, seen, committed, dropped>>

SubscribeReturns ==
  /\ On("subscribe") /\ Top.parts = {}
  /\ stack' = Rest
  /\ UNCHANGED <<log, joined, subs, nsubs, cursor, inFlight, seen, committed, dropped, aborted>>

Close(g, i) ==
  /\ MayCall("close")
  /\ subs' = [subs EXCEPT ![g] = RemoveAt(@, i)]
  /\ UNCHANGED <<log, joined, nsubs, cursor, inFlight, stack, seen, committed, dropped, aborted>>

(* ack and nack *)

Commit(g, m) ==
  /\ inFlight' = [inFlight EXCEPT ![g] = {d \in @ : d.msg # m}]
  /\ committed' = [committed EXCEPT ![g] = @ \cup {m}]

Ack(g, m) ==
  /\ MayCall("ack") /\ \E d \in inFlight[g] : d.msg = m
  /\ Commit(g, m)
  /\ UNCHANGED <<log, joined, subs, nsubs, cursor, stack, seen, dropped, aborted>>

\* Back to the owner at once, or nowhere.
Nack(g, d) ==
  /\ MayCall("nack") /\ d \in inFlight[g] /\ d.count <= MaxAttempts
  /\ IF Unowned(g, d.msg[1])
     THEN /\ inFlight' = [inFlight EXCEPT ![g] = @ \ {d}]
          /\ dropped' = [dropped EXCEPT ![g] = @ \cup {d.msg}]
          /\ UNCHANGED stack
     ELSE /\ inFlight' = Track(g, d.msg, d.count + 1)
          /\ \E s \in Members(g) : Owns(g, d.msg[1], s) /\ Push(HandlerFrame(g, d.msg, s))
          /\ UNCHANGED dropped
  /\ UNCHANGED <<log, joined, subs, nsubs, cursor, seen, committed, aborted>>

(* clear, when no handler is running *)

ClearLogsOnly ==   \* mutant of Clear: the groups stay
  /\ Idle /\ "clear" \in IdleOps
  /\ log' = [p \in Partitions |-> 0]
  /\ inFlight' = [g \in Groups |-> {}]
  /\ seen' = [g \in Groups |-> {}] /\ committed' = [g \in Groups |-> {}]
  /\ dropped' = [g \in Groups |-> {}] /\ aborted' = [g \in Groups |-> {}]
  /\ UNCHANGED <<joined, subs, nsubs, cursor, stack>>
Clear ==
  /\ Idle /\ "clear" \in IdleOps
  /\ log' = [p \in Partitions |-> 0]
  /\ joined' = <<>> /\ subs' = [g \in Groups |-> <<>>]
  /\ cursor' = [g \in Groups |-> [p \in Partitions |-> 0]]
  /\ inFlight' = [g \in Groups |-> {}]
  /\ seen' = [g \in Groups |-> {}] /\ committed' = [g \in Groups |-> {}]
  /\ dropped' = [g \in Groups |-> {}] /\ aborted' = [g \in Groups |-> {}]
  /\ UNCHANGED <<nsubs, stack>>

(* the handlers *)

\* APEX's intake consumer dispatches the packet, which never throws, and acks;
\* then the onResult callback runs.
Consume ==
  /\ On("handler") /\ Top.mode = "consumer" /\ Top.pc = "run"
  /\ Commit(Top.group, Top.msg)
  /\ stack' = [stack EXCEPT ![Len(stack)].pc = "onResult"]
  /\ UNCHANGED <<log, joined, subs, nsubs, cursor, seen, dropped, aborted>>

HandlerReturns ==
  /\ On("handler") /\ (Top.mode = "consumer" => Top.pc = "onResult")
  /\ stack' = Rest
  /\ UNCHANGED <<log, joined, subs, nsubs, cursor, inFlight, seen, committed, dropped, aborted>>

\* What a frame of the stack has yet to hand over, or is handing over.
HandsOver(f, g, p) ==
  \/ f.kind = "publish" /\ f.part = p /\ \E j \in DOMAIN joined : joined[j] = g /\ f.next <= j
  \/ f.kind = "subscribe" /\ f.group = g /\ p \in f.parts
  \/ f.kind = "deliverNew" /\ f.group = g /\ f.part = p

\* A custom handler throws, or the consumer's onResult: none of the queue's loops
\* catches, so the exception leaves them all, up to a handler whose own code
\* catches it or to the caller outside.
HandlerThrows ==
  /\ On("handler") /\ (Top.mode = "consumer" => Top.pc = "onResult")
  /\ \E i \in 0..(Len(stack) - 1) :
       /\ i > 0 => stack[i].kind = "handler"
       /\ stack' = SubSeq(stack, 1, i)
       /\ aborted' = [g \in Groups |-> aborted[g] \cup
            {p \in Partitions : \E k \in (i + 1)..Len(stack) : HandsOver(stack[k], g, p)}]
  /\ UNCHANGED <<log, joined, subs, nsubs, cursor, inFlight, seen, committed, dropped>>

-----------------------------------------------------------------------------
Call ==
  \/ \E p \in Partitions : Publish(p)
  \/ \E g \in Groups, parts \in SUBSET Partitions \ {{}}, mode \in Modes, replay \in Replays :
       Subscribe(g, parts, mode, replay)
  \/ \E g \in Groups : \E i \in DOMAIN subs[g] : Close(g, i)
  \/ \E g \in Groups : \E d \in inFlight[g] : Ack(g, d.msg) \/ Nack(g, d)
  \/ Clear

Run == FanOut \/ PublishReturns \/ Deliver \/ DeliverNewReturns \/ HandOver
         \/ SubscribeReturns \/ Consume \/ HandlerReturns \/ HandlerThrows

BusNext == Call \/ Run

BusSpec == BusInit /\ [][BusNext]_busVars

-----------------------------------------------------------------------------
(* Properties. *)

BusTypeOK ==
  /\ log \in [Partitions -> 0..MaxOffset]
  /\ joined \in Seq(Groups) /\ nsubs \in 0..MaxSubs
  /\ subs \in [Groups -> Seq(Subscriptions)]
  /\ cursor \in [Groups -> [Partitions -> 0..MaxOffset]]
  /\ inFlight \in [Groups -> SUBSET Deliveries]
  /\ \A g \in Groups : \A d, e \in inFlight[g] : d.msg = e.msg => d = e
  /\ stack \in Seq(Fan \cup Backlog \cup Drain \cup Handler)
  /\ {seen, committed, dropped} \subseteq [Groups -> SUBSET Messages]
  /\ aborted \in [Groups -> SUBSET Partitions]

\* At least once: whatever a handler was given is still in flight, was acked, or
\* was nacked when no subscription of its group owned the partition; no close,
\* replay or nested call takes it out of the in-flight set otherwise.
NothingLost ==
  \A g \in Groups :
    seen[g] \subseteq committed[g] \cup dropped[g] \cup {d.msg : d \in inFlight[g]}

\* "All work for one Big AI stays in-order": what a group has been given of a
\* partition is a prefix of its log that the group's cursor never runs ahead
\* of, also when handlers publish, replay and close inside a delivery.
InOrder ==
  \A g \in Groups, p \in Partitions :
    \E n \in cursor[g][p]..log[p] : {m \in seen[g] : m[1] = p} = {p} \X (0..(n - 1))

\* When the thread leaves the queue, no message waits for a group that has a
\* subscription to take it, unless a handler's exception cut off the hand-over and
\* no publish or subscribe has begun it again.
NoStall ==
  Idle => \A i \in DOMAIN joined, p \in Partitions :
            LET g == joined[i] IN
            Unowned(g, p) \/ cursor[g][p] = log[p] \/ p \in aborted[g]

\* What crosses the bus is delivered, in order, and waits only for an exception.
BusIsSound == NothingLost /\ InOrder /\ NoStall

\* "Within a group a message is delivered exactly once".
DeliveredOnce == \A i \in DOMAIN stack : stack[i].kind = "handler" => ~stack[i].again
=============================================================================
