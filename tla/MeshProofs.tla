------------------------------ MODULE MeshProofs ------------------------------
(***************************************************************************)
(* Theorems about the in-memory message bus, for any partitions, groups    *)
(* and subscriptions and any depth of nested deliveries; about the         *)
(* sovereign layer, for any Primes and any length of the ledger; and about *)
(* the task queue, for any tasks.                                          *)
(***************************************************************************)
EXTENDS Mesh, FiniteSetTheorems, TLAPS

Frame == Fan \cup Backlog \cup Drain \cup Handler
FramesOf(s) == {s[i] : i \in DOMAIN s}

\* A frame that will still see to what the group g has not been given of p.
Cares(f, g, p) ==
  \/ f.kind = "publish" /\ f.part = p /\ \E j \in DOMAIN joined : joined[j] = g /\ f.next <= j
  \/ f.kind = "subscribe" /\ f.group = g /\ p \in f.parts
  \/ f.kind = "deliverNew" /\ f.group = g /\ f.part = p /\ f.at = cursor[g][p]
CaredFor(g, p) ==
  \/ Unowned(g, p) \/ cursor[g][p] = log[p] \/ p \in aborted[g]
  \/ \E f \in FramesOf(stack) : Cares(f, g, p)

Given(g, p, n) == {m \in seen[g] : m[1] = p} = {p} \X (0..(n - 1))
Draining(f, g, p) == f.kind = "deliverNew" /\ f.group = g /\ f.part = p

\* No loop and no cursor is ahead of what the group has been given.
OrderAt(g, p) ==
  \E n \in cursor[g][p]..log[p] :
    Given(g, p, n) /\ \A f \in FramesOf(stack) : Draining(f, g, p) => f.at <= n

HasJoined(g) == \E i \in DOMAIN joined : joined[i] = g
OwnersJoined == \A g \in Groups : subs[g] # <<>> => HasJoined(g)
AllCaredFor == \A g \in Groups, p \in Partitions : CaredFor(g, p)
Ordered == \A g \in Groups, p \in Partitions : OrderAt(g, p)

IInv == BusTypeOK /\ NothingLost /\ OwnersJoined /\ Ordered /\ AllCaredFor

-----------------------------------------------------------------------------
(* The stack. *)

LEMMA Shortened ==
  ASSUME NEW S, NEW s \in Seq(S), s # <<>>
  PROVE  /\ Len(s) \in Nat \ {0} /\ DOMAIN s = 1..Len(s)
         /\ SubSeq(s, 1, Len(s) - 1) \in Seq(S)
         /\ DOMAIN SubSeq(s, 1, Len(s) - 1) = 1..(Len(s) - 1)
         /\ \A i \in 1..(Len(s) - 1) : SubSeq(s, 1, Len(s) - 1)[i] = s[i]
<1> DEFINE rest == SubSeq(s, 1, Len(s) - 1)
<1>1. Len(s) \in Nat \ {0} /\ DOMAIN s = 1..Len(s)
  OBVIOUS
<1>2. rest \in Seq(S) /\ Len(rest) = Len(s) - 1 /\ \A i \in 1..(Len(s) - 1) : rest[i] = s[i]
  BY <1>1
<1>3. DOMAIN rest = 1..(Len(s) - 1)
  BY <1>1, <1>2
<1> QED BY <1>1, <1>2, <1>3

LEMMA PoppedKeeps ==
  ASSUME NEW S, NEW s \in Seq(S), s # <<>>
  PROVE  LET rest == SubSeq(s, 1, Len(s) - 1) IN
         /\ rest \in Seq(S) /\ s[Len(s)] \in S
         /\ FramesOf(s) = FramesOf(rest) \cup {s[Len(s)]}
<1> DEFINE rest == SubSeq(s, 1, Len(s) - 1)
<1>1. /\ Len(s) \in Nat \ {0} /\ DOMAIN s = 1..Len(s) /\ rest \in Seq(S)
      /\ DOMAIN rest = 1..(Len(s) - 1) /\ \A i \in 1..(Len(s) - 1) : rest[i] = s[i]
  BY Shortened
<1> HIDE DEF rest
<1>2. FramesOf(s) = FramesOf(rest) \cup {s[Len(s)]}
  BY <1>1 DEF FramesOf
<1> QED BY <1>1, <1>2 DEF rest

LEMMA Pushed ==
  ASSUME NEW S, NEW s \in Seq(S), NEW f \in S
  PROVE  /\ Append(s, f) \in Seq(S) /\ Append(s, f) # <<>>
         /\ FramesOf(Append(s, f)) = FramesOf(s) \cup {f}
<1> DEFINE t == Append(s, f)
<1>1. /\ t \in Seq(S) /\ Len(t) = Len(s) + 1 /\ t[Len(s) + 1] = f /\ \A i \in 1..Len(s) : t[i] = s[i]
  OBVIOUS
<1>2. DOMAIN t = 1..(Len(s) + 1) /\ DOMAIN s = 1..Len(s) /\ Len(s) \in Nat /\ t # <<>>
  BY <1>1
<1> HIDE DEF t
<1>3. FramesOf(t) = FramesOf(s) \cup {f}
  BY <1>1, <1>2 DEF FramesOf
<1> QED BY <1>1, <1>2, <1>3 DEF t

LEMMA Appended ==
  ASSUME NEW S, NEW s \in Seq(S), NEW x \in S, NEW t, t = Append(s, x)
  PROVE  /\ \A j \in DOMAIN s : j \in DOMAIN t /\ t[j] = s[j]
         /\ \A j \in DOMAIN t : (j \in DOMAIN s /\ t[j] = s[j]) \/ t[j] = x
OBVIOUS

LEMMA PutAt ==
  ASSUME NEW S, NEW s \in Seq(S), NEW n \in 1..Len(s), NEW t \in S, NEW new, new = [s EXCEPT ![n] = t]
  PROVE  /\ new \in Seq(S) /\ DOMAIN new = 1..Len(s) /\ new[n] = t
         /\ \A i \in (1..Len(s)) \ {n} : new[i] = s[i]
OBVIOUS

LEMMA Replaced ==
  ASSUME NEW S, NEW s \in Seq(S), s # <<>>, NEW t \in S
  PROVE  /\ [s EXCEPT ![Len(s)] = t] \in Seq(S)
         /\ FramesOf([s EXCEPT ![Len(s)] = t]) = FramesOf(SubSeq(s, 1, Len(s) - 1)) \cup {t}
<1> DEFINE rest == SubSeq(s, 1, Len(s) - 1)
           new == [s EXCEPT ![Len(s)] = t]
           n == Len(s)
<1>1. /\ n \in Nat \ {0} /\ DOMAIN s = 1..n /\ rest \in Seq(S)
      /\ DOMAIN rest = 1..(n - 1) /\ \A i \in 1..(n - 1) : rest[i] = s[i]
  BY Shortened
<1>2. n \in 1..n
  BY <1>1
<1>3. /\ new \in Seq(S) /\ DOMAIN new = 1..n /\ new[n] = t
      /\ \A i \in (1..n) \ {n} : new[i] = s[i]
  BY <1>2, PutAt
<1> HIDE DEF rest, new, n
<1>4. \A i \in 1..(n - 1) : i \in (1..n) \ {n}
  BY <1>1
<1>5. \A i \in 1..(n - 1) : new[i] = rest[i]
  BY <1>1, <1>3, <1>4
<1>6. 1..n = (1..(n - 1)) \cup {n}
  BY <1>1
<1>7. FramesOf(new) = FramesOf(rest) \cup {t}
  BY <1>1, <1>3, <1>5, <1>6 DEF FramesOf
<1> QED BY <1>3, <1>7 DEF rest, new, n

LEMMA Kinds ==
  ASSUME NEW f \in Frame
  PROVE  /\ f.kind = "publish" <=> f \in Fan
         /\ f.kind = "subscribe" <=> f \in Backlog
         /\ f.kind = "deliverNew" <=> f \in Drain
         /\ f.kind = "handler" <=> f \in Handler
BY DEF Frame, Fan, Backlog, Drain, Handler

\* What the thread is at, and what is below it.
LEMMA AtTop ==
  ASSUME BusTypeOK, ~Idle
  PROVE  /\ Top \in Frame /\ Rest \in Seq(Frame)
         /\ FramesOf(stack) = FramesOf(Rest) \cup {Top}
         /\ \A t \in Frame : /\ [stack EXCEPT ![Len(stack)] = t] \in Seq(Frame)
                             /\ FramesOf([stack EXCEPT ![Len(stack)] = t]) = FramesOf(Rest) \cup {t}
<1>1. stack \in Seq(Frame) /\ stack # <<>>
  BY DEF BusTypeOK, Frame, Idle
<1>2. /\ Top \in Frame /\ Rest \in Seq(Frame)
      /\ FramesOf(stack) = FramesOf(Rest) \cup {Top}
  BY <1>1, PoppedKeeps DEF Top, Rest
<1>3. ASSUME NEW t \in Frame
      PROVE  /\ [stack EXCEPT ![Len(stack)] = t] \in Seq(Frame)
             /\ FramesOf([stack EXCEPT ![Len(stack)] = t]) = FramesOf(Rest) \cup {t}
  BY <1>1, Replaced DEF Rest
<1> QED BY <1>2, <1>3

\* A hand-over begins, or begins again.
Begins(g, p) == aborted' = [aborted EXCEPT ![g] = @ \ {p}]

\* What deliverNew leaves on the stack: nothing, when nobody owns the partition.
LEMMA StartedKeeps ==
  ASSUME BusTypeOK, NEW g \in Groups, NEW p \in Partitions, NEW under \in Seq(Frame),
         DeliverNew(g, p, under)
  PROVE  /\ stack' \in Seq(Frame)
         /\ \/ Unowned(g, p) /\ FramesOf(stack') = FramesOf(under) /\ aborted' = aborted
            \/ Begins(g, p)
               /\ \E f \in Drain : /\ f.group = g /\ f.part = p /\ f.at = cursor[g][p]
                                  /\ FramesOf(stack') = FramesOf(under) \cup {f}
<1>1. CASE Unowned(g, p)
  BY <1>1 DEF DeliverNew
<1>2. CASE ~Unowned(g, p)
  <2>1. PICK s \in Members(g) :
          /\ Begins(g, p)
          /\ stack' = Append(under, [kind |-> "deliverNew", group |-> g, part |-> p,
                                     at |-> cursor[g][p], owner |-> s])
    BY <1>2 DEF DeliverNew, Begins
  <2> DEFINE f == [kind |-> "deliverNew", group |-> g, part |-> p, at |-> cursor[g][p], owner |-> s]
  <2>2. subs[g] \in Seq(Subscriptions) /\ cursor[g][p] \in 0..MaxOffset
    BY DEF BusTypeOK
  <2>3. s \in Subscriptions
    BY <2>2 DEF Members
  <2>4. cursor[g][p] \in Nat
    BY <2>2, BoundsAssumption
  <2>5. f \in Drain /\ f.group = g /\ f.part = p /\ f.at = cursor[g][p]
    BY <2>3, <2>4 DEF Drain
  <2>6. f \in Frame
    BY <2>5 DEF Frame
  <2> HIDE DEF f
  <2>7. stack' \in Seq(Frame) /\ FramesOf(stack') = FramesOf(under) \cup {f}
    BY <2>1, <2>6, Pushed DEF f
  <2> QED BY <2>1, <2>5, <2>7
<1> QED BY <1>1, <1>2

-----------------------------------------------------------------------------
(* What every action does to the stack. *)

Returns == FramesOf(stack') = FramesOf(Rest)

LEMMA PublishStack ==
  ASSUME BusTypeOK, NEW p \in Partitions, Publish(p)
  PROVE  /\ stack' \in Seq(Frame)
         /\ \E f \in Fan : f.part = p /\ f.next = 1 /\ FramesOf(stack') = FramesOf(stack) \cup {f}
<1> DEFINE f == [kind |-> "publish", part |-> p, next |-> 1]
<1>1. f \in Fan /\ f \in Frame /\ f.part = p /\ f.next = 1
  BY DEF Fan, Frame
<1>2. stack \in Seq(Frame) /\ stack' = Append(stack, f)
  BY DEF BusTypeOK, Frame, Publish, Push
<1> HIDE DEF f
<1> QED BY <1>1, <1>2, Pushed

LEMMA SubscribeStack ==
  ASSUME BusTypeOK, NEW g \in Groups, NEW parts \in SUBSET Partitions,
         Push([kind |-> "subscribe", group |-> g, parts |-> parts])
  PROVE  /\ stack' \in Seq(Frame)
         /\ \E f \in Backlog : /\ f.group = g /\ f.parts = parts
                               /\ FramesOf(stack') = FramesOf(stack) \cup {f}
<1> DEFINE f == [kind |-> "subscribe", group |-> g, parts |-> parts]
<1>1. f \in Backlog /\ f \in Frame /\ f.group = g /\ f.parts = parts
  BY DEF Backlog, Frame
<1>2. stack \in Seq(Frame) /\ stack' = Append(stack, f)
  BY DEF BusTypeOK, Frame, Push
<1> HIDE DEF f
<1> QED BY <1>1, <1>2, Pushed

\* The loop over the groups: its frame moves on, deliverNew starts above it.
LEMMA FanOutStack ==
  ASSUME BusTypeOK, FanOut
  PROVE  /\ Top \in Fan /\ Top.next \in DOMAIN joined /\ joined[Top.next] \in Groups
         /\ stack' \in Seq(Frame)
         /\ \E f \in Fan : /\ f.part = Top.part /\ f.next = Top.next + 1
              /\ \/ /\ Unowned(joined[Top.next], Top.part) /\ aborted' = aborted
                    /\ FramesOf(stack') = FramesOf(Rest) \cup {f}
                 \/ /\ Begins(joined[Top.next], Top.part)
                    /\ \E d \in Drain :
                         /\ d.group = joined[Top.next] /\ d.part = Top.part
                         /\ d.at = cursor[joined[Top.next]][Top.part]
                         /\ FramesOf(stack') = FramesOf(Rest) \cup {f, d}
<1>1. ~Idle /\ Top.kind = "publish" /\ Top.next <= Len(joined)
  BY DEF FanOut, On
<1>2. /\ Top \in Frame
      /\ \A t \in Frame : /\ [stack EXCEPT ![Len(stack)] = t] \in Seq(Frame)
                          /\ FramesOf([stack EXCEPT ![Len(stack)] = t]) = FramesOf(Rest) \cup {t}
  BY <1>1, AtTop
<1>3. Top \in Fan
  BY <1>1, <1>2, Kinds
<1>4. Top.part \in Partitions /\ Top.next \in Nat \ {0} /\ joined \in Seq(Groups)
  BY <1>3 DEF Fan, BusTypeOK
<1> DEFINE f == [Top EXCEPT !.next = Top.next + 1]
           under == [stack EXCEPT ![Len(stack)] = f]
<1>5. f \in Fan /\ f.part = Top.part /\ f.next = Top.next + 1
  BY <1>3, <1>4 DEF Fan
<1>6. f \in Frame
  BY <1>5 DEF Frame
<1>7. DeliverNew(joined[Top.next], Top.part, under)
  BY DEF FanOut, Top
<1> HIDE DEF f
<1>8. under \in Seq(Frame) /\ FramesOf(under) = FramesOf(Rest) \cup {f}
  BY <1>2, <1>6
<1> HIDE DEF under
<1>9. Top.next \in DOMAIN joined /\ joined[Top.next] \in Groups
  BY <1>1, <1>4
<1>10. /\ stack' \in Seq(Frame)
       /\ \/ /\ Unowned(joined[Top.next], Top.part) /\ aborted' = aborted
             /\ FramesOf(stack') = FramesOf(under)
          \/ /\ Begins(joined[Top.next], Top.part)
             /\ \E d \in Drain : /\ d.group = joined[Top.next] /\ d.part = Top.part
                                /\ d.at = cursor[joined[Top.next]][Top.part]
                                /\ FramesOf(stack') = FramesOf(under) \cup {d}
  BY <1>4, <1>7, <1>8, <1>9, StartedKeeps
<1>11. \A d : FramesOf(under) \cup {d} = FramesOf(Rest) \cup {f, d}
  BY <1>8
<1> QED BY <1>3, <1>5, <1>8, <1>9, <1>10, <1>11

\* The loop over the partitions to hand over, likewise.
LEMMA HandOverStack ==
  ASSUME BusTypeOK, HandOver
  PROVE  /\ Top \in Backlog /\ stack' \in Seq(Frame)
         /\ \E p \in Top.parts, f \in Backlog :
              /\ f.group = Top.group /\ f.parts = Top.parts \ {p}
              /\ \/ /\ Unowned(Top.group, p) /\ aborted' = aborted
                    /\ FramesOf(stack') = FramesOf(Rest) \cup {f}
                 \/ /\ Begins(Top.group, p)
                    /\ \E d \in Drain :
                         /\ d.group = Top.group /\ d.part = p /\ d.at = cursor[Top.group][p]
                         /\ FramesOf(stack') = FramesOf(Rest) \cup {f, d}
<1>1. ~Idle /\ Top.kind = "subscribe"
  BY DEF HandOver, On
<1>2. /\ Top \in Frame
      /\ \A t \in Frame : /\ [stack EXCEPT ![Len(stack)] = t] \in Seq(Frame)
                          /\ FramesOf([stack EXCEPT ![Len(stack)] = t]) = FramesOf(Rest) \cup {t}
  BY <1>1, AtTop
<1>3. Top \in Backlog
  BY <1>1, <1>2, Kinds
<1>4. PICK p \in Top.parts :
        DeliverNew(Top.group, p, [stack EXCEPT ![Len(stack)] = [Top EXCEPT !.parts = Top.parts \ {p}]])
  BY DEF HandOver, Top
<1>5. Top.group \in Groups /\ p \in Partitions
  BY <1>3 DEF Backlog
<1> DEFINE f == [Top EXCEPT !.parts = Top.parts \ {p}]
           under == [stack EXCEPT ![Len(stack)] = f]
<1>6. DeliverNew(Top.group, p, under)
  BY <1>4
<1>7. f \in Backlog /\ f.group = Top.group /\ f.parts = Top.parts \ {p}
  BY <1>3 DEF Backlog
<1>8. f \in Frame
  BY <1>7 DEF Frame
<1> HIDE DEF f
<1>9. under \in Seq(Frame) /\ FramesOf(under) = FramesOf(Rest) \cup {f}
  BY <1>2, <1>8
<1> HIDE DEF under
<1>10. /\ stack' \in Seq(Frame)
      /\ \/ Unowned(Top.group, p) /\ FramesOf(stack') = FramesOf(under) /\ aborted' = aborted
         \/ Begins(Top.group, p)
            /\ \E d \in Drain : /\ d.group = Top.group /\ d.part = p /\ d.at = cursor[Top.group][p]
                               /\ FramesOf(stack') = FramesOf(under) \cup {d}
  BY <1>5, <1>9, <1>6, StartedKeeps
<1>11. \A d : FramesOf(under) \cup {d} = FramesOf(Rest) \cup {f, d}
  BY <1>9
<1> QED BY <1>3, <1>7, <1>9, <1>10, <1>11

\* A delivery: the loop moves on, the handler runs above it.
LEMMA DeliverStack ==
  ASSUME BusTypeOK, Deliver
  PROVE  /\ Top \in Drain /\ stack' \in Seq(Frame)
         /\ \E f \in Drain, h \in Handler :
              /\ f.group = Top.group /\ f.part = Top.part /\ f.at = Top.at + 1
              /\ FramesOf(stack') = FramesOf(Rest) \cup {f, h}
<1>1. ~Idle /\ Top.kind = "deliverNew"
  BY DEF Deliver, On
<1>2. /\ Top \in Frame
      /\ \A t \in Frame : /\ [stack EXCEPT ![Len(stack)] = t] \in Seq(Frame)
                          /\ FramesOf([stack EXCEPT ![Len(stack)] = t]) = FramesOf(Rest) \cup {t}
  BY <1>1, AtTop
<1>3. Top \in Drain
  BY <1>1, <1>2, Kinds
<1> DEFINE f == [Top EXCEPT !.at = Top.at + 1]
           h == HandlerFrame(Top.group, <<Top.part, Top.at>>, Top.owner)
           under == [stack EXCEPT ![Len(stack)] = f]
<1>4. f \in Drain /\ f.group = Top.group /\ f.part = Top.part /\ f.at = Top.at + 1
  BY <1>3 DEF Drain
<1>5. Top.at < log[Top.part] /\ log[Top.part] \in 0..MaxOffset /\ Top.at \in Nat /\ Top.part \in Partitions
  BY <1>3 DEF Deliver, BusTypeOK, Drain
<1>6. <<Top.part, Top.at>> \in Messages
  BY <1>5, BoundsAssumption DEF Messages
<1>7. Top.group \in Groups /\ Top.owner.mode \in Modes
  BY <1>3 DEF Drain, Subscriptions
<1>8. h \in Handler
  BY <1>6, <1>7 DEF HandlerFrame, Handler
<1>9. f \in Frame /\ h \in Frame
  BY <1>4, <1>8 DEF Frame
<1>10. stack' = Append(under, h)
  BY DEF Deliver, Under
<1> HIDE DEF f, h
<1>11. under \in Seq(Frame) /\ FramesOf(under) = FramesOf(Rest) \cup {f}
  BY <1>2, <1>9
<1> HIDE DEF under
<1>12. stack' \in Seq(Frame) /\ FramesOf(stack') = FramesOf(under) \cup {h}
  BY <1>9, <1>10, <1>11, Pushed
<1> QED BY <1>3, <1>4, <1>8, <1>11, <1>12

ReturnOf == PublishReturns \/ DeliverNewReturns \/ SubscribeReturns \/ HandlerReturns

LEMMA ReturnStack ==
  ASSUME BusTypeOK, ReturnOf
  PROVE  ~Idle /\ stack' \in Seq(Frame) /\ FramesOf(stack') = FramesOf(Rest)
<1>1. ~Idle /\ stack' = Rest
  BY DEF ReturnOf, PublishReturns, DeliverNewReturns, SubscribeReturns, HandlerReturns, On
<1> QED BY <1>1, AtTop

LEMMA ConsumeStack ==
  ASSUME BusTypeOK, Consume
  PROVE  /\ Top \in Handler /\ stack' \in Seq(Frame)
         /\ \E h \in Handler : FramesOf(stack') = FramesOf(Rest) \cup {h}
<1>1. ~Idle /\ Top.kind = "handler"
  BY DEF Consume, On
<1>2. /\ Top \in Frame
      /\ \A t \in Frame : /\ [stack EXCEPT ![Len(stack)] = t] \in Seq(Frame)
                          /\ FramesOf([stack EXCEPT ![Len(stack)] = t]) = FramesOf(Rest) \cup {t}
  BY <1>1, AtTop
<1>3. Top \in Handler
  BY <1>1, <1>2, Kinds
<1> DEFINE h == [Top EXCEPT !.pc = "onResult"]
<1>4. h \in Handler
  BY <1>3 DEF Handler
<1>5. h \in Frame
  BY <1>4 DEF Frame
<1>6. stack' = [stack EXCEPT ![Len(stack)] = h]
  BY DEF Consume, Top
<1> HIDE DEF h
<1> QED BY <1>2, <1>3, <1>4, <1>5, <1>6

\* A nack returns the message to its owner, or to nobody.
LEMMA NackStack ==
  ASSUME BusTypeOK, NEW g \in Groups, NEW d \in inFlight[g], Nack(g, d)
  PROVE  /\ d \in Deliveries /\ stack' \in Seq(Frame)
         /\ \/ FramesOf(stack') = FramesOf(stack)
            \/ \E h \in Handler : FramesOf(stack') = FramesOf(stack) \cup {h}
<1>1. d \in Deliveries /\ stack \in Seq(Frame)
  BY DEF BusTypeOK, Frame
<1>2. CASE Unowned(g, d.msg[1])
  BY <1>1, <1>2 DEF Nack
<1>3. CASE ~Unowned(g, d.msg[1])
  <2>1. PICK s \in Members(g) : stack' = Append(stack, HandlerFrame(g, d.msg, s))
    BY <1>3 DEF Nack, Push
  <2>2. subs[g] \in Seq(Subscriptions)
    BY DEF BusTypeOK
  <2>3. s \in Subscriptions
    BY <2>2 DEF Members
  <2>4. HandlerFrame(g, d.msg, s) \in Handler
    BY <1>1, <2>3 DEF HandlerFrame, Handler, Subscriptions, Deliveries
  <2>5. HandlerFrame(g, d.msg, s) \in Frame
    BY <2>4 DEF Frame
  <2> DEFINE h == HandlerFrame(g, d.msg, s)
  <2> HIDE DEF h
  <2>6. h \in Handler /\ h \in Frame /\ stack' = Append(stack, h)
    BY <2>1, <2>4, <2>5 DEF h
  <2> QED BY <1>1, <2>6, Pushed
<1> QED BY <1>2, <1>3

\* An exception cuts the stack, and what the frames it cuts off had to hand over
\* is down as aborted.
LEMMA ThrowStack ==
  ASSUME BusTypeOK, HandlerThrows
  PROVE  /\ stack' \in Seq(Frame) /\ FramesOf(stack') \subseteq FramesOf(stack)
         /\ aborted' \in [Groups -> SUBSET Partitions]
         /\ \A g \in Groups : aborted[g] \subseteq aborted'[g]
         /\ \A g \in Groups, p \in Partitions : \A f \in FramesOf(stack) :
              HandsOver(f, g, p) => f \in FramesOf(stack') \/ p \in aborted'[g]
<1>1. stack \in Seq(Frame) /\ stack # <<>> /\ aborted \in [Groups -> SUBSET Partitions]
  BY DEF HandlerThrows, On, Idle, BusTypeOK, Frame
<1>2. PICK i \in 0..(Len(stack) - 1) :
        /\ stack' = SubSeq(stack, 1, i)
        /\ aborted' = [g \in Groups |-> aborted[g] \cup
             {p \in Partitions : \E k \in (i + 1)..Len(stack) : HandsOver(stack[k], g, p)}]
  BY DEF HandlerThrows
<1>3. Len(stack) \in Nat /\ DOMAIN stack = 1..Len(stack) /\ i \in Nat /\ i <= Len(stack)
  BY <1>1
<1>4. stack' \in Seq(Frame) /\ DOMAIN stack' = 1..i /\ \A k \in 1..i : stack'[k] = stack[k]
  BY <1>1, <1>2, <1>3
<1>5. FramesOf(stack') \subseteq FramesOf(stack)
  BY <1>3, <1>4 DEF FramesOf
<1>6. ASSUME NEW g \in Groups
      PROVE  aborted'[g] = aborted[g] \cup
               {p \in Partitions : \E k \in (i + 1)..Len(stack) : HandsOver(stack[k], g, p)}
  BY <1>2
<1>7. aborted' \in [Groups -> SUBSET Partitions]
  BY <1>1, <1>2
<1>8. ASSUME NEW g \in Groups, NEW p \in Partitions, NEW f \in FramesOf(stack), HandsOver(f, g, p)
      PROVE  f \in FramesOf(stack') \/ p \in aborted'[g]
  <2>1. PICK k \in 1..Len(stack) : f = stack[k]
    BY <1>3 DEF FramesOf
  <2>2. CASE k \in 1..i
    BY <1>4, <2>1, <2>2 DEF FramesOf
  <2>3. CASE k \in (i + 1)..Len(stack)
    BY <1>6, <1>8, <2>1, <2>3
  <2>4. k \in 1..i \/ k \in (i + 1)..Len(stack)
    BY <1>3
  <2> QED BY <2>2, <2>3, <2>4
<1> QED BY <1>4, <1>5, <1>6, <1>7, <1>8

-----------------------------------------------------------------------------
(* The data. *)

InFlightOK(fl) ==
  /\ fl \in [Groups -> SUBSET Deliveries]
  /\ \A g \in Groups : \A d, e \in fl[g] : d.msg = e.msg => d = e
MsgsOf(ds) == {d.msg : d \in ds}

LEMMA Tracked ==
  ASSUME InFlightOK(inFlight), NEW g \in Groups, NEW m \in Messages, NEW n \in 1..(MaxAttempts + 1)
  PROVE  /\ InFlightOK(Track(g, m, n))
         /\ MsgsOf(Track(g, m, n)[g]) = MsgsOf(inFlight[g]) \cup {m}
         /\ \A k \in Groups \ {g} : Track(g, m, n)[k] = inFlight[k]
<1> DEFINE new == [msg |-> m, count |-> n]
           kept == {d \in inFlight[g] : d.msg # m}
<1>1. new \in Deliveries /\ new.msg = m
  BY DEF Deliveries
<1>2. inFlight[g] \subseteq Deliveries
  BY DEF InFlightOK
<1>3. /\ Track(g, m, n) \in [Groups -> SUBSET Deliveries]
      /\ Track(g, m, n)[g] = kept \cup {new}
      /\ \A k \in Groups \ {g} : Track(g, m, n)[k] = inFlight[k]
  BY <1>1, <1>2 DEF Track, InFlightOK
<1> HIDE DEF new
<1>4. \A d, e \in kept \cup {new} : d.msg = e.msg => d = e
  BY <1>1 DEF InFlightOK
<1>5. MsgsOf(kept \cup {new}) = MsgsOf(inFlight[g]) \cup {m}
  BY <1>1 DEF MsgsOf
<1> HIDE DEF kept
<1>6. InFlightOK(Track(g, m, n))
  BY <1>3, <1>4 DEF InFlightOK
<1> QED BY <1>3, <1>5, <1>6

Without(g, m) == [inFlight EXCEPT ![g] = {d \in @ : d.msg # m}]

LEMMA Untracked ==
  ASSUME InFlightOK(inFlight), NEW g \in Groups, NEW m
  PROVE  /\ InFlightOK(Without(g, m))
         /\ MsgsOf(Without(g, m)[g]) = MsgsOf(inFlight[g]) \ {m}
         /\ \A k \in Groups \ {g} : Without(g, m)[k] = inFlight[k]
<1> DEFINE new == Without(g, m)
<1>1. /\ new \in [Groups -> SUBSET Deliveries]
      /\ new[g] = {d \in inFlight[g] : d.msg # m}
      /\ \A k \in Groups \ {g} : new[k] = inFlight[k]
  BY DEF InFlightOK, Without
<1> HIDE DEF new
<1>2. InFlightOK(new)
  BY <1>1 DEF InFlightOK
<1>3. MsgsOf(new[g]) = MsgsOf(inFlight[g]) \ {m}
  BY <1>1 DEF MsgsOf
<1> QED BY <1>1, <1>2, <1>3 DEF new

\* A nacked delivery is the only one of its message.
LEMMA Nobodys ==
  ASSUME InFlightOK(inFlight), NEW g \in Groups, NEW d \in inFlight[g]
  PROVE  [inFlight EXCEPT ![g] = @ \ {d}] = Without(g, d.msg)
<1>1. inFlight[g] \ {d} = {e \in inFlight[g] : e.msg # d.msg}
  BY DEF InFlightOK
<1> QED BY <1>1 DEF Without

LEMMA RemovedKeeps ==
  ASSUME NEW S, NEW s \in Seq(S), NEW i \in DOMAIN s
  PROVE  /\ RemoveAt(s, i) \in Seq(S) /\ s # <<>>
         /\ \A k \in DOMAIN RemoveAt(s, i) : \E j \in DOMAIN s : RemoveAt(s, i)[k] = s[j]
<1> DEFINE a == SubSeq(s, 1, i - 1)
           b == SubSeq(s, i + 1, Len(s))
<1>1. i \in 1..Len(s) /\ Len(s) \in Nat /\ DOMAIN s = 1..Len(s) /\ s # <<>>
  OBVIOUS
<1>2. a \in Seq(S) /\ Len(a) = i - 1 /\ \A k \in 1..(i - 1) : a[k] = s[k]
  BY <1>1
<1>3. b \in Seq(S) /\ Len(b) = Len(s) - i /\ \A k \in 1..(Len(s) - i) : b[k] = s[k + i]
  BY <1>1
<1> HIDE DEF a, b
<1> DEFINE r == a \o b
<1>4. r \in Seq(S) /\ Len(r) = Len(s) - 1
  <2>1. a \in Seq(S) /\ b \in Seq(S)
    BY <1>2, <1>3
  <2>2. r \in Seq(S) /\ Len(r) = Len(a) + Len(b)
    BY <2>1
  <2>3. i \in Nat
    BY <1>1
  <2> QED BY <1>1, <1>2, <1>3, <2>2, <2>3
<1>5. \A k \in 1..(Len(s) - 1) : r[k] = IF k < i THEN a[k] ELSE b[k - (i - 1)]
  BY <1>1, <1>2, <1>3
<1> HIDE DEF r
<1>6. DOMAIN r = 1..(Len(s) - 1)
  BY <1>4, <1>1
<1>7. ASSUME NEW k \in 1..(Len(s) - 1)
      PROVE  \E j \in 1..Len(s) : r[k] = s[j]
  <2>1. CASE k < i
    BY <1>1, <1>2, <1>5, <2>1
  <2>2. CASE ~(k < i)
    <3>1. k - (i - 1) \in 1..(Len(s) - i) /\ k + 1 \in 1..Len(s) /\ (k - (i - 1)) + i = k + 1
      BY <1>1, <2>2
    <3>2. r[k] = s[k + 1]
      BY <1>3, <1>5, <2>2, <3>1
    <3> QED BY <3>1, <3>2
  <2> QED BY <2>1, <2>2
<1>8. RemoveAt(s, i) = r
  BY DEF RemoveAt, a, b, r
<1> QED BY <1>1, <1>4, <1>6, <1>7, <1>8

TypedRest == joined \in Seq(Groups) /\ nsubs \in 0..MaxSubs
             /\ subs \in [Groups -> Seq(Subscriptions)]
             /\ aborted \in [Groups -> SUBSET Partitions]
History == {seen, committed, dropped} \subseteq [Groups -> SUBSET Messages]

Typed == /\ log \in [Partitions -> 0..MaxOffset] /\ TypedRest
         /\ cursor \in [Groups -> [Partitions -> 0..MaxOffset]]
         /\ InFlightOK(inFlight) /\ stack \in Seq(Frame) /\ History

LEMMA TypesAre == (BusTypeOK <=> Typed) /\ (BusTypeOK' <=> Typed')
BY DEF BusTypeOK, Typed, TypedRest, InFlightOK, History, Frame

LEMMA TypesCall ==
  ASSUME BusTypeOK, Call
  PROVE  BusTypeOK'
<1>1. ASSUME NEW p \in Partitions, Publish(p)
      PROVE  BusTypeOK'
  <2>1. stack' \in Seq(Frame)
    BY <1>1, PublishStack
  <2>2. log' \in [Partitions -> 0..MaxOffset]
    BY <1>1, BoundsAssumption DEF Publish, BusTypeOK
  <2> QED BY <1>1, <2>1, <2>2, TypesAre DEF Typed, Publish, TypedRest, InFlightOK, History
<1>2. ASSUME NEW g \in Groups, NEW parts \in SUBSET Partitions, NEW style \in Modes, NEW replay \in Replays,
             Subscribe(g, parts, style, replay)
      PROVE  BusTypeOK'
  <2>1. stack' \in Seq(Frame)
    BY <1>2, SubscribeStack DEF Subscribe
  <2>2. nsubs' \in 1..MaxSubs
    BY <1>2, BoundsAssumption DEF Subscribe, BusTypeOK
  <2>3. [id |-> nsubs', mode |-> style, parts |-> parts] \in Subscriptions
    BY <2>2 DEF Subscriptions
  <2>4. subs' \in [Groups -> Seq(Subscriptions)]
    BY <1>2, <2>3 DEF Subscribe, BusTypeOK
  <2>5. joined' \in Seq(Groups)
    BY <1>2 DEF Subscribe, BusTypeOK
  <2>6. \A p \in Partitions : (IF replay /\ p \in parts THEN 0 ELSE cursor[g][p]) \in 0..MaxOffset
    BY BoundsAssumption DEF BusTypeOK
  <2>7. cursor' \in [Groups -> [Partitions -> 0..MaxOffset]]
    BY <1>2, <2>6 DEF Subscribe, BusTypeOK
  <2>8. nsubs' \in 0..MaxSubs
    BY <2>2
  <2> QED BY <1>2, <2>1, <2>4, <2>5, <2>7, <2>8, TypesAre DEF Typed, Subscribe, TypedRest, InFlightOK, History
<1>3. ASSUME NEW g \in Groups, NEW i \in DOMAIN subs[g], Close(g, i)
      PROVE  BusTypeOK'
  <2>1. subs[g] \in Seq(Subscriptions)
    BY DEF BusTypeOK
  <2>2. RemoveAt(subs[g], i) \in Seq(Subscriptions)
    BY <2>1, RemovedKeeps
  <2>3. subs' \in [Groups -> Seq(Subscriptions)]
    BY <1>3, <2>2 DEF Close, BusTypeOK
  <2> QED BY <1>3, <2>3, TypesAre DEF Typed, Close, TypedRest, InFlightOK, History
<1>4. ASSUME NEW g \in Groups, NEW d \in inFlight[g], Ack(g, d.msg)
      PROVE  BusTypeOK'
  <2>1. InFlightOK(inFlight) /\ d \in Deliveries
    BY TypesAre DEF Typed, InFlightOK
  <2>2. InFlightOK(inFlight')
    <3>1. inFlight' = Without(g, d.msg)
      BY <1>4 DEF Ack, Commit, Without
    <3> QED BY <2>1, <3>1, Untracked
  <2>3. d.msg \in Messages
    BY <2>1 DEF Deliveries
  <2>4. History'
    BY <1>4, <2>3 DEF Ack, Commit, BusTypeOK, History
  <2> QED BY <1>4, <2>2, <2>4, TypesAre DEF Typed, Ack, TypedRest, InFlightOK
<1>5. ASSUME NEW g \in Groups, NEW d \in inFlight[g], Nack(g, d)
      PROVE  BusTypeOK'
  <2>1. d \in Deliveries /\ stack' \in Seq(Frame)
    BY <1>5, NackStack
  <2>2. d.msg \in Messages /\ d.count \in 1..(MaxAttempts + 1) /\ InFlightOK(inFlight)
    BY <2>1, TypesAre DEF Typed, Deliveries
  <2>3. d.count + 1 \in 1..(MaxAttempts + 1)
    BY <1>5, <2>2, BoundsAssumption DEF Nack
  <2>4. InFlightOK(inFlight')
    <3>1. CASE Unowned(g, d.msg[1])
      <4>1. inFlight' = [inFlight EXCEPT ![g] = @ \ {d}]
        BY <1>5, <3>1 DEF Nack
      <4>2. inFlight' = Without(g, d.msg)
        BY <2>2, <4>1, Nobodys
      <4> QED BY <2>2, <4>2, Untracked
    <3>2. CASE ~Unowned(g, d.msg[1])
      BY <1>5, <2>2, <2>3, <3>2, Tracked DEF Nack
    <3> QED BY <3>1, <3>2
  <2>5. History'
    <3>1. dropped' = dropped \/ dropped' = [dropped EXCEPT ![g] = @ \cup {d.msg}]
      BY <1>5 DEF Nack
    <3>2. dropped \in [Groups -> SUBSET Messages] /\ dropped[g] \cup {d.msg} \in SUBSET Messages
      BY <2>2 DEF BusTypeOK
    <3>3. dropped' \in [Groups -> SUBSET Messages]
      BY <3>1, <3>2
    <3> QED BY <1>5, <3>3 DEF Nack, BusTypeOK, History
  <2> QED BY <1>5, <2>1, <2>4, <2>5, TypesAre DEF Typed, Nack, TypedRest, InFlightOK
<1>6. ASSUME Clear
      PROVE  BusTypeOK'
  <2>1. /\ log' \in [Partitions -> 0..MaxOffset]
        /\ cursor' \in [Groups -> [Partitions -> 0..MaxOffset]]
    BY <1>6, BoundsAssumption DEF Clear
  <2>2. TypedRest' /\ InFlightOK(inFlight)' /\ History'
    BY <1>6 DEF Clear, BusTypeOK, TypedRest, InFlightOK, History
  <2> QED BY <1>6, <2>1, <2>2, TypesAre DEF Typed, Clear
<1> QED BY <1>1, <1>2, <1>3, <1>4, <1>5, <1>6 DEF Call

LEMMA TypesRun ==
  ASSUME BusTypeOK, Run
  PROVE  BusTypeOK'
<1>0. ASSUME aborted' = aborted \/ \E g \in Groups, p \in Partitions : Begins(g, p)
      PROVE  aborted' \in [Groups -> SUBSET Partitions]
  BY <1>0 DEF Begins, BusTypeOK
<1>1. CASE FanOut
  <2>1. /\ Top.part \in Partitions /\ joined[Top.next] \in Groups /\ stack' \in Seq(Frame)
        /\ aborted' = aborted \/ Begins(joined[Top.next], Top.part)
    BY <1>1, FanOutStack DEF Fan
  <2> QED BY <1>0, <1>1, <2>1, TypesAre DEF Typed, FanOut, TypedRest, InFlightOK, History
<1>2. CASE HandOver
  <2>1. Top.group \in Groups /\ Top.parts \subseteq Partitions /\ stack' \in Seq(Frame)
    BY <1>2, HandOverStack DEF Backlog
  <2>2. \E p \in Top.parts : aborted' = aborted \/ Begins(Top.group, p)
    BY <1>2, HandOverStack
  <2>3. aborted' \in [Groups -> SUBSET Partitions]
    BY <1>0, <2>1, <2>2
  <2> QED BY <1>2, <2>1, <2>3, TypesAre DEF Typed, HandOver, TypedRest, InFlightOK, History
<1>3. CASE ReturnOf
  BY <1>3, ReturnStack, TypesAre
     DEF Typed, ReturnOf, PublishReturns, DeliverNewReturns, SubscribeReturns, HandlerReturns,
         TypedRest, InFlightOK, History
<1>4. CASE Deliver
  <2>1. Top \in Drain /\ stack' \in Seq(Frame)
    BY <1>4, DeliverStack
  <2>2. Top.at < log[Top.part] /\ log[Top.part] \in 0..MaxOffset /\ Top.at \in Nat
        /\ Top.part \in Partitions /\ Top.group \in Groups
    BY <1>4, <2>1 DEF Deliver, BusTypeOK, Drain
  <2>3. <<Top.part, Top.at>> \in Messages /\ Top.at + 1 \in 0..MaxOffset
    BY <2>2, BoundsAssumption DEF Messages
  <2>4. cursor' \in [Groups -> [Partitions -> 0..MaxOffset]]
    BY <1>4, <2>2, <2>3 DEF Deliver, BusTypeOK
  <2>5. 1 \in 1..(MaxAttempts + 1)
    BY BoundsAssumption
  <2>6. InFlightOK(inFlight')
    BY <1>4, <2>2, <2>3, <2>5, TypesAre, Tracked DEF Typed, Deliver
  <2>7. History'
    <3>1. seen' = [seen EXCEPT ![Top.group] = @ \cup {<<Top.part, Top.at>>}]
      BY <1>4 DEF Deliver
    <3>2. seen' \in [Groups -> SUBSET Messages]
      BY <2>2, <2>3, <3>1 DEF BusTypeOK
    <3> QED BY <1>4, <3>2 DEF Deliver, BusTypeOK, History
  <2> QED BY <1>4, <2>1, <2>4, <2>6, <2>7, TypesAre DEF Typed, Deliver, TypedRest, InFlightOK
<1>5. CASE Consume
  <2>1. Top \in Handler /\ stack' \in Seq(Frame)
    BY <1>5, ConsumeStack
  <2>2. Top.group \in Groups /\ Top.msg \in Messages
    BY <2>1 DEF Handler
  <2>3. InFlightOK(inFlight')
    <3>1. inFlight' = Without(Top.group, Top.msg)
      BY <1>5 DEF Consume, Commit, Without
    <3>2. InFlightOK(inFlight)
      BY TypesAre DEF Typed
    <3> QED BY <2>2, <3>1, <3>2, Untracked
  <2>4. History'
    BY <1>5, <2>2 DEF Consume, Commit, BusTypeOK, History
  <2> QED BY <1>5, <2>1, <2>3, <2>4, TypesAre DEF Typed, Consume, TypedRest, InFlightOK
<1>6. CASE HandlerThrows
  BY <1>6, ThrowStack, TypesAre DEF Typed, HandlerThrows, TypedRest, InFlightOK, History
<1> QED BY <1>1, <1>2, <1>3, <1>4, <1>5, <1>6 DEF Run, ReturnOf

-----------------------------------------------------------------------------
(* At least once. *)

Kept(g) == seen[g] \subseteq committed[g] \cup dropped[g] \cup MsgsOf(inFlight[g])

LEMMA LostCall ==
  ASSUME BusTypeOK, NothingLost, Call
  PROVE  NothingLost'
<1>1. \A g \in Groups : Kept(g)
  BY DEF NothingLost, Kept, MsgsOf
<1> SUFFICES ASSUME NEW k \in Groups PROVE Kept(k)'
  BY DEF NothingLost, Kept, MsgsOf
<1>2. Kept(k) /\ InFlightOK(inFlight) /\ {committed, dropped, seen} \subseteq [Groups -> SUBSET Messages]
  BY <1>1, TypesAre DEF Typed, History
<1>0. Kept(k)' <=> seen'[k] \subseteq committed'[k] \cup dropped'[k] \cup MsgsOf(inFlight'[k])
  BY DEF Kept, MsgsOf
<1>3. ASSUME UNCHANGED <<inFlight, seen, committed, dropped>>
      PROVE  Kept(k)'
  BY <1>2, <1>3 DEF Kept, MsgsOf
<1>4. ASSUME NEW g \in Groups, NEW d \in inFlight[g], Ack(g, d.msg)
      PROVE  Kept(k)'
  <2>1. /\ MsgsOf(inFlight'[g]) = MsgsOf(inFlight[g]) \ {d.msg}
        /\ \A h \in Groups \ {g} : inFlight'[h] = inFlight[h]
    <3>1. inFlight' = Without(g, d.msg)
      BY <1>4 DEF Ack, Commit, Without
    <3> QED BY <1>2, <3>1, Untracked
  <2>2. seen' = seen /\ dropped' = dropped /\ committed' = [committed EXCEPT ![g] = @ \cup {d.msg}]
    BY <1>4 DEF Ack, Commit
  <2>3. CASE k = g
    BY <1>0, <1>2, <2>1, <2>2, <2>3 DEF Kept
  <2>4. CASE k # g
    BY <1>0, <1>2, <2>1, <2>2, <2>4 DEF Kept
  <2> QED BY <2>3, <2>4
<1>5. ASSUME NEW g \in Groups, NEW d \in inFlight[g], Nack(g, d)
      PROVE  Kept(k)'
  <2>1. d.msg \in Messages /\ d.count + 1 \in 1..(MaxAttempts + 1)
    BY <1>2, <1>5, BoundsAssumption DEF InFlightOK, Deliveries, Nack
  <2>2. seen' = seen /\ committed' = committed
    BY <1>5 DEF Nack
  <2>3. CASE Unowned(g, d.msg[1])
    <3>1. /\ inFlight' = [inFlight EXCEPT ![g] = @ \ {d}]
          /\ dropped' = [dropped EXCEPT ![g] = @ \cup {d.msg}]
      BY <1>5, <2>3 DEF Nack
    <3>2. inFlight' = Without(g, d.msg)
      BY <1>2, <3>1, Nobodys
    <3>3. /\ MsgsOf(inFlight'[g]) = MsgsOf(inFlight[g]) \ {d.msg}
          /\ \A h \in Groups \ {g} : inFlight'[h] = inFlight[h]
      BY <1>2, <3>2, Untracked
    <3>4. CASE k = g
      BY <1>0, <1>2, <2>2, <3>1, <3>3, <3>4 DEF Kept
    <3>5. CASE k # g
      BY <1>0, <1>2, <2>2, <3>1, <3>3, <3>5 DEF Kept
    <3> QED BY <3>4, <3>5
  <2>4. CASE ~Unowned(g, d.msg[1])
    <3>1. inFlight' = Track(g, d.msg, d.count + 1) /\ dropped' = dropped
      BY <1>5, <2>4 DEF Nack
    <3>2. /\ MsgsOf(inFlight'[g]) = MsgsOf(inFlight[g]) \cup {d.msg}
          /\ \A h \in Groups \ {g} : inFlight'[h] = inFlight[h]
      <4>1. InFlightOK(inFlight) /\ g \in Groups
        BY <1>2
      <4>2. /\ MsgsOf(Track(g, d.msg, d.count + 1)[g]) = MsgsOf(inFlight[g]) \cup {d.msg}
            /\ \A h \in Groups \ {g} : Track(g, d.msg, d.count + 1)[h] = inFlight[h]
        BY <2>1, <4>1, Tracked, Zenon
      <4> QED BY <3>1, <4>2, Zenon
    <3> QED BY <1>0, <1>2, <2>2, <3>1, <3>2 DEF Kept
  <2> QED BY <2>3, <2>4
<1>6. ASSUME Clear
      PROVE  Kept(k)'
  BY <1>6 DEF Clear, Kept
<1> QED BY <1>3, <1>4, <1>5, <1>6 DEF Call, Publish, Subscribe, Close

LEMMA LostRun ==
  ASSUME BusTypeOK, NothingLost, Run
  PROVE  NothingLost'
<1>1. \A g \in Groups : Kept(g)
  BY DEF NothingLost, Kept, MsgsOf
<1> SUFFICES ASSUME NEW k \in Groups PROVE Kept(k)'
  BY DEF NothingLost, Kept, MsgsOf
<1>2. Kept(k) /\ InFlightOK(inFlight) /\ {committed, dropped, seen} \subseteq [Groups -> SUBSET Messages]
  BY <1>1, TypesAre DEF Typed, History
<1>0. Kept(k)' <=> seen'[k] \subseteq committed'[k] \cup dropped'[k] \cup MsgsOf(inFlight'[k])
  BY DEF Kept, MsgsOf
<1>3. ASSUME UNCHANGED <<inFlight, seen, committed, dropped>>
      PROVE  Kept(k)'
  BY <1>2, <1>3 DEF Kept, MsgsOf
<1>4. CASE Deliver
  <2> DEFINE g == Top.group
             m == <<Top.part, Top.at>>
  <2>1. Top \in Drain /\ Top.at < log[Top.part] /\ log \in [Partitions -> 0..MaxOffset]
    BY <1>4, DeliverStack DEF Deliver, BusTypeOK
  <2>2. g \in Groups /\ m \in Messages /\ 1 \in 1..(MaxAttempts + 1)
    BY <2>1, BoundsAssumption DEF Drain, Messages
  <2>3. /\ inFlight' = Track(g, m, 1) /\ seen' = [seen EXCEPT ![g] = @ \cup {m}]
        /\ committed' = committed /\ dropped' = dropped
    BY <1>4 DEF Deliver
  <2> HIDE DEF g, m
  <2>4. /\ MsgsOf(inFlight'[g]) = MsgsOf(inFlight[g]) \cup {m}
        /\ \A h \in Groups \ {g} : inFlight'[h] = inFlight[h]
    BY <1>2, <2>2, <2>3, Tracked
  <2>5. CASE k = g
    BY <1>0, <1>2, <2>3, <2>4, <2>5 DEF Kept
  <2>6. CASE k # g
    BY <1>0, <1>2, <2>2, <2>3, <2>4, <2>6 DEF Kept
  <2> QED BY <2>5, <2>6
<1>5. CASE Consume
  <2> DEFINE g == Top.group
             m == Top.msg
  <2>1. Top \in Handler
    BY <1>5, ConsumeStack
  <2>2. g \in Groups
    BY <2>1 DEF Handler
  <2>3. /\ inFlight' = Without(g, m)
        /\ committed' = [committed EXCEPT ![g] = @ \cup {m}] /\ seen' = seen /\ dropped' = dropped
    BY <1>5 DEF Consume, Commit, Without
  <2> HIDE DEF g, m
  <2>4. /\ MsgsOf(inFlight'[g]) = MsgsOf(inFlight[g]) \ {m}
        /\ \A h \in Groups \ {g} : inFlight'[h] = inFlight[h]
    BY <1>2, <2>2, <2>3, Untracked
  <2>5. CASE k = g
    BY <1>0, <1>2, <2>3, <2>4, <2>5 DEF Kept
  <2>6. CASE k # g
    BY <1>0, <1>2, <2>2, <2>3, <2>4, <2>6 DEF Kept
  <2> QED BY <2>5, <2>6
<1> QED BY <1>3, <1>4, <1>5
        DEF Run, FanOut, PublishReturns, DeliverNewReturns, HandOver, SubscribeReturns, HandlerReturns,
            HandlerThrows

-----------------------------------------------------------------------------
(* A group with a subscription is one of those publish goes over. *)

LEMMA OwnersStep ==
  ASSUME BusTypeOK, OwnersJoined, BusNext
  PROVE  OwnersJoined'
<1>1. ASSUME UNCHANGED <<subs, joined>>
      PROVE  OwnersJoined'
  BY <1>1 DEF OwnersJoined, HasJoined
<1>2. ASSUME NEW g \in Groups, NEW parts, NEW style, NEW replay, Subscribe(g, parts, style, replay)
      PROVE  OwnersJoined'
  <2>1. joined \in Seq(Groups) /\ subs \in [Groups -> Seq(Subscriptions)]
    BY DEF BusTypeOK
  <2>2. (joined' = joined /\ HasJoined(g)) \/ joined' = Append(joined, g)
    BY <1>2 DEF Subscribe, HasJoined
  <2>3. \A k \in Groups : HasJoined(k) => HasJoined(k)'
    <3>1. CASE joined' = joined
      BY <3>1 DEF HasJoined
    <3>2. CASE joined' = Append(joined, g)
      <4>1. \A j \in DOMAIN joined : j \in DOMAIN joined' /\ joined'[j] = joined[j]
        BY <2>1, <3>2
      <4> QED BY <4>1 DEF HasJoined
    <3> QED BY <2>2, <3>1, <3>2
  <2>4. HasJoined(g)'
    <3>1. CASE joined' = joined /\ HasJoined(g)
      BY <3>1 DEF HasJoined
    <3>2. CASE joined' = Append(joined, g)
      <4>1. Len(joined) + 1 \in DOMAIN joined' /\ joined'[Len(joined) + 1] = g
        BY <2>1, <3>2
      <4> QED BY <4>1 DEF HasJoined
    <3> QED BY <2>2, <3>1, <3>2
  <2>5. \A k \in Groups \ {g} : subs'[k] = subs[k]
    BY <1>2, <2>1 DEF Subscribe
  <2> QED BY <2>3, <2>4, <2>5 DEF OwnersJoined
<1>3. ASSUME NEW g \in Groups, NEW i \in DOMAIN subs[g], Close(g, i)
      PROVE  OwnersJoined'
  <2>1. subs \in [Groups -> Seq(Subscriptions)] /\ subs[g] # <<>>
    BY RemovedKeeps DEF BusTypeOK
  <2>2. joined' = joined /\ \A k \in Groups \ {g} : subs'[k] = subs[k]
    BY <1>3, <2>1 DEF Close
  <2> QED BY <2>1, <2>2 DEF OwnersJoined, HasJoined
<1>4. ASSUME Clear
      PROVE  OwnersJoined'
  BY <1>4 DEF Clear, OwnersJoined
<1>5. CASE Run
  BY <1>1, <1>5 DEF Run, FanOut, PublishReturns, Deliver, DeliverNewReturns, HandOver,
                    SubscribeReturns, Consume, HandlerReturns, HandlerThrows
<1>6. CASE Call
  BY <1>1, <1>2, <1>3, <1>4, <1>6 DEF Call, Publish, Ack, Nack
<1> QED BY <1>5, <1>6 DEF BusNext

-----------------------------------------------------------------------------
(* In order. *)

\* Nothing is given to a group, no cursor advances, and no deliverNew loop
\* starts ahead of its cursor.
LEMMA OrderKept ==
  ASSUME BusTypeOK, BusTypeOK', Ordered, seen' = seen,
         \A p \in Partitions : log[p] <= log'[p],
         \A g \in Groups, p \in Partitions : cursor'[g][p] <= cursor[g][p],
         \A f \in FramesOf(stack') : \/ f \in FramesOf(stack) \/ f.kind # "deliverNew"
                                     \/ f.at = cursor[f.group][f.part]
  PROVE  Ordered'
<1> SUFFICES ASSUME NEW g \in Groups, NEW p \in Partitions PROVE OrderAt(g, p)'
  BY DEF Ordered
<1>1. PICK n \in cursor[g][p]..log[p] :
        Given(g, p, n) /\ \A f \in FramesOf(stack) : Draining(f, g, p) => f.at <= n
  BY DEF Ordered, OrderAt
<1>2. cursor[g][p] \in Nat /\ log[p] \in Nat /\ cursor'[g][p] \in Nat /\ log'[p] \in Nat
  BY BoundsAssumption DEF BusTypeOK
<1>3. n \in cursor'[g][p]..log'[p]
  BY <1>2
<1>4. \A f \in FramesOf(stack') : Draining(f, g, p) => f.at <= n
  BY <1>1, <1>2 DEF Draining
<1>5. Given(g, p, n)'
  BY <1>1 DEF Given
<1> QED BY <1>3, <1>4, <1>5 DEF OrderAt, Draining

LEMMA OrderCall ==
  ASSUME BusTypeOK, BusTypeOK', Ordered, Call
  PROVE  Ordered'
<1>1. log \in [Partitions -> Nat] /\ cursor \in [Groups -> [Partitions -> Nat]]
  BY BoundsAssumption DEF BusTypeOK
<1>2. ASSUME NEW p \in Partitions, Publish(p)
      PROVE  Ordered'
  <2>1. \A f \in FramesOf(stack') : f \in FramesOf(stack) \/ f.kind # "deliverNew"
    BY <1>2, PublishStack DEF Fan
  <2>2. \A q \in Partitions : log[q] <= log'[q]
    BY <1>1, <1>2 DEF Publish
  <2>3. \A g \in Groups, q \in Partitions : cursor'[g][q] <= cursor[g][q]
    BY <1>1, <1>2 DEF Publish
  <2> QED BY <1>2, <2>1, <2>2, <2>3, OrderKept DEF Publish
<1>3. ASSUME NEW g \in Groups, NEW parts \in SUBSET Partitions, NEW style, NEW replay,
             Subscribe(g, parts, style, replay)
      PROVE  Ordered'
  <2>1. \A f \in FramesOf(stack') : f \in FramesOf(stack) \/ f.kind # "deliverNew"
    BY <1>3, SubscribeStack DEF Subscribe, Backlog
  <2>2. \A q \in Partitions : log[q] <= log'[q]
    BY <1>1, <1>3 DEF Subscribe
  <2>3. \A h \in Groups, q \in Partitions : cursor'[h][q] <= cursor[h][q]
    BY <1>1, <1>3 DEF Subscribe
  <2> QED BY <1>3, <2>1, <2>2, <2>3, OrderKept DEF Subscribe
<1>4. ASSUME NEW g \in Groups, NEW d \in inFlight[g], Nack(g, d)
      PROVE  Ordered'
  <2>1. \A f \in FramesOf(stack') : f \in FramesOf(stack) \/ f.kind # "deliverNew"
    BY <1>4, NackStack DEF Handler
  <2>2. \A q \in Partitions : log[q] <= log'[q]
    BY <1>1, <1>4 DEF Nack
  <2>3. \A h \in Groups, q \in Partitions : cursor'[h][q] <= cursor[h][q]
    BY <1>1, <1>4 DEF Nack
  <2> QED BY <1>4, <2>1, <2>2, <2>3, OrderKept DEF Nack
<1>5. ASSUME UNCHANGED <<stack, seen, log, cursor>>
      PROVE  Ordered'
  BY <1>5 DEF Ordered, OrderAt, Given, Draining
<1>6. ASSUME Clear
      PROVE  Ordered'
  <2>1. DOMAIN stack' = {} /\ stack' = <<>>
    BY <1>6 DEF Clear, Idle
  <2>2. FramesOf(stack') = {}
    BY <2>1 DEF FramesOf
  <2>3. ASSUME NEW g \in Groups, NEW p \in Partitions
        PROVE  OrderAt(g, p)'
    <3>1. cursor'[g][p] = 0 /\ log'[p] = 0 /\ seen'[g] = {}
      BY <1>6 DEF Clear
    <3>2. Given(g, p, 0)'
      BY <3>1 DEF Given
    <3> QED BY <2>2, <3>1, <3>2 DEF OrderAt, Draining
  <2> QED BY <2>3 DEF Ordered
<1> QED BY <1>2, <1>3, <1>4, <1>5, <1>6 DEF Call, Ack, Close

LEMMA OrderRun ==
  ASSUME BusTypeOK, BusTypeOK', Ordered, Run
  PROVE  Ordered'
<1>1. /\ log \in [Partitions -> Nat] /\ cursor \in [Groups -> [Partitions -> Nat]]
      /\ seen \in [Groups -> SUBSET Messages]
  BY BoundsAssumption DEF BusTypeOK
<1>2. ~Idle => Top \in Frame /\ FramesOf(stack) = FramesOf(Rest) \cup {Top}
  BY AtTop
<1>3. ASSUME UNCHANGED <<log, cursor, seen>>,
             \A f \in FramesOf(stack') : \/ f \in FramesOf(stack) \/ f.kind # "deliverNew"
                                         \/ f.at = cursor[f.group][f.part]
      PROVE  Ordered'
  BY <1>1, <1>3, OrderKept
<1>4. CASE FanOut
  <2>1. ~Idle
    BY <1>4 DEF FanOut, On
  <2>2. \A f \in FramesOf(stack') : \/ f \in FramesOf(stack) \/ f.kind # "deliverNew"
                                    \/ f.at = cursor[f.group][f.part]
    BY <1>2, <1>4, <2>1, FanOutStack DEF Fan
  <2> QED BY <1>3, <1>4, <2>2 DEF FanOut
<1>5. CASE HandOver
  <2>1. ~Idle
    BY <1>5 DEF HandOver, On
  <2>2. \A f \in FramesOf(stack') : \/ f \in FramesOf(stack) \/ f.kind # "deliverNew"
                                    \/ f.at = cursor[f.group][f.part]
    BY <1>2, <1>5, <2>1, HandOverStack DEF Backlog
  <2> QED BY <1>3, <1>5, <2>2 DEF HandOver
<1>6. CASE ReturnOf
  <2>1. \A f \in FramesOf(stack') : f \in FramesOf(stack)
    BY <1>2, <1>6, ReturnStack
  <2> QED BY <1>3, <1>6, <2>1
          DEF ReturnOf, PublishReturns, DeliverNewReturns, SubscribeReturns, HandlerReturns
<1>7. CASE Consume
  <2>1. ~Idle
    BY <1>7 DEF Consume, On
  <2>2. \A f \in FramesOf(stack') : f \in FramesOf(stack) \/ f.kind # "deliverNew"
    BY <1>2, <1>7, <2>1, ConsumeStack DEF Handler
  <2> QED BY <1>3, <1>7, <2>2 DEF Consume
<1>8. CASE Deliver
  <2> DEFINE h == Top.group
             q == Top.part
             at == Top.at
  <2>1. Top \in Drain /\ ~Idle
    BY <1>8, DeliverStack DEF Deliver, On
  <2>2. h \in Groups /\ q \in Partitions /\ at \in Nat /\ at < log[q]
    BY <1>8, <2>1 DEF Deliver, Drain
  <2>3. Top \in FramesOf(stack) /\ Draining(Top, h, q)
    BY <1>2, <2>1 DEF Draining, Drain
  <2>4. /\ cursor' = [cursor EXCEPT ![h][q] = at + 1] /\ log' = log
        /\ seen' = [seen EXCEPT ![h] = @ \cup {<<q, at>>}]
    BY <1>8 DEF Deliver
  <2>5. \A f \in FramesOf(stack') : \/ f \in FramesOf(stack) \/ f.kind # "deliverNew"
                                    \/ f.group = h /\ f.part = q /\ f.at = at + 1
    BY <1>2, <1>8, <2>1, DeliverStack DEF Handler
  <2> SUFFICES ASSUME NEW g \in Groups, NEW p \in Partitions PROVE OrderAt(g, p)'
    BY DEF Ordered
  <2>6. PICK n \in cursor[g][p]..log[p] :
          Given(g, p, n) /\ \A f \in FramesOf(stack) : Draining(f, g, p) => f.at <= n
    BY DEF Ordered, OrderAt
  <2> HIDE DEF h, q, at
  <2>7. CASE g = h /\ p = q
    <3>1. at <= n
      BY <2>3, <2>6, <2>7 DEF h, q, at
    <3>2. PICK k : k = IF at = n THEN at + 1 ELSE n
      OBVIOUS
    <3>3. cursor'[g][p] = at + 1 /\ n \in Nat /\ log[p] \in Nat
      BY <1>1, <2>2, <2>4, <2>6, <2>7
    <3>4. k \in cursor'[g][p]..log'[p]
      BY <2>2, <2>4, <2>6, <2>7, <3>2, <3>1, <3>3
    <3>5. seen'[g] = seen[g] \cup {<<p, at>>}
      BY <1>1, <2>4, <2>7
    <3>6. 0..(k - 1) = (0..(n - 1)) \cup {at}
      BY <2>2, <3>2, <3>1, <3>3
    <3>7. {m \in seen'[g] : m[1] = p} = {m \in seen[g] : m[1] = p} \cup {<<p, at>>}
      BY <3>5
    <3>8. Given(g, p, k)'
      <4>1. {m \in seen[g] : m[1] = p} = {p} \X (0..(n - 1))
        BY <2>6 DEF Given
      <4>2. ({p} \X (0..(n - 1))) \cup {<<p, at>>} = {p} \X ((0..(n - 1)) \cup {at})
        OBVIOUS
      <4>3. {m \in seen'[g] : m[1] = p} = {p} \X (0..(k - 1))
        BY <3>6, <3>7, <4>1, <4>2
      <4> QED BY <4>3 DEF Given
    <3>9. \A f \in FramesOf(stack') : Draining(f, g, p) => f.at <= k
      <4>1. \A f \in FramesOf(stack) : Draining(f, g, p) => f.at \in Nat
        <5>1. FramesOf(stack) \subseteq Frame
          BY TypesAre DEF Typed, FramesOf
        <5> QED BY <5>1, Kinds DEF Draining, Drain
      <4>2. n <= k /\ at + 1 <= k /\ k \in Nat
        BY <2>2, <3>2, <3>1, <3>3
      <4> SUFFICES ASSUME NEW f \in FramesOf(stack'), Draining(f, g, p) PROVE f.at <= k
        OBVIOUS
      <4>3. CASE f \in FramesOf(stack)
        BY <2>6, <3>3, <4>1, <4>2, <4>3
      <4>4. CASE f.at = at + 1
        BY <4>2, <4>4
      <4> QED BY <2>5, <4>3, <4>4 DEF Draining
    <3> QED BY <3>4, <3>8, <3>9 DEF OrderAt, Draining
  <2>8. CASE ~(g = h /\ p = q)
    <3>1. cursor'[g][p] = cursor[g][p]
      BY <1>1, <2>2, <2>4, <2>8
    <3>2. {m \in seen'[g] : m[1] = p} = {m \in seen[g] : m[1] = p}
      BY <1>1, <2>2, <2>4, <2>8
    <3>3. Given(g, p, n)'
      BY <2>6, <3>2 DEF Given
    <3>4. \A f \in FramesOf(stack') : Draining(f, g, p) => f.at <= n
      BY <2>5, <2>6, <2>8 DEF Draining
    <3> QED BY <2>4, <2>6, <3>1, <3>3, <3>4 DEF OrderAt, Draining
  <2> QED BY <2>7, <2>8
<1>9. CASE HandlerThrows
  BY <1>3, <1>9, ThrowStack DEF HandlerThrows
<1> QED BY <1>4, <1>5, <1>6, <1>7, <1>8, <1>9 DEF Run, ReturnOf

-----------------------------------------------------------------------------
(* No message waits without a frame that will see to it. *)

\* Only frames come and go: whatever cared leaves a frame that does.
LEMMA CareKept ==
  ASSUME AllCaredFor, UNCHANGED <<log, joined, subs, cursor>>,
         \A g \in Groups, p \in Partitions :
           p \in aborted[g] \/ (\E f \in FramesOf(stack) : Cares(f, g, p))
             => \/ Unowned(g, p) \/ cursor[g][p] = log[p] \/ p \in aborted'[g]
                \/ \E e \in FramesOf(stack') : Cares(e, g, p)
  PROVE  AllCaredFor'
<1> SUFFICES ASSUME NEW g \in Groups, NEW p \in Partitions PROVE CaredFor(g, p)'
  BY DEF AllCaredFor
<1>1. CaredFor(g, p)
  BY DEF AllCaredFor
<1>2. /\ Unowned(g, p)' <=> Unowned(g, p)
      /\ cursor'[g][p] = cursor[g][p] /\ log'[p] = log[p]
  BY DEF Unowned, Members
<1>3. \A e : Cares(e, g, p)' <=> Cares(e, g, p)
  BY DEF Cares
<1>4. \/ Unowned(g, p) \/ cursor[g][p] = log[p] \/ p \in aborted'[g]
      \/ \E e \in FramesOf(stack') : Cares(e, g, p)
  BY <1>1 DEF CaredFor
<1> QED BY <1>2, <1>3, <1>4 DEF CaredFor

LEMMA PublishCares ==
  ASSUME BusTypeOK, OwnersJoined, AllCaredFor, NEW q \in Partitions, Publish(q)
  PROVE  AllCaredFor'
<1>1. PICK f \in Fan : f.part = q /\ f.next = 1 /\ FramesOf(stack') = FramesOf(stack) \cup {f}
  BY PublishStack
<1>2. /\ joined \in Seq(Groups) /\ subs \in [Groups -> Seq(Subscriptions)]
      /\ log \in [Partitions -> 0..MaxOffset]
  BY DEF BusTypeOK
<1>3. UNCHANGED <<joined, subs, cursor, aborted>> /\ log' = [log EXCEPT ![q] = @ + 1]
  BY DEF Publish
<1> SUFFICES ASSUME NEW g \in Groups, NEW p \in Partitions PROVE CaredFor(g, p)'
  BY DEF AllCaredFor
<1>4. CaredFor(g, p)
  BY DEF AllCaredFor
<1>5. (Unowned(g, p)' <=> Unowned(g, p)) /\ \A e : Cares(e, g, p)' <=> Cares(e, g, p)
  BY <1>3 DEF Unowned, Members, Cares
<1>6. CASE p # q
  <2>1. log'[p] = log[p]
    BY <1>2, <1>3, <1>6
  <2> QED BY <1>1, <1>3, <1>4, <1>5, <2>1 DEF CaredFor
<1>7. CASE p = q
  <2>1. CASE Unowned(g, p)
    BY <1>5, <2>1 DEF CaredFor
  <2>2. CASE ~Unowned(g, p)
    <3>1. subs[g] # <<>>
      BY <2>2 DEF Unowned, Members
    <3>2. PICK j \in DOMAIN joined : joined[j] = g
      BY <3>1 DEF OwnersJoined, HasJoined
    <3>3. 1 <= j
      BY <1>2
    <3>4. f.kind = "publish"
      BY <1>1 DEF Fan
    <3>5. Cares(f, g, p)
      BY <1>1, <1>7, <3>2, <3>3, <3>4 DEF Cares
    <3> QED BY <1>1, <1>5, <3>5 DEF CaredFor
  <2> QED BY <2>1, <2>2
<1> QED BY <1>6, <1>7

LEMMA SubscribeCares ==
  ASSUME BusTypeOK, AllCaredFor, NEW h \in Groups, NEW parts \in SUBSET Partitions,
         NEW style \in Modes, NEW replay, Subscribe(h, parts, style, replay)
  PROVE  AllCaredFor'
<1>1. PICK f \in Backlog : f.group = h /\ f.parts = parts /\ FramesOf(stack') = FramesOf(stack) \cup {f}
  BY SubscribeStack DEF Subscribe
<1> DEFINE new == [id |-> nsubs', mode |-> style, parts |-> parts]
<1>2. /\ joined \in Seq(Groups) /\ subs \in [Groups -> Seq(Subscriptions)]
      /\ cursor \in [Groups -> [Partitions -> 0..MaxOffset]]
  BY DEF BusTypeOK
<1>3. /\ log' = log /\ subs' = [subs EXCEPT ![h] = Append(@, new)]
      /\ cursor' = [cursor EXCEPT ![h] =
                      [p \in Partitions |-> IF replay /\ p \in parts THEN 0 ELSE cursor[h][p]]]
      /\ joined' = joined \/ joined' = Append(joined, h)
      /\ aborted' = aborted
  BY DEF Subscribe
<1>4. new.parts = parts /\ new \in Subscriptions
  <2>1. nsubs' \in 1..MaxSubs
    BY BoundsAssumption DEF Subscribe, BusTypeOK
  <2> QED BY <2>1 DEF Subscriptions
<1> HIDE DEF new
<1>5. \A j \in DOMAIN joined : j \in DOMAIN joined' /\ joined'[j] = joined[j]
  <2>1. CASE joined' = joined
    BY <2>1, Zenon
  <2>2. CASE joined' = Append(joined, h)
    BY <1>2, <2>2, Appended, SMTT(30)
  <2> QED BY <1>3, <2>1, <2>2, Zenon
<1> SUFFICES ASSUME NEW g \in Groups, NEW p \in Partitions PROVE CaredFor(g, p)'
  BY DEF AllCaredFor
<1>6. CaredFor(g, p)
  BY DEF AllCaredFor
<1>7. CASE g = h /\ p \in parts
  <2>1. Cares(f, g, p)'
    BY <1>1, <1>7 DEF Cares, Backlog
  <2> QED BY <1>1, <2>1 DEF CaredFor
<1>8. CASE ~(g = h /\ p \in parts)
  <2>1. cursor'[g][p] = cursor[g][p]
    BY <1>2, <1>3, <1>8
  <2>2. Unowned(g, p) => Unowned(g, p)'
    <3>1. \A s \in Members(g)' : s \in Members(g) \/ (g = h /\ s = new)
      <4>1. CASE g = h
        <5>1. subs[g] \in Seq(Subscriptions) /\ subs'[g] = Append(subs[g], new)
          BY <1>2, <1>3, <4>1
        <5>2. \A i \in DOMAIN subs'[g] : (i \in DOMAIN subs[g] /\ subs'[g][i] = subs[g][i]) \/ subs'[g][i] = new
          BY <1>4, <5>1, Appended
        <5>3. \A s \in Members(g)' : s \in Members(g) \/ s = new
          BY <5>2 DEF Members
        <5> QED BY <4>1, <5>3
      <4>2. CASE g # h
        <5>1. subs'[g] = subs[g]
          BY <1>2, <1>3, <4>2
        <5>2. Members(g)' = Members(g)
          BY <5>1 DEF Members
        <5> QED BY <5>2
      <4> QED BY <4>1, <4>2
    <3> QED BY <1>4, <1>8, <3>1 DEF Unowned
  <2>3. \A e : Cares(e, g, p) => Cares(e, g, p)'
    BY <1>5, <2>1 DEF Cares
  <2> QED BY <1>1, <1>3, <1>6, <2>1, <2>2, <2>3 DEF CaredFor
<1> QED BY <1>7, <1>8

LEMMA CloseCares ==
  ASSUME BusTypeOK, AllCaredFor, NEW h \in Groups, NEW i \in DOMAIN subs[h], Close(h, i)
  PROVE  AllCaredFor'
<1>1. /\ UNCHANGED <<log, joined, cursor, stack, aborted>>
      /\ subs' = [subs EXCEPT ![h] = RemoveAt(@, i)] /\ subs \in [Groups -> Seq(Subscriptions)]
  BY DEF Close, BusTypeOK
<1> SUFFICES ASSUME NEW g \in Groups, NEW p \in Partitions PROVE CaredFor(g, p)'
  BY DEF AllCaredFor
<1>2. Members(g)' \subseteq Members(g)
  <2>1. CASE g = h
    <3>1. subs[h] \in Seq(Subscriptions) /\ subs'[h] = RemoveAt(subs[h], i)
      BY <1>1
    <3> DEFINE r == RemoveAt(subs[h], i)
    <3>2. \A k \in DOMAIN r : \E j \in DOMAIN subs[h] : r[k] = subs[h][j]
      BY <3>1, RemovedKeeps
    <3> HIDE DEF r
    <3> QED BY <2>1, <3>1, <3>2 DEF Members, r
  <2>2. CASE g # h
    BY <1>1, <2>2 DEF Members
  <2> QED BY <2>1, <2>2
<1>3. Unowned(g, p) => Unowned(g, p)'
  BY <1>2 DEF Unowned
<1>4. \A e : Cares(e, g, p) => Cares(e, g, p)'
  BY <1>1 DEF Cares
<1> QED BY <1>1, <1>3, <1>4 DEF AllCaredFor, CaredFor

LEMMA CareCall ==
  ASSUME BusTypeOK, OwnersJoined, AllCaredFor, Call
  PROVE  AllCaredFor'
<1>1. ASSUME NEW g \in Groups, NEW d \in inFlight[g], Ack(g, d.msg)
      PROVE  AllCaredFor'
  <2>1. UNCHANGED <<log, joined, subs, cursor, stack, aborted>>
    BY <1>1 DEF Ack
  <2> QED BY <2>1, CareKept
<1>2. ASSUME NEW g \in Groups, NEW d \in inFlight[g], Nack(g, d)
      PROVE  AllCaredFor'
  <2>1. UNCHANGED <<log, joined, subs, cursor, aborted>>
    BY <1>2 DEF Nack
  <2>2. FramesOf(stack) \subseteq FramesOf(stack')
    BY <1>2, NackStack
  <2> QED BY <2>1, <2>2, CareKept
<1>3. ASSUME Clear
      PROVE  AllCaredFor'
  <2>1. \A g \in Groups, p \in Partitions : cursor'[g][p] = log'[p]
    BY <1>3 DEF Clear
  <2> QED BY <2>1 DEF AllCaredFor, CaredFor
<1> QED BY <1>1, <1>2, <1>3, PublishCares, SubscribeCares, CloseCares DEF Call

\* A frame that may return has seen to everything it cared for.
LEMMA NothingLeft ==
  ASSUME BusTypeOK, Ordered, ReturnOf, NEW g \in Groups, NEW p \in Partitions, Cares(Top, g, p)
  PROVE  cursor[g][p] = log[p]
<1>1. ~Idle
  BY DEF ReturnOf, PublishReturns, DeliverNewReturns, SubscribeReturns, HandlerReturns, On
<1>2. joined \in Seq(Groups) /\ log[p] \in Nat /\ cursor[g][p] \in Nat
  BY BoundsAssumption DEF BusTypeOK
<1>3. Top \in Frame
  BY <1>1, AtTop
<1>4. CASE PublishReturns
  <2>1. Top.kind = "publish" /\ Top.next > Len(joined) /\ Top \in Fan
    BY <1>3, <1>4, Kinds DEF PublishReturns, On
  <2>2. PICK j \in DOMAIN joined : Top.next <= j
    BY <2>1 DEF Cares
  <2>3. Top.next \in Nat
    BY <2>1 DEF Fan
  <2> QED BY <1>2, <2>1, <2>2, <2>3
<1>5. CASE DeliverNewReturns
  <2>1. Top.kind = "deliverNew" /\ Top.at >= log[p] /\ Top.at = cursor[g][p]
    BY <1>5 DEF DeliverNewReturns, On, Cares
  <2>2. cursor[g][p] <= log[p]
    <3>1. PICK n \in cursor[g][p]..log[p] : TRUE
      BY DEF Ordered, OrderAt
    <3> QED BY <1>2, <3>1
  <2> QED BY <1>2, <2>1, <2>2
<1>6. CASE SubscribeReturns
  BY <1>6 DEF SubscribeReturns, On, Cares
<1>7. CASE HandlerReturns
  BY <1>7 DEF HandlerReturns, On, Cares
<1> QED BY <1>4, <1>5, <1>6, <1>7 DEF ReturnOf

LEMMA CareRun ==
  ASSUME BusTypeOK, Ordered, AllCaredFor, Run
  PROVE  AllCaredFor'
<1>1. ~Idle => Top \in Frame /\ FramesOf(stack) = FramesOf(Rest) \cup {Top}
  BY AtTop
<1>2. ASSUME UNCHANGED <<log, joined, subs, cursor>>, ~Idle, FramesOf(Rest) \subseteq FramesOf(stack'),
             \A g \in Groups, p \in Partitions :
               p \in aborted[g] \/ Cares(Top, g, p)
                 => \/ Unowned(g, p) \/ cursor[g][p] = log[p] \/ p \in aborted'[g]
                    \/ \E e \in FramesOf(stack') : Cares(e, g, p)
      PROVE  AllCaredFor'
  BY <1>1, <1>2, CareKept
<1>3. CASE FanOut
  <2>1. ~Idle /\ UNCHANGED <<log, joined, subs, cursor>>
    BY <1>3 DEF FanOut, On
  <2>2. Top \in Fan /\ Top.next \in DOMAIN joined /\ joined \in Seq(Groups)
    BY <1>3, FanOutStack DEF BusTypeOK
  <2>3. PICK f \in Fan :
          /\ f.part = Top.part /\ f.next = Top.next + 1
          /\ \/ /\ Unowned(joined[Top.next], Top.part) /\ aborted' = aborted
                /\ FramesOf(stack') = FramesOf(Rest) \cup {f}
             \/ /\ Begins(joined[Top.next], Top.part)
                /\ \E d \in Drain :
                     /\ d.group = joined[Top.next] /\ d.part = Top.part
                     /\ d.at = cursor[joined[Top.next]][Top.part]
                     /\ FramesOf(stack') = FramesOf(Rest) \cup {f, d}
    BY <1>3, FanOutStack
  <2>4. ASSUME NEW g \in Groups, NEW p \in Partitions, Cares(Top, g, p)
        PROVE  Unowned(g, p) \/ \E e \in FramesOf(stack') : Cares(e, g, p)
    <3>1. PICK j \in DOMAIN joined : Top.part = p /\ joined[j] = g /\ Top.next <= j
      BY <2>2, <2>4 DEF Cares, Fan
    <3>2. CASE j = Top.next
      BY <2>3, <3>1, <3>2 DEF Cares, Drain
    <3>3. CASE j # Top.next
      <4>1. f.next <= j
        BY <2>2, <2>3, <3>1, <3>3
      <4>2. Cares(f, g, p)
        BY <2>3, <3>1, <4>1 DEF Cares, Fan
      <4> QED BY <2>3, <4>2
    <3> QED BY <3>2, <3>3
  <2>5. FramesOf(Rest) \subseteq FramesOf(stack')
    BY <2>3
  <2>6. ASSUME NEW g \in Groups, NEW p \in Partitions, p \in aborted[g]
        PROVE  p \in aborted'[g] \/ \E e \in FramesOf(stack') : Cares(e, g, p)
    <3>1. CASE aborted' = aborted
      BY <2>6, <3>1
    <3>2. CASE g = joined[Top.next] /\ p = Top.part /\ aborted' # aborted
      BY <2>3, <3>2 DEF Cares, Drain
    <3>3. CASE ~(g = joined[Top.next] /\ p = Top.part) /\ aborted' # aborted
      BY <2>3, <2>6, <3>3 DEF Begins, BusTypeOK
    <3> QED BY <3>1, <3>2, <3>3
  <2> QED BY <1>2, <2>1, <2>4, <2>5, <2>6
<1>4. CASE HandOver
  <2>1. ~Idle /\ UNCHANGED <<log, joined, subs, cursor>>
    BY <1>4 DEF HandOver, On
  <2>2. Top \in Backlog
    BY <1>4, HandOverStack
  <2>3. PICK q \in Top.parts, f \in Backlog :
          /\ f.group = Top.group /\ f.parts = Top.parts \ {q}
          /\ \/ /\ Unowned(Top.group, q) /\ aborted' = aborted
                /\ FramesOf(stack') = FramesOf(Rest) \cup {f}
             \/ /\ Begins(Top.group, q)
                /\ \E d \in Drain :
                     /\ d.group = Top.group /\ d.part = q /\ d.at = cursor[Top.group][q]
                     /\ FramesOf(stack') = FramesOf(Rest) \cup {f, d}
    BY <1>4, HandOverStack
  <2>4. ASSUME NEW g \in Groups, NEW p \in Partitions, Cares(Top, g, p)
        PROVE  Unowned(g, p) \/ \E e \in FramesOf(stack') : Cares(e, g, p)
    <3>1. Top.group = g /\ p \in Top.parts
      BY <2>2, <2>4 DEF Cares, Backlog
    <3>2. CASE p = q
      BY <2>3, <3>1, <3>2 DEF Cares, Drain
    <3>3. CASE p # q
      <4>1. Cares(f, g, p)
        BY <2>3, <3>1, <3>3 DEF Cares, Backlog
      <4> QED BY <2>3, <4>1
    <3> QED BY <3>2, <3>3
  <2>5. FramesOf(Rest) \subseteq FramesOf(stack')
    BY <2>3
  <2>6. ASSUME NEW g \in Groups, NEW p \in Partitions, p \in aborted[g]
        PROVE  p \in aborted'[g] \/ \E e \in FramesOf(stack') : Cares(e, g, p)
    <3>1. CASE aborted' = aborted
      BY <2>6, <3>1
    <3>2. CASE g = Top.group /\ p = q /\ aborted' # aborted
      BY <2>3, <3>2 DEF Cares, Drain
    <3>3. CASE ~(g = Top.group /\ p = q) /\ aborted' # aborted
      BY <2>3, <2>6, <3>3 DEF Begins, BusTypeOK
    <3> QED BY <3>1, <3>2, <3>3
  <2> QED BY <1>2, <2>1, <2>4, <2>5, <2>6
<1>5. CASE ReturnOf
  <2>1. UNCHANGED <<log, joined, subs, cursor, aborted>>
    BY <1>5 DEF ReturnOf, PublishReturns, DeliverNewReturns, SubscribeReturns, HandlerReturns
  <2> QED BY <1>2, <1>5, <2>1, ReturnStack, NothingLeft
<1>6. CASE Consume
  <2>1. ~Idle /\ UNCHANGED <<log, joined, subs, cursor, aborted>>
    BY <1>6 DEF Consume, On
  <2>2. Top \in Handler /\ FramesOf(Rest) \subseteq FramesOf(stack')
    BY <1>6, ConsumeStack
  <2>3. \A g \in Groups, p \in Partitions : ~Cares(Top, g, p)
    BY <2>2 DEF Cares, Handler
  <2> QED BY <1>2, <2>1, <2>2, <2>3
<1>7. CASE Deliver
  <2> DEFINE h == Top.group
             q == Top.part
  <2>1. Top \in Drain /\ ~Idle
    BY <1>7, DeliverStack DEF Deliver, On
  <2>2. PICK f \in Drain :
          /\ f.group = h /\ f.part = q /\ f.at = Top.at + 1
          /\ FramesOf(Rest) \cup {f} \subseteq FramesOf(stack')
    BY <1>7, DeliverStack
  <2>3. /\ UNCHANGED <<log, joined, subs, aborted>> /\ cursor' = [cursor EXCEPT ![h][q] = Top.at + 1]
        /\ cursor \in [Groups -> [Partitions -> 0..MaxOffset]] /\ h \in Groups /\ q \in Partitions
    BY <1>7, <2>1 DEF Deliver, BusTypeOK, Drain
  <2> SUFFICES ASSUME NEW g \in Groups, NEW p \in Partitions PROVE CaredFor(g, p)'
    BY DEF AllCaredFor
  <2>4. CASE g = h /\ p = q
    <3>1. cursor'[g][p] = Top.at + 1
      BY <2>3, <2>4
    <3>2. Cares(f, g, p)'
      BY <2>2, <2>4, <3>1 DEF Cares, Drain
    <3> QED BY <2>2, <3>2 DEF CaredFor
  <2>5. CASE ~(g = h /\ p = q)
    <3>1. cursor'[g][p] = cursor[g][p]
      BY <2>3, <2>5
    <3>2. Unowned(g, p)' <=> Unowned(g, p)
      BY <2>3 DEF Unowned, Members
    <3>3. \A e : Cares(e, g, p)' <=> Cares(e, g, p)
      BY <2>3, <3>1 DEF Cares
    <3>4. ~Cares(Top, g, p)
      BY <2>1, <2>5 DEF Cares, Drain
    <3>5. CaredFor(g, p)
      BY DEF AllCaredFor
    <3>6. \/ Unowned(g, p) \/ cursor[g][p] = log[p] \/ p \in aborted[g]
          \/ \E e \in FramesOf(Rest) : Cares(e, g, p)
      BY <1>1, <2>1, <3>4, <3>5 DEF CaredFor
    <3> QED BY <2>2, <2>3, <3>1, <3>2, <3>3, <3>6 DEF CaredFor
  <2> QED BY <2>4, <2>5
<1>8. CASE HandlerThrows
  <2>1. UNCHANGED <<log, joined, subs, cursor>>
    BY <1>8 DEF HandlerThrows
  <2>2. \A g \in Groups, p \in Partitions, f \in FramesOf(stack) :
          Cares(f, g, p) => f \in FramesOf(stack') \/ p \in aborted'[g]
    BY <1>8, ThrowStack DEF Cares, HandsOver
  <2>3. \A g \in Groups : aborted[g] \subseteq aborted'[g]
    BY <1>8, ThrowStack
  <2> QED BY <2>1, <2>2, <2>3, CareKept
<1> QED BY <1>3, <1>4, <1>5, <1>6, <1>7, <1>8 DEF Run, ReturnOf

-----------------------------------------------------------------------------
(* The theorems. *)

LEMMA IInvInit == BusInit => IInv
<1> SUFFICES ASSUME BusInit PROVE IInv
  OBVIOUS
<1>1. BusTypeOK
  <2>1. stack \in Seq(Frame) /\ joined \in Seq(Groups) /\ <<>> \in Seq(Subscriptions)
    BY DEF BusInit
  <2>2. TypedRest /\ InFlightOK(inFlight) /\ History
    BY <2>1, BoundsAssumption DEF BusInit, TypedRest, InFlightOK, History
  <2> QED BY <2>1, <2>2, TypesAre, BoundsAssumption DEF BusInit, Typed
<1>2. NothingLost /\ OwnersJoined
  BY DEF BusInit, NothingLost, OwnersJoined
<1>3. ASSUME NEW g \in Groups, NEW p \in Partitions
      PROVE  OrderAt(g, p) /\ CaredFor(g, p)
  <2>1. FramesOf(stack) = {} /\ cursor[g][p] = 0 /\ log[p] = 0 /\ seen[g] = {}
    BY DEF BusInit, FramesOf
  <2>2. Given(g, p, 0)
    BY <2>1 DEF Given
  <2> QED BY <2>1, <2>2 DEF OrderAt, CaredFor
<1> QED BY <1>1, <1>2, <1>3 DEF IInv, Ordered, AllCaredFor

LEMMA IInvStep == IInv /\ [BusNext]_busVars => IInv'
<1> SUFFICES ASSUME IInv, [BusNext]_busVars PROVE IInv'
  OBVIOUS
<1> USE DEF IInv
<1>1. CASE Call
  <2>1. BusTypeOK'
    BY <1>1, TypesCall
  <2> QED BY <1>1, <2>1, LostCall, OwnersStep, OrderCall, CareCall DEF BusNext
<1>2. CASE Run
  <2>1. BusTypeOK'
    BY <1>2, TypesRun
  <2> QED BY <1>2, <2>1, LostRun, OwnersStep, OrderRun, CareRun DEF BusNext
<1>3. CASE UNCHANGED busVars
  <2>1. BusTypeOK'
    BY <1>3 DEF busVars, BusTypeOK
  <2>2. NothingLost' /\ OwnersJoined'
    BY <1>3 DEF busVars, NothingLost, OwnersJoined, HasJoined
  <2>3. Ordered'
    BY <1>3 DEF busVars, Ordered, OrderAt, Given, Draining
  <2>4. AllCaredFor'
    BY <1>3, CareKept DEF busVars
  <2> QED BY <2>1, <2>2, <2>3, <2>4
<1> QED BY <1>1, <1>2, <1>3 DEF BusNext

LEMMA IInvSound == IInv => BusIsSound
<1> SUFFICES ASSUME IInv PROVE BusIsSound
  OBVIOUS
<1> USE DEF IInv
<1>1. InOrder
  BY DEF InOrder, Ordered, OrderAt, Given
<1>2. ASSUME Idle, NEW i \in DOMAIN joined, NEW p \in Partitions
      PROVE  \/ Unowned(joined[i], p) \/ cursor[joined[i]][p] = log[p]
             \/ p \in aborted[joined[i]]
  <2>1. FramesOf(stack) = {}
    BY <1>2 DEF Idle, FramesOf
  <2>2. joined[i] \in Groups
    BY DEF BusTypeOK
  <2> QED BY <2>1, <2>2 DEF AllCaredFor, CaredFor
<1> QED BY <1>1, <1>2 DEF BusIsSound, NoStall

LEMMA IInvAlways == BusSpec => []IInv
BY IInvInit, IInvStep, PTL DEF BusSpec

\* The queue keeps its shape at any depth of nested calls: every frame of the
\* stack, every subscription and every delivery is one the code can build, no
\* cursor passes the bound on the log, and no message is in flight twice.
THEOREM BusTypes == BusSpec => []BusTypeOK
<1>1. IInv => BusTypeOK
  BY DEF IInv
<1> QED BY <1>1, IInvAlways, PTL

\* For any groups, partitions and subscriptions, and whatever the handlers call:
\* what a group was given is in flight, acked or nacked with no owner; it is a
\* prefix of the log the cursor stays within; and once the outermost call has
\* ended, a message waits for a group with a subscription that takes it only when a
\* handler threw and its exception cut off the hand-over of that partition.
THEOREM BusSound == BusSpec => []BusIsSound
BY IInvSound, IInvAlways, PTL

-----------------------------------------------------------------------------
(* The sovereign layer. *)

\* What the ledger tells of a directive: one record of an event there was, none of
\* one there was not.
Told(what, n, happened) ==
  IF happened THEN \E k \in DOMAIN ledger : About(what, n) = {k} ELSE About(what, n) = {}
DirectiveTold(n) ==
  LET d == directives[n] IN
  /\ Told("critical", n, d.critical) /\ Told("anomalous", n, d.anomalous)
  /\ Told("countermand", n, d.countermandedBy # Nobody)
  /\ \A k \in About("critical", n) \cup About("anomalous", n) :
       ledger[k].actor = d.issuedBy /\ IsActingAt(d.issuedBy, k)
  /\ \A k \in About("countermand", n) : ledger[k].actor = d.countermandedBy /\ ledger[k].actor \in FormersAt(k)
OfDirectives == {"critical", "anomalous", "countermand"}

SovereignInv ==
  /\ SovereignTypeOK
  /\ IsActingAt(acting, Len(ledger) + 1) /\ formers = FormersAt(Len(ledger) + 1)
  /\ \A n \in DOMAIN directives : DirectiveTold(n)
  /\ \A k \in DOMAIN ledger : ledger[k].what \in OfDirectives => ledger[k].n \in DOMAIN directives
  /\ OverridesWereLive

-----------------------------------------------------------------------------
(* What records that are appended to the ledger leave as it was.           *)

LedgerHas(s) == ledger \in Seq(LedgerRecords) /\ s \in Seq(LedgerRecords) /\ ledger' = ledger \o s

LEMMA LedgerGrows ==
  ASSUME NEW s, LedgerHas(s)
  PROVE  /\ ledger' \in Seq(LedgerRecords) /\ Len(ledger') = Len(ledger) + Len(s)
         /\ Len(ledger) \in Nat /\ Len(s) \in Nat
         /\ DOMAIN ledger = 1..Len(ledger) /\ DOMAIN s = 1..Len(s)
         /\ DOMAIN ledger' = 1..(Len(ledger) + Len(s))
         /\ \A k \in DOMAIN ledger : ledger'[k] = ledger[k]
         /\ \A j \in DOMAIN s : ledger'[Len(ledger) + j] = s[j]
BY DEF LedgerHas

\* Who acted and who were Former Primes, up to the first record of a succession.
LEMMA PastStays ==
  ASSUME NEW s, LedgerHas(s), NEW k \in 1..(Len(ledger) + 1)
  PROVE  /\ Successions(k)' = Successions(k) /\ FormersAt(k)' = FormersAt(k)
         /\ \A p : IsActingAt(p, k)' <=> IsActingAt(p, k)
<1>1. Successions(k)' = Successions(k) /\ \A j \in Successions(k) : ledger'[j] = ledger[j]
  BY LedgerGrows DEF Successions
<1>2. FormersAt(k)' = FormersAt(k)
  BY <1>1 DEF FormersAt
<1>3. \A p : IsActingAt(p, k)' <=> IsActingAt(p, k)
  BY <1>1 DEF IsActingAt
<1> QED BY <1>1, <1>2, <1>3

LEMMA NoSuccession ==
  ASSUME NEW s, LedgerHas(s), \A j \in DOMAIN s : s[j].what # "succession",
         NEW k \in (Len(ledger) + 1)..(Len(ledger) + Len(s) + 1)
  PROVE  /\ FormersAt(k)' = FormersAt(Len(ledger) + 1)
         /\ \A p : IsActingAt(p, k)' <=> IsActingAt(p, Len(ledger) + 1)
<1>1. ASSUME NEW j \in 1..(k - 1), j \notin DOMAIN ledger
      PROVE  ledger'[j].what # "succession"
  <2>1. j - Len(ledger) \in DOMAIN s
    BY <1>1, LedgerGrows
  <2>2. ledger'[Len(ledger) + (j - Len(ledger))] = s[j - Len(ledger)]
    BY <2>1, LedgerGrows
  <2>3. Len(ledger) + (j - Len(ledger)) = j
    BY <1>1, LedgerGrows
  <2> QED BY <2>1, <2>2, <2>3
<1>2. Successions(k)' = {j \in 1..(k - 1) : ledger'[j].what = "succession"}
  BY DEF Successions
<1>3. /\ Successions(k)' = Successions(Len(ledger) + 1)
      /\ \A j \in Successions(Len(ledger) + 1) : ledger'[j] = ledger[j]
  BY <1>1, <1>2, LedgerGrows DEF Successions
<1>4. FormersAt(k)' = FormersAt(Len(ledger) + 1)
  BY <1>3 DEF FormersAt
<1>5. \A p : IsActingAt(p, k)' <=> IsActingAt(p, Len(ledger) + 1)
  BY <1>3 DEF IsActingAt
<1> QED BY <1>4, <1>5

\* What the ledger says about a directive's event grows by the records that say it.
LEMMA AboutGrows ==
  ASSUME NEW s, LedgerHas(s), NEW what, NEW n
  PROVE  /\ About(what, n) \subseteq About(what, n)' /\ About(what, n) \subseteq DOMAIN ledger
         /\ \A k \in About(what, n)' \ About(what, n) :
              \E j \in DOMAIN s : k = Len(ledger) + j /\ s[j].what = what /\ s[j].n = n
         /\ \A j \in DOMAIN s :
              s[j].what = what /\ s[j].n = n => Len(ledger) + j \in About(what, n)' \ About(what, n)
<1>1. About(what, n) \subseteq About(what, n)' /\ About(what, n) \subseteq DOMAIN ledger
  BY LedgerGrows DEF About
<1>2. ASSUME NEW k \in About(what, n)' \ About(what, n)
      PROVE  \E j \in DOMAIN s : k = Len(ledger) + j /\ s[j].what = what /\ s[j].n = n
  <2>1. k \in DOMAIN ledger' /\ ledger'[k].what = what /\ ledger'[k].n = n
    BY <1>2 DEF About
  <2>2. k \notin DOMAIN ledger
    BY <1>2, <2>1, LedgerGrows DEF About
  <2>3. PICK j \in DOMAIN s : k = Len(ledger) + j
    <3>1. k - Len(ledger) \in DOMAIN s /\ k = Len(ledger) + (k - Len(ledger))
      BY <2>1, <2>2, LedgerGrows
    <3> QED BY <3>1
  <2>4. s[j] = ledger'[k]
    BY <2>3, LedgerGrows
  <2> QED BY <2>1, <2>3, <2>4
<1>3. ASSUME NEW j \in DOMAIN s, s[j].what = what, s[j].n = n
      PROVE  Len(ledger) + j \in About(what, n)' \ About(what, n)
  <2>1. Len(ledger) + j \in DOMAIN ledger' /\ Len(ledger) + j \notin DOMAIN ledger
    BY LedgerGrows
  <2>2. ledger'[Len(ledger) + j] = s[j]
    BY LedgerGrows
  <2> QED BY <1>1, <1>3, <2>1, <2>2 DEF About
<1> QED BY <1>1, <1>2, <1>3

\* A directive that no new record is about.
LEMMA StaysTold ==
  ASSUME NEW s, LedgerHas(s), NEW n, DirectiveTold(n), directives'[n] = directives[n],
         \A j \in DOMAIN s : s[j].what \in OfDirectives => s[j].n # n
  PROVE  DirectiveTold(n)'
<1>1. ASSUME NEW what \in OfDirectives
      PROVE  About(what, n)' = About(what, n)
  <2>1. About(what, n) \subseteq About(what, n)'
    BY AboutGrows
  <2>2. \A k \in About(what, n)' \ About(what, n) : \E j \in DOMAIN s : s[j].what = what /\ s[j].n = n
    BY AboutGrows
  <2>3. About(what, n)' \ About(what, n) = {}
    BY <2>2
  <2> QED BY <2>1, <2>3
<1>2. \A what \in OfDirectives : \A happened : Told(what, n, happened) => Told(what, n, happened)'
  BY <1>1, LedgerGrows DEF Told
<1>3. \A what \in OfDirectives : \A k \in About(what, n) :
        /\ ledger'[k] = ledger[k] /\ FormersAt(k)' = FormersAt(k)
        /\ \A p : IsActingAt(p, k)' <=> IsActingAt(p, k)
  <2> TAKE what \in OfDirectives
  <2> TAKE k \in About(what, n)
  <2>1. k \in DOMAIN ledger /\ k \in 1..(Len(ledger) + 1)
    BY AboutGrows, LedgerGrows
  <2> QED BY <2>1, PastStays, LedgerGrows
<1>4. PICK d : d = directives[n] /\ d = directives'[n]
  OBVIOUS
<1>5. /\ Told("critical", n, d.critical)' /\ Told("anomalous", n, d.anomalous)'
      /\ Told("countermand", n, d.countermandedBy # Nobody)'
  BY <1>2, <1>4 DEF DirectiveTold, OfDirectives
<1>6. \A k \in About("critical", n)' \cup About("anomalous", n)' :
        ledger'[k].actor = d.issuedBy /\ IsActingAt(d.issuedBy, k)'
  BY <1>1, <1>3, <1>4 DEF DirectiveTold, OfDirectives
<1>7. \A k \in About("countermand", n)' :
        ledger'[k].actor = d.countermandedBy /\ ledger'[k].actor \in FormersAt(k)'
  BY <1>1, <1>3, <1>4 DEF DirectiveTold, OfDirectives
<1> QED BY <1>4, <1>5, <1>6, <1>7 DEF DirectiveTold

LEMMA SovereignInitial == SovereignInit => SovereignInv
<1> SUFFICES ASSUME SovereignInit  PROVE  SovereignInv
  OBVIOUS
<1>1. ledger = <<>> /\ directives = <<>> /\ Len(ledger) = 0 /\ DOMAIN ledger = {} /\ DOMAIN directives = {}
  BY DEF SovereignInit
<1>2. SovereignTypeOK
  BY <1>1, PrimesAssumption DEF SovereignInit, SovereignTypeOK, Identity, Roles
<1>3. Successions(Len(ledger) + 1) = {}
  BY <1>1 DEF Successions
<1>4. IsActingAt(acting, Len(ledger) + 1)
  BY <1>3 DEF IsActingAt, SovereignInit
<1>5. formers = FormersAt(Len(ledger) + 1)
  BY <1>3 DEF FormersAt, SovereignInit
<1>6. OverridesWereLive
  BY <1>1 DEF OverridesWereLive
<1> QED BY <1>1, <1>2, <1>4, <1>5, <1>6 DEF SovereignInv

\* What a step owes when it appends s: the sovereigns and the roles claimed as the new
\* records tell them, and each directive told.
LEMMA LedgerKept ==
  ASSUME SovereignInv, NEW s \in Seq(LedgerRecords), ledger' = ledger \o s, NEW size, size = Len(ledger), SovereignTypeOK',
         IsActingAt(acting, Len(ledger) + 1)', formers' = FormersAt(Len(ledger) + 1)',
         \A n \in DOMAIN directives' : DirectiveTold(n)', DOMAIN directives \subseteq DOMAIN directives',
         UNCHANGED registry,
         \A j \in DOMAIN s :
           /\ s[j].what \in OfDirectives => s[j].n \in DOMAIN directives'
           /\ registry /\ s[j].role = "ACTING_PRIME" => IsActingAt(s[j].actor, size + j)'
           /\ registry /\ s[j].role = "FORMER_PRIME" => s[j].actor \in FormersAt(size + j)'
  PROVE  SovereignInv'
<1>1. LedgerHas(s)
  BY DEF LedgerHas, SovereignInv, SovereignTypeOK
<1>2. ASSUME NEW k \in DOMAIN ledger'
      PROVE  k \in DOMAIN ledger \/ \E j \in DOMAIN s : k = size + j /\ ledger'[k] = s[j]
  <2>1. CASE k \in DOMAIN ledger
    BY <2>1
  <2>2. CASE k \notin DOMAIN ledger
    <3>1. k - size \in DOMAIN s /\ k = size + (k - size) /\ size = Len(ledger)
      BY <1>1, <1>2, <2>2, LedgerGrows
    <3>2. ledger'[size + (k - size)] = s[k - size]
      BY <1>1, <3>1, LedgerGrows
    <3> QED BY <3>1, <3>2
  <2> QED BY <2>1, <2>2
<1>3. ASSUME NEW k \in DOMAIN ledger
      PROVE  /\ ledger'[k] = ledger[k] /\ FormersAt(k)' = FormersAt(k)
             /\ \A p : IsActingAt(p, k)' <=> IsActingAt(p, k)
  <2>1. k \in 1..(Len(ledger) + 1)
    BY <1>1, LedgerGrows
  <2> QED BY <1>1, <2>1, PastStays, LedgerGrows
<1>4. \A k \in DOMAIN ledger' : ledger'[k].what \in OfDirectives => ledger'[k].n \in DOMAIN directives'
  BY <1>2, <1>3 DEF SovereignInv
<1>5. ASSUME registry, NEW k \in DOMAIN ledger'
      PROVE  /\ ledger'[k].role = "ACTING_PRIME" => IsActingAt(ledger[k].actor, k)'
             /\ ledger'[k].role = "FORMER_PRIME" => ledger'[k].actor \in FormersAt(k)'
  <2>1. CASE k \in DOMAIN ledger
    BY <1>3, <1>5, <2>1 DEF SovereignInv, OverridesWereLive
  <2>2. ASSUME NEW j \in DOMAIN s, k = size + j, ledger'[k] = s[j]
        PROVE  /\ ledger'[k].role = "ACTING_PRIME" => IsActingAt(ledger[k].actor, k)'
               /\ ledger'[k].role = "FORMER_PRIME" => ledger'[k].actor \in FormersAt(k)'
    BY <1>5, <2>2
  <2> QED BY <1>2, <2>1, <2>2
<1>6. OverridesWereLive'
  BY <1>5 DEF OverridesWereLive
<1> QED BY <1>4, <1>6 DEF SovereignInv

LEMMA OneRecord ==
  ASSUME NEW r \in LedgerRecords
  PROVE  <<r>> \in Seq(LedgerRecords) /\ DOMAIN <<r>> = {1} /\ Len(<<r>>) = 1 /\ <<r>>[1] = r
OBVIOUS

\* Overrides and the mesh's own flag.
LEMMA OverrideStep ==
  ASSUME SovereignInv, NEW i \in identities, NEW to \in {"open", "frozen"}, Override(i, to)
  PROVE  SovereignInv'
<1>1. i.id \in Primes /\ i.role \in Roles
  BY DEF SovereignInv, SovereignTypeOK
<1>2. PICK r \in LedgerRecords : r = Record(to, i.id, 0, Nobody, i.role)
  BY <1>1 DEF Record, LedgerRecords
<1> DEFINE s == <<r>>
<1>3. /\ s \in Seq(LedgerRecords) /\ DOMAIN s = {1} /\ Len(s) = 1
      /\ s[1].what = to /\ s[1].actor = i.id /\ s[1].role = i.role /\ ledger' = ledger \o s
      /\ UNCHANGED <<acting, formers, directives, registry, identities>>
  BY <1>2, OneRecord DEF Record, Override, Records
<1> HIDE DEF s
<1>4. LedgerHas(s) /\ \A j \in DOMAIN s : s[j].what # "succession" /\ s[j].what \notin OfDirectives
  BY <1>3 DEF LedgerHas, SovereignInv, SovereignTypeOK, OfDirectives
<1>5. SovereignTypeOK'
  BY <1>3, <1>4, LedgerGrows DEF SovereignInv, SovereignTypeOK, Override
<1>6. PICK size : size = Len(ledger)
  OBVIOUS
<1>7. Len(ledger') = size + 1 /\ size \in Nat
  BY <1>3, <1>4, <1>6, LedgerGrows
<1>8. \A k \in {size + 1, size + 2} :
        /\ FormersAt(k)' = formers /\ \A p : IsActingAt(p, k)' <=> IsActingAt(p, Len(ledger) + 1)
  <2> TAKE k \in {size + 1, size + 2}
  <2>1. k \in (Len(ledger) + 1)..(Len(ledger) + Len(s) + 1)
    BY <1>3, <1>6, <1>7
  <2> QED BY <1>4, <2>1, NoSuccession DEF SovereignInv
<1>9. IsActingAt(acting, Len(ledger) + 1)' /\ formers' = FormersAt(Len(ledger) + 1)'
  <2>1. Len(ledger') + 1 = size + 2
    BY <1>7
  <2>2. IsActingAt(acting, Len(ledger) + 1)
    BY DEF SovereignInv
  <2>3. PICK p : p = acting
    OBVIOUS
  <2>4. IsActingAt(p, size + 2)' /\ FormersAt(size + 2)' = formers
    BY <1>8, <2>2, <2>3
  <2> QED BY <1>3, <2>1, <2>3, <2>4
<1>10. \A n \in DOMAIN directives' : DirectiveTold(n)'
  BY <1>3, <1>4, StaysTold DEF SovereignInv
<1>11. registry => /\ s[1].role = "ACTING_PRIME" => IsActingAt(s[1].actor, size + 1)'
                   /\ s[1].role = "FORMER_PRIME" => s[1].actor \in FormersAt(size + 1)'
  BY <1>3, <1>8 DEF Override, Valid, Live, SovereignInv
<1> QED BY <1>3, <1>4, <1>5, <1>6, <1>9, <1>10, <1>11, LedgerKept

LEMMA OnlyTheMesh ==
  ASSUME SovereignInv, mesh' \in {"open", "frozen"},
         UNCHANGED <<acting, formers, directives, ledger, registry, identities>>
  PROVE  SovereignInv'
<1>1. SovereignTypeOK'
  BY DEF SovereignInv, SovereignTypeOK
<1> QED BY <1>1 DEF SovereignInv, DirectiveTold, Told, About, IsActingAt, FormersAt, Successions,
                    OverridesWereLive

LEMMA FlagStep ==
  ASSUME SovereignInv, Trigger \/ \E i \in identities \cup {OldShape} : Unfreeze(i)
  PROVE  SovereignInv'
BY OnlyTheMesh DEF Trigger, Unfreeze

\* A succession: who acts now, and that the one who stepped down is a Former Prime.
LEMMA SuccessionTold ==
  ASSUME NEW s, LedgerHas(s), NEW r, s = <<r>>, r.what = "succession", NEW k, k = Len(ledger) + 2
  PROVE  /\ FormersAt(k)' = FormersAt(Len(ledger) + 1) \cup {r.from}
         /\ IsActingAt(r.actor, k)'
<1>1. Len(s) = 1 /\ DOMAIN s = {1} /\ s[1] = r
  OBVIOUS
<1>2. PICK last \in Nat : last = Len(ledger) + 1 /\ k = last + 1
  BY LedgerGrows
<1>3. ledger'[last] = r
  BY <1>1, <1>2, LedgerGrows
<1>4. Successions(last)' = Successions(last) /\ FormersAt(last)' = FormersAt(last)
  BY <1>2, LedgerGrows, PastStays
<1>5. Successions(k)' = Successions(last)' \cup {last} /\ Successions(last)' \subseteq 1..(last - 1)
  BY <1>2, <1>3 DEF Successions
<1>6. FormersAt(k)' = FormersAt(last)' \cup {r.from}
  BY <1>3, <1>5 DEF FormersAt
<1>7. IsActingAt(r.actor, k)'
  <2>1. \A i \in Successions(k)' : i <= last
    BY <1>2, <1>5
  <2> QED BY <1>3, <1>5, <2>1 DEF IsActingAt
<1> QED BY <1>2, <1>4, <1>6, <1>7

LEMMA SucceedStep ==
  ASSUME SovereignInv, NEW p \in Primes, Succeed(p)
  PROVE  SovereignInv'
<1>1. acting \in Primes /\ formers \subseteq Primes
  BY DEF SovereignInv, SovereignTypeOK
<1>2. PICK r \in LedgerRecords : r = Record("succession", p, 0, acting, "")
  BY <1>1 DEF Record, LedgerRecords
<1> DEFINE s == <<r>>
<1>3. /\ s \in Seq(LedgerRecords) /\ DOMAIN s = {1} /\ Len(s) = 1 /\ s = <<r>>
      /\ s[1] = r /\ r.what = "succession" /\ r.actor = p /\ r.from = acting /\ r.role = ""
      /\ ledger' = ledger \o s
      /\ UNCHANGED <<directives, mesh, registry>>
      /\ formers' = formers \cup {acting} /\ acting' = p
  BY <1>2, OneRecord DEF Record, Succeed, Records
<1> HIDE DEF s
<1>4. LedgerHas(s) /\ \A j \in DOMAIN s : s[j].what \notin OfDirectives /\ s[j].role = ""
  BY <1>3 DEF LedgerHas, SovereignInv, SovereignTypeOK, OfDirectives
<1>5. SovereignTypeOK'
  <2>1. /\ Identity(acting, "FORMER_PRIME") \in [id : Primes, role : Roles]
        /\ Identity(p, "ACTING_PRIME") \in [id : Primes, role : Roles]
    BY <1>1 DEF Identity, Roles
  <2>2. identities' \subseteq [id : Primes, role : Roles]
    BY <2>1 DEF SovereignInv, SovereignTypeOK, Succeed
  <2> QED BY <1>1, <1>3, <1>4, <2>2, LedgerGrows DEF SovereignInv, SovereignTypeOK
<1>6. PICK size \in Nat : size = Len(ledger) /\ Len(ledger') = size + 1
  BY <1>3, <1>4, LedgerGrows
<1>7. FormersAt(size + 2)' = formers \cup {acting} /\ IsActingAt(p, size + 2)'
  BY <1>3, <1>4, <1>6, SuccessionTold DEF SovereignInv
<1>8. IsActingAt(acting, Len(ledger) + 1)' /\ formers' = FormersAt(Len(ledger) + 1)'
  <2>1. Len(ledger') + 1 = size + 2
    BY <1>6
  <2> QED BY <1>3, <1>7, <2>1
<1>9. \A n \in DOMAIN directives' : DirectiveTold(n)'
  BY <1>3, <1>4, StaysTold DEF SovereignInv
<1> QED BY <1>3, <1>4, <1>5, <1>6, <1>8, <1>9, LedgerKept

\* Of an event of a directive: no record more, or the first one.
LEMMA SameAbout ==
  ASSUME NEW s, LedgerHas(s), NEW what, NEW n, \A j \in DOMAIN s : ~(s[j].what = what /\ s[j].n = n)
  PROVE  /\ About(what, n)' = About(what, n)
         /\ \A happened : Told(what, n, happened) => Told(what, n, happened)'
         /\ \A k \in About(what, n) :
              /\ ledger'[k] = ledger[k] /\ FormersAt(k)' = FormersAt(k)
              /\ \A p : IsActingAt(p, k)' <=> IsActingAt(p, k)
<1>1. About(what, n) \subseteq About(what, n)' /\ About(what, n) \subseteq DOMAIN ledger
  BY AboutGrows
<1>2. \A k \in About(what, n)' \ About(what, n) : \E j \in DOMAIN s : s[j].what = what /\ s[j].n = n
  BY AboutGrows
<1>3. About(what, n)' \ About(what, n) = {}
  BY <1>2
<1>4. About(what, n)' = About(what, n)
  BY <1>1, <1>3
<1>5. \A happened : Told(what, n, happened) => Told(what, n, happened)'
  BY <1>4, LedgerGrows DEF Told
<1>6. ASSUME NEW k \in About(what, n)
      PROVE  /\ ledger'[k] = ledger[k] /\ FormersAt(k)' = FormersAt(k)
             /\ \A p : IsActingAt(p, k)' <=> IsActingAt(p, k)
  <2>1. k \in DOMAIN ledger /\ k \in 1..(Len(ledger) + 1)
    BY <1>1, LedgerGrows
  <2> QED BY <2>1, PastStays, LedgerGrows
<1> QED BY <1>4, <1>5, <1>6

LEMMA FirstAbout ==
  ASSUME NEW s, LedgerHas(s), NEW what, NEW n, About(what, n) = {},
         NEW first \in DOMAIN s, s[first].what = what, s[first].n = n,
         \A j \in DOMAIN s : s[j].what = what /\ s[j].n = n => j = first,
         NEW k, k = Len(ledger) + first
  PROVE  About(what, n)' = {k} /\ k \in DOMAIN ledger' /\ ledger'[k] = s[first]
<1>1. k \in About(what, n)' /\ k \in DOMAIN ledger' /\ ledger'[k] = s[first]
  BY AboutGrows, LedgerGrows
<1>2. \A i \in About(what, n)' \ About(what, n) :
        \E j \in DOMAIN s : i = Len(ledger) + j /\ s[j].what = what /\ s[j].n = n
  BY AboutGrows
<1>3. \A i \in About(what, n)' : i = k
  BY <1>2
<1>4. About(what, n)' = {k}
  BY <1>1, <1>3
<1> QED BY <1>1, <1>4

LEMMA CountermandStep ==
  ASSUME SovereignInv, NEW f \in Primes, NEW n \in DOMAIN directives, Countermand(f, n)
  PROVE  SovereignInv'
<1>1. directives[n] \in Directives /\ n \in Nat /\ directives[n].countermandedBy = Nobody /\ f \in formers
  <2>1. directives \in Seq(Directives)
    BY DEF SovereignInv, SovereignTypeOK
  <2>2. directives[n] \in Directives /\ n \in Nat
    BY <2>1
  <2> QED BY <2>2 DEF Countermand, MayCountermand
<1>2. PICK r \in LedgerRecords : r = Record("countermand", f, n, Nobody, "")
  BY <1>1 DEF Record, LedgerRecords
<1> DEFINE s == <<r>>
<1>3. /\ s \in Seq(LedgerRecords) /\ DOMAIN s = {1} /\ Len(s) = 1 /\ s[1] = r
      /\ r.what = "countermand" /\ r.actor = f /\ r.n = n /\ r.role = ""
      /\ ledger' = ledger \o s /\ UNCHANGED <<acting, formers, mesh, registry, identities>>
  BY <1>2, OneRecord DEF Record, Countermand, Records
<1> HIDE DEF s
<1>4. LedgerHas(s) /\ \A j \in DOMAIN s : s[j] = r
  BY <1>3 DEF LedgerHas, SovereignInv, SovereignTypeOK
<1>5. PICK d \in Directives : d = [directives[n] EXCEPT !.countermandedBy = f]
  BY <1>1 DEF Directives
<1>6. /\ directives' = [directives EXCEPT ![n] = d]
      /\ d.critical = directives[n].critical /\ d.anomalous = directives[n].anomalous
      /\ d.issuedBy = directives[n].issuedBy /\ d.countermandedBy = f
  BY <1>1, <1>5 DEF Countermand, Directives
<1>7. /\ directives' \in Seq(Directives) /\ DOMAIN directives' = DOMAIN directives /\ directives'[n] = d
      /\ \A m \in DOMAIN directives : m # n => directives'[m] = directives[m]
  BY <1>6 DEF SovereignInv, SovereignTypeOK
<1>8. SovereignTypeOK'
  BY <1>3, <1>4, <1>7, LedgerGrows DEF SovereignInv, SovereignTypeOK
<1>9. PICK size \in Nat : size = Len(ledger) /\ Len(ledger') = size + 1
  BY <1>3, <1>4, LedgerGrows
<1>10. \A k \in {size + 1, size + 2} :
         /\ FormersAt(k)' = formers /\ \A p : IsActingAt(p, k)' <=> IsActingAt(p, Len(ledger) + 1)
  <2> TAKE k \in {size + 1, size + 2}
  <2>1. k \in (Len(ledger) + 1)..(Len(ledger) + Len(s) + 1)
    <3>1. Len(s) = 1 /\ Len(ledger) = size
      BY <1>3, <1>9
    <3> QED BY <3>1
  <2> QED BY <1>3, <1>4, <2>1, NoSuccession DEF SovereignInv
<1>11. IsActingAt(acting, Len(ledger) + 1)' /\ formers' = FormersAt(Len(ledger) + 1)'
  <2>1. Len(ledger') + 1 = size + 2
    BY <1>9
  <2>2. PICK p : p = acting
    OBVIOUS
  <2>3. IsActingAt(p, size + 2)' /\ FormersAt(size + 2)' = formers
    BY <1>10, <2>2 DEF SovereignInv
  <2> QED BY <1>3, <2>1, <2>2, <2>3
<1>12. ASSUME NEW m \in DOMAIN directives, m # n
       PROVE  DirectiveTold(m)'
  BY <1>3, <1>4, <1>7, <1>12, StaysTold DEF SovereignInv
<1>13. DirectiveTold(n)'
  <2>1. DirectiveTold(n) /\ About("countermand", n) = {}
    BY <1>1 DEF SovereignInv, DirectiveTold, Told
  <2>2. /\ About("countermand", n)' = {size + 1} /\ size + 1 \in DOMAIN ledger'
        /\ ledger'[size + 1] = r
    <3>1. PICK first \in DOMAIN s :
            /\ first = 1 /\ s[first].what = "countermand" /\ s[first].n = n /\ s[first] = r
            /\ \A j \in DOMAIN s : s[j].what = "countermand" /\ s[j].n = n => j = first
      BY <1>3
    <3>2. PICK k : k = size + 1 /\ k = Len(ledger) + first
      BY <1>9, <3>1
    <3>3. About("countermand", n)' = {k} /\ k \in DOMAIN ledger' /\ ledger'[k] = s[first]
      BY <1>4, <2>1, <3>1, <3>2, FirstAbout
    <3> QED BY <3>1, <3>2, <3>3
  <2>3. Told("countermand", n, d.countermandedBy # Nobody)'
    BY <1>6, <2>2, PrimesAssumption DEF Told
  <2>4. \A k \in About("countermand", n)' :
          ledger'[k].actor = d.countermandedBy /\ ledger'[k].actor \in FormersAt(k)'
    <3>1. f \in FormersAt(size + 1)'
      BY <1>1, <1>10
    <3> QED BY <1>3, <1>6, <2>2, <3>1
  <2>5. \A what \in {"critical", "anomalous"} :
          /\ About(what, n)' = About(what, n)
          /\ \A happened : Told(what, n, happened) => Told(what, n, happened)'
          /\ \A k \in About(what, n) :
               /\ ledger'[k] = ledger[k] /\ \A p : IsActingAt(p, k)' <=> IsActingAt(p, k)
    <3> TAKE what \in {"critical", "anomalous"}
    <3>1. \A j \in DOMAIN s : ~(s[j].what = what /\ s[j].n = n)
      BY <1>3
    <3>2. LedgerHas(s)
      BY <1>4
    <3>3. /\ About(what, n)' = About(what, n)
          /\ \A happened : Told(what, n, happened) => Told(what, n, happened)'
          /\ \A k \in About(what, n) :
               /\ ledger'[k] = ledger[k] /\ FormersAt(k)' = FormersAt(k)
               /\ \A p : IsActingAt(p, k)' <=> IsActingAt(p, k)
      BY ONLY <3>1, <3>2, SameAbout
    <3> QED BY ONLY <3>3
  <2>6. Told("critical", n, d.critical)' /\ Told("anomalous", n, d.anomalous)'
    BY <1>6, <2>1, <2>5 DEF DirectiveTold
  <2>7. \A k \in About("critical", n)' \cup About("anomalous", n)' :
          ledger'[k].actor = d.issuedBy /\ IsActingAt(d.issuedBy, k)'
    BY <1>6, <2>1, <2>5 DEF DirectiveTold
  <2> QED BY <1>7, <2>3, <2>4, <2>6, <2>7 DEF DirectiveTold
<1> QED BY <1>3, <1>4, <1>7, <1>8, <1>9, <1>11, <1>12, <1>13, LedgerKept

\* The records of a directive that is issued: one for each flag that it carries.
OneSays(s, what) ==
  \E first \in DOMAIN s : s[first].what = what /\ \A j \in DOMAIN s : s[j].what = what => j = first
NoneSays(s, what) == \A j \in DOMAIN s : s[j].what # what
SayFlags(s, critical, anomalous, n) ==
  /\ s \in Seq(LedgerRecords)
  /\ \A j \in DOMAIN s : /\ s[j].what \in {"critical", "anomalous"} /\ s[j].n = n
                         /\ s[j].actor = acting /\ s[j].role = ""
  /\ critical => OneSays(s, "critical")
  /\ ~critical => NoneSays(s, "critical")
  /\ anomalous => OneSays(s, "anomalous")
  /\ ~anomalous => NoneSays(s, "anomalous")

LEMMA Concatenated ==
  ASSUME NEW a \in Seq(LedgerRecords), NEW b \in Seq(LedgerRecords), NEW s, s = a \o b
  PROVE  /\ s \in Seq(LedgerRecords) /\ Len(s) = Len(a) + Len(b) /\ DOMAIN s = 1..(Len(a) + Len(b))
         /\ \A j \in 1..Len(a) : s[j] = a[j]
         /\ \A j \in 1..Len(b) : s[Len(a) + j] = b[j]
OBVIOUS

LEMMA ConcatEmpty ==
  ASSUME NEW a \in Seq(LedgerRecords)
  PROVE  a \o <<>> = a /\ <<>> \o a = a
OBVIOUS

LEMMA FlagRecords ==
  ASSUME acting \in Primes, NEW critical, NEW anomalous, NEW n \in Nat,
         NEW s, s = Flagged("critical", critical, n) \o Flagged("anomalous", anomalous, n)
  PROVE  SayFlags(s, critical, anomalous, n)
<1>1. PICK x \in LedgerRecords : x = Record("critical", acting, n, Nobody, "")
  BY DEF Record, LedgerRecords
<1>2. PICK y \in LedgerRecords : y = Record("anomalous", acting, n, Nobody, "")
  BY DEF Record, LedgerRecords
<1>3. /\ x.what = "critical" /\ x.n = n /\ x.actor = acting /\ x.role = ""
      /\ y.what = "anomalous" /\ y.n = n /\ y.actor = acting /\ y.role = ""
  BY <1>1, <1>2 DEF Record
<1>4. CASE critical /\ anomalous
  <2>1. s = <<x>> \o <<y>>
    BY <1>1, <1>2, <1>4, Zenon DEF Flagged
  <2>2. s \in Seq(LedgerRecords) /\ DOMAIN s = {1, 2} /\ s[1] = x /\ s[2] = y
    <3>1. PICK a \in Seq(LedgerRecords) : a = <<x>> /\ Len(a) = 1 /\ a[1] = x
      BY OneRecord
    <3>2. PICK b \in Seq(LedgerRecords) : b = <<y>> /\ Len(b) = 1 /\ b[1] = y
      BY OneRecord
    <3>3. s = a \o b
      BY <2>1, <3>1, <3>2
    <3>4. s \in Seq(LedgerRecords) /\ DOMAIN s = 1..(Len(a) + Len(b))
      BY <3>3, Concatenated
    <3>5. s[1] = a[1] /\ s[Len(a) + 1] = b[1]
      <4>1. 1 \in 1..Len(a) /\ 1 \in 1..Len(b)
        BY <3>1, <3>2
      <4>2. (\A j \in 1..Len(a) : s[j] = a[j]) /\ \A j \in 1..Len(b) : s[Len(a) + j] = b[j]
        BY <3>3, Concatenated
      <4> QED BY <4>1, <4>2
    <3>6. DOMAIN s = 1..(1 + 1) /\ s[1] = x /\ s[1 + 1] = y
      BY <3>1, <3>2, <3>4, <3>5
    <3>7. DOMAIN s = {1, 2} /\ s[1] = x /\ s[2] = y
      BY <3>6
    <3> QED BY <3>4, <3>7
  <2>3. OneSays(s, "critical") /\ OneSays(s, "anomalous")
    BY <1>3, <2>2 DEF OneSays
  <2>4. \A j \in DOMAIN s : /\ s[j].what \in {"critical", "anomalous"} /\ s[j].n = n
                            /\ s[j].actor = acting /\ s[j].role = ""
    BY <1>3, <2>2
  <2> QED BY <1>4, <2>2, <2>3, <2>4, Zenon DEF SayFlags
<1>5. CASE critical /\ ~anomalous
  <2>1. s = <<x>> \o <<>>
    BY <1>1, <1>5, Zenon DEF Flagged
  <2>2. s \in Seq(LedgerRecords) /\ DOMAIN s = {1} /\ s[1] = x
    <3>1. s = <<x>>
      <4>1. PICK a \in Seq(LedgerRecords) : a = <<x>>
        BY OneRecord
      <4> QED BY <2>1, <4>1, ConcatEmpty
    <3> QED BY <3>1, OneRecord
  <2>3. OneSays(s, "critical") /\ NoneSays(s, "anomalous")
    BY <1>3, <2>2 DEF OneSays, NoneSays
  <2>4. \A j \in DOMAIN s : /\ s[j].what \in {"critical", "anomalous"} /\ s[j].n = n
                            /\ s[j].actor = acting /\ s[j].role = ""
    BY <1>3, <2>2
  <2> QED BY <1>5, <2>2, <2>3, <2>4, Zenon DEF SayFlags
<1>6. CASE ~critical /\ anomalous
  <2>1. s = <<>> \o <<y>>
    BY <1>2, <1>6, Zenon DEF Flagged
  <2>2. s \in Seq(LedgerRecords) /\ DOMAIN s = {1} /\ s[1] = y
    <3>1. s = <<y>>
      <4>1. PICK a \in Seq(LedgerRecords) : a = <<y>>
        BY OneRecord
      <4> QED BY <2>1, <4>1, ConcatEmpty
    <3> QED BY <3>1, OneRecord
  <2>3. NoneSays(s, "critical") /\ OneSays(s, "anomalous")
    BY <1>3, <2>2 DEF OneSays, NoneSays
  <2>4. \A j \in DOMAIN s : /\ s[j].what \in {"critical", "anomalous"} /\ s[j].n = n
                            /\ s[j].actor = acting /\ s[j].role = ""
    BY <1>3, <2>2
  <2> QED BY <1>6, <2>2, <2>3, <2>4, Zenon DEF SayFlags
<1>7. CASE ~critical /\ ~anomalous
  <2>1. s = <<>> \o <<>>
    BY <1>7, Zenon DEF Flagged
  <2>2. s \in Seq(LedgerRecords) /\ DOMAIN s = {}
    <3>1. PICK a \in Seq(LedgerRecords) : a = <<>> /\ Len(a) = 0
      <4>1. <<>> \in Seq(LedgerRecords) /\ Len(<<>>) = 0
        OBVIOUS
      <4> QED BY <4>1, Zenon
    <3>2. s = <<>>
      BY <2>1, <3>1, ConcatEmpty
    <3>3. <<>> \in Seq(LedgerRecords) /\ DOMAIN <<>> = {}
      OBVIOUS
    <3> QED BY <3>2, <3>3
  <2>3. NoneSays(s, "critical") /\ NoneSays(s, "anomalous")
    BY <2>2 DEF NoneSays
  <2>4. \A j \in DOMAIN s : /\ s[j].what \in {"critical", "anomalous"} /\ s[j].n = n
                            /\ s[j].actor = acting /\ s[j].role = ""
    BY <2>2
  <2> QED BY <1>7, <2>2, <2>3, <2>4, Zenon DEF SayFlags
<1> QED BY <1>4, <1>5, <1>6, <1>7, Zenon

LEMMA NewlyTold ==
  ASSUME NEW s, LedgerHas(s), NEW what, NEW n, About(what, n) = {}, \A j \in DOMAIN s : s[j].n = n,
         NEW size, size = Len(ledger)
  PROVE  /\ OneSays(s, what) => \E k \in DOMAIN ledger' : About(what, n)' = {k}
         /\ NoneSays(s, what) => About(what, n)' = {}
         /\ \A k \in About(what, n)' : \E j \in DOMAIN s : k = size + j /\ ledger'[k] = s[j]
<1>1. ASSUME OneSays(s, what)
      PROVE  \E k \in DOMAIN ledger' : About(what, n)' = {k}
  <2>1. PICK first \in DOMAIN s : s[first].what = what /\ \A j \in DOMAIN s : s[j].what = what => j = first
    BY <1>1 DEF OneSays
  <2>2. PICK k : k = Len(ledger) + first
    OBVIOUS
  <2>3. About(what, n)' = {k} /\ k \in DOMAIN ledger'
    BY <2>1, <2>2, FirstAbout
  <2> QED BY <2>3
<1>2. ASSUME NoneSays(s, what)
      PROVE  About(what, n)' = {}
  BY <1>2, SameAbout DEF NoneSays
<1>3. ASSUME NEW k \in About(what, n)'
      PROVE  \E j \in DOMAIN s : k = size + j /\ ledger'[k] = s[j]
  <2>1. PICK j \in DOMAIN s : k = Len(ledger) + j
    BY <1>3, AboutGrows
  <2>2. ledger'[k] = s[j]
    BY <2>1, LedgerGrows
  <2> QED BY <2>1, <2>2
<1> QED BY <1>1, <1>2, <1>3

LEMMA IssueStep ==
  ASSUME SovereignInv, NEW critical \in BOOLEAN, NEW anomalous \in BOOLEAN,
         IssueDirective(critical, anomalous)
  PROVE  SovereignInv'
<1>1. acting \in Primes /\ directives \in Seq(Directives) /\ Len(directives) \in Nat
  BY DEF SovereignInv, SovereignTypeOK
<1>2. PICK n \in Nat : n = Len(directives) + 1
  BY <1>1
<1>3. PICK s : s = Flagged("critical", critical, n) \o Flagged("anomalous", anomalous, n)
  OBVIOUS
<1>4. SayFlags(s, critical, anomalous, n)
  BY <1>1, <1>3, FlagRecords
<1>5. /\ s \in Seq(LedgerRecords)
       /\ \A j \in DOMAIN s : /\ s[j].what \in {"critical", "anomalous"} /\ s[j].n = n
                              /\ s[j].actor = acting /\ s[j].role = ""
  BY <1>4 DEF SayFlags
<1>6. PICK d \in Directives : d = [issuedBy |-> acting, critical |-> critical, anomalous |-> anomalous,
                                   countermandedBy |-> Nobody]
  BY <1>1 DEF Directives
<1>7. /\ directives' = Append(directives, d) /\ ledger' = ledger \o s
      /\ UNCHANGED <<acting, formers, mesh, registry, identities>>
  BY <1>2, <1>3, <1>6 DEF IssueDirective, Records
<1>8. /\ d.issuedBy = acting /\ d.critical = critical /\ d.anomalous = anomalous
      /\ d.countermandedBy = Nobody
  BY <1>6
<1>9. /\ directives' \in Seq(Directives) /\ DOMAIN directives' = DOMAIN directives \cup {n}
      /\ n \notin DOMAIN directives /\ directives'[n] = d
      /\ \A m \in DOMAIN directives : directives'[m] = directives[m]
  BY <1>1, <1>2, <1>7
<1>10. LedgerHas(s)
  BY <1>5, <1>7 DEF LedgerHas, SovereignInv, SovereignTypeOK
<1>11. SovereignTypeOK'
  BY <1>7, <1>9, <1>10, LedgerGrows DEF SovereignInv, SovereignTypeOK
<1>12. PICK size \in Nat : size = Len(ledger) /\ Len(ledger') = size + Len(s) /\ Len(s) \in Nat
  BY <1>10, LedgerGrows
<1>13. ASSUME NEW k \in (size + 1)..(size + Len(s) + 1)
       PROVE  FormersAt(k)' = formers /\ \A p : IsActingAt(p, k)' <=> IsActingAt(p, Len(ledger) + 1)
  <2>1. k \in (Len(ledger) + 1)..(Len(ledger) + Len(s) + 1)
    BY <1>12
  <2> QED BY <1>5, <1>10, <2>1, NoSuccession DEF SovereignInv
<1>14. IsActingAt(acting, Len(ledger) + 1)' /\ formers' = FormersAt(Len(ledger) + 1)'
  <2>1. PICK k \in (size + 1)..(size + Len(s) + 1) : k = Len(ledger') + 1
    BY <1>12
  <2>2. PICK p : p = acting
    OBVIOUS
  <2>3. IsActingAt(p, k)' /\ FormersAt(k)' = formers
    BY <1>13, <2>2 DEF SovereignInv
  <2> QED BY <1>7, <2>1, <2>2, <2>3
<1>15. ASSUME NEW m \in DOMAIN directives
       PROVE  DirectiveTold(m)'
  <2>1. \A j \in DOMAIN s : s[j].n # m
    BY <1>5, <1>9, <1>15
  <2>2. DirectiveTold(m) /\ directives'[m] = directives[m]
    BY <1>9 DEF SovereignInv
  <2> QED BY <1>10, <2>1, <2>2, StaysTold
<1>16. DirectiveTold(n)'
  <2>1. \A what \in OfDirectives : About(what, n) = {}
    BY <1>9 DEF About, SovereignInv
  <2>2. ASSUME NEW what \in {"critical", "anomalous"}
        PROVE  /\ OneSays(s, what) => \E k \in DOMAIN ledger' : About(what, n)' = {k}
               /\ NoneSays(s, what) => About(what, n)' = {}
               /\ \A k \in About(what, n)' : \E j \in DOMAIN s : k = size + j /\ ledger'[k] = s[j]
    <3>1. About(what, n) = {} /\ \A j \in DOMAIN s : s[j].n = n
      BY <1>5, <2>1 DEF OfDirectives
    <3> QED BY <1>10, <1>12, <3>1, NewlyTold
  <2>3. Told("critical", n, critical)'
    BY <1>4, <2>2, Zenon DEF Told, SayFlags
  <2>4. Told("anomalous", n, anomalous)'
    BY <1>4, <2>2, Zenon DEF Told, SayFlags
  <2>5. About("countermand", n)' = {}
    <3>1. About("countermand", n) = {} /\ \A j \in DOMAIN s : s[j].what # "countermand"
      BY <1>5, <2>1 DEF OfDirectives
    <3> QED BY <1>10, <3>1, SameAbout
  <2>6. PICK p : p = acting /\ p = d.issuedBy
    BY <1>8
  <2>7. ASSUME NEW j \in DOMAIN s, NEW k, k = size + j, ledger'[k] = s[j]
        PROVE  ledger'[k].actor = p /\ IsActingAt(p, k)'
    <3>1. k \in (size + 1)..(size + Len(s) + 1)
      <4>1. j \in 1..Len(s)
        BY <1>10, LedgerGrows
      <4> QED BY <1>12, <2>7, <4>1
    <3> QED BY <1>5, <1>13, <2>6, <2>7, <3>1 DEF SovereignInv
  <2>8. \A k \in About("critical", n)' \cup About("anomalous", n)' :
          ledger'[k].actor = p /\ IsActingAt(p, k)'
    BY <2>7, <2>2
  <2> QED BY <1>8, <1>9, <2>3, <2>4, <2>5, <2>6, <2>8 DEF DirectiveTold, Told
<1> QED BY <1>5, <1>7, <1>9, <1>10, <1>11, <1>12, <1>14, <1>15, <1>16, LedgerKept

LEMMA SovereignStep == SovereignInv /\ [SovereignNext]_sovereignVars => SovereignInv'
<1> SUFFICES ASSUME SovereignInv, [SovereignNext]_sovereignVars  PROVE  SovereignInv'
  OBVIOUS
<1>1. CASE UNCHANGED sovereignVars
  <2>1. UNCHANGED <<acting, formers, directives, ledger, registry, identities>> /\ mesh' \in {"open", "frozen"}
    BY <1>1 DEF sovereignVars, SovereignInv, SovereignTypeOK
  <2> QED BY <2>1, OnlyTheMesh
<1>2. CASE SovereignNext
  BY <1>2, IssueStep, CountermandStep, SucceedStep, OverrideStep, FlagStep DEF SovereignNext
<1> QED BY <1>1, <1>2

LEMMA SovereignInvSuffices == SovereignInv => LedgerTellsHistory /\ OverridesWereLive
<1> SUFFICES ASSUME SovereignInv  PROVE  LedgerTellsHistory
  BY DEF SovereignInv
<1>1. ASSUME NEW what, NEW n, NEW happened \in BOOLEAN, Told(what, n, happened)
      PROVE  Cardinality(About(what, n)) = IF happened THEN 1 ELSE 0
  <2>1. CASE happened
    <3>1. PICK k : About(what, n) = {k}
      BY <1>1, <2>1 DEF Told
    <3> QED BY <2>1, <3>1, FS_Singleton
  <2>2. CASE ~happened
    BY <1>1, <2>2, FS_EmptySet DEF Told
  <2> QED BY <2>1, <2>2
<1>2. ASSUME NEW n \in DOMAIN directives
      PROVE  LET d == directives[n] IN
             /\ Cardinality(About("critical", n)) = IF d.critical THEN 1 ELSE 0
             /\ Cardinality(About("anomalous", n)) = IF d.anomalous THEN 1 ELSE 0
             /\ \A k \in About("critical", n) \cup About("anomalous", n) :
                  ledger[k].actor = d.issuedBy /\ IsActingAt(d.issuedBy, k)
             /\ Cardinality(About("countermand", n)) = IF d.countermandedBy = Nobody THEN 0 ELSE 1
             /\ \A k \in About("countermand", n) :
                  ledger[k].actor = d.countermandedBy /\ ledger[k].actor \in FormersAt(k)
  <2>1. DirectiveTold(n) /\ directives[n].critical \in BOOLEAN /\ directives[n].anomalous \in BOOLEAN
    <3>1. directives \in Seq(Directives)
      BY DEF SovereignInv, SovereignTypeOK
    <3>2. directives[n] \in Directives
      BY <3>1
    <3> QED BY <3>2 DEF SovereignInv, Directives
  <2>2. Cardinality(About("critical", n)) = IF directives[n].critical THEN 1 ELSE 0
    BY <1>1, <2>1 DEF DirectiveTold
  <2>3. Cardinality(About("anomalous", n)) = IF directives[n].anomalous THEN 1 ELSE 0
    BY <1>1, <2>1 DEF DirectiveTold
  <2>4. Cardinality(About("countermand", n)) = IF directives[n].countermandedBy # Nobody THEN 1 ELSE 0
    BY <1>1, <2>1 DEF DirectiveTold
  <2> QED BY <2>1, <2>2, <2>3, <2>4 DEF DirectiveTold
<1> QED BY <1>2 DEF SovereignInv, LedgerTellsHistory

\* The type invariant of the sovereign layer: among others that the ledger is a
\* sequence of records by Primes and that a directive is countermanded by a Prime.
THEOREM SovereignTypes == SovereignSpec => []SovereignTypeOK
<1>1. SovereignInv => SovereignTypeOK
  BY DEF SovereignInv
<1> QED BY <1>1, SovereignInitial, SovereignStep, PTL DEF SovereignSpec

\* However long the directives, countermands, successions and freeze overrides go
\* on, and whoever the Primes are: the Designated Ledger alone tells who acts and
\* who are Former Primes, each flagged or countermanded directive has its one record
\* under the Prime entitled to it at that moment, and with the registry every
\* freeze override it holds was compelled in a role then held
\* (holloway/sovereign.ts, override.ts).
THEOREM SovereigntyAccounts == SovereignSpec => []SovereigntyIsAccountable
<1>1. SovereignInv => SovereigntyIsAccountable
  BY SovereignInvSuffices DEF SovereigntyIsAccountable
<1> QED BY <1>1, SovereignInitial, SovereignStep, PTL DEF SovereignSpec

-----------------------------------------------------------------------------
(* The task queue. *)

\* The ticket with which a task waits is the last one it took.
LastOf(s, t, i) == i \in DOMAIN s /\ s[i] = t /\ \A j \in DOMAIN s : s[j] = t => j <= i
InLine(i, j) ==
  \/ PriorityOf[ready[i]] < PriorityOf[ready[j]]
  \/ /\ PriorityOf[ready[i]] = PriorityOf[ready[j]]
     /\ \E m, n \in DOMAIN tickets : LastOf(tickets, ready[i], m) /\ LastOf(tickets, ready[j], n) /\ m < n
QueueInv ==
  /\ QueueTypeOK
  /\ {tickets[i] : i \in DOMAIN tickets} = Waiting \cup flight \cup done
  /\ flight \cap (Waiting \cup done) = {} /\ Waiting \cap done = {}
  /\ \A t \in Waiting : \E i \in DOMAIN tickets : LastOf(tickets, t, i)
  /\ \A i, j \in DOMAIN ready : i < j => InLine(i, j)

LEMMA QueueInitial == QueueInit => QueueInv
BY DEF QueueInit, QueueInv, QueueTypeOK, Waiting

LEMMA SortedKeeps ==
  ASSUME NEW s \in Seq(Tasks), NEW r \in Sorted(s)
  PROVE  /\ r \in Seq(Tasks) /\ DOMAIN r = DOMAIN s
         /\ {r[i] : i \in DOMAIN r} = {s[i] : i \in DOMAIN s}
         /\ \E p \in [DOMAIN s -> DOMAIN s] :
              /\ \A i \in DOMAIN s : r[i] = s[p[i]]
              /\ \A i, j \in DOMAIN s : i < j => Sooner(s, p[i], p[j])
<1>1. PICK p \in Arrangements(s) : /\ r = [i \in DOMAIN s |-> s[p[i]]]
                                   /\ \A i, j \in DOMAIN s : i < j => Sooner(s, p[i], p[j])
  BY DEF Sorted
<1>2. p \in [DOMAIN s -> DOMAIN s] /\ \A j \in DOMAIN s : \E i \in DOMAIN s : p[i] = j
  BY DEF Arrangements
<1>3. DOMAIN r = DOMAIN s /\ \A i \in DOMAIN s : r[i] = s[p[i]]
  BY <1>1
<1>4. r \in Seq(Tasks)
  <2>1. r \in [1..Len(s) -> Tasks] /\ Len(s) \in Nat
    BY <1>1, <1>2
  <2> QED BY <2>1
<1>5. {r[i] : i \in DOMAIN r} = {s[i] : i \in DOMAIN s}
  BY <1>2, <1>3
<1> QED BY <1>1, <1>2, <1>3, <1>4, <1>5

LEMMA LineStep ==
  ASSUME QueueInv, NEW t \in Tasks, Line(t), t \notin Waiting
  PROVE  /\ ready' \in Seq(Tasks) /\ tickets' \in Seq(Tasks) /\ Waiting' = Waiting \cup {t}
         /\ {tickets'[i] : i \in DOMAIN tickets'} = {tickets[i] : i \in DOMAIN tickets} \cup {t}
         /\ \A u \in Waiting' : \E i \in DOMAIN tickets' : LastOf(tickets', u, i)
         /\ \A i, j \in DOMAIN ready' : i < j => InLine(i, j)'
<1>1. ready \in Seq(Tasks) /\ tickets \in Seq(Tasks)
  BY DEF QueueInv, QueueTypeOK
<1>2. PICK s \in Seq(Tasks) : s = Append(ready, t)
  <2>1. Append(ready, t) \in Seq(Tasks)
    BY <1>1
  <2> QED BY <2>1
<1>3. PICK n \in Nat : n = Len(ready) /\ DOMAIN ready = 1..n /\ DOMAIN s = 1..(n + 1) /\ s[n + 1] = t
                       /\ \A i \in 1..n : s[i] = ready[i]
  BY <1>1, <1>2
<1>4. PICK last \in Nat : /\ last = Len(tickets) + 1 /\ DOMAIN tickets = 1..(last - 1)
                          /\ DOMAIN tickets' = 1..last /\ tickets'[last] = t
                          /\ \A i \in 1..(last - 1) : tickets'[i] = tickets[i]
  BY <1>1 DEF Line
<1>5. tickets' \in Seq(Tasks)
  BY <1>1 DEF Line
<1>6. ready' \in Sorted(s)
  BY <1>2 DEF Line
<1>7. PICK p \in [DOMAIN s -> DOMAIN s] :
        /\ \A i \in DOMAIN s : ready'[i] = s[p[i]]
        /\ \A i, j \in DOMAIN s : i < j => Sooner(s, p[i], p[j])
  BY <1>6, SortedKeeps
<1>8. /\ ready' \in Seq(Tasks) /\ DOMAIN ready' = DOMAIN s
      /\ {ready'[i] : i \in DOMAIN ready'} = {s[i] : i \in DOMAIN s}
  BY <1>6, SortedKeeps
<1>9. Waiting' = Waiting \cup {t}
  <2>1. Waiting' = {s[i] : i \in 1..(n + 1)}
    BY <1>3, <1>8 DEF Waiting
  <2>2. \A i \in 1..(n + 1) : i \in 1..n \/ i = n + 1
    OBVIOUS
  <2>3. {s[i] : i \in 1..(n + 1)} = {s[i] : i \in 1..n} \cup {s[n + 1]}
    BY <2>2
  <2>4. Waiting = {s[i] : i \in 1..n}
    BY <1>3 DEF Waiting
  <2> QED BY <1>3, <2>1, <2>3, <2>4
<1>10. {tickets'[i] : i \in DOMAIN tickets'} = {tickets[i] : i \in DOMAIN tickets} \cup {t}
  BY <1>4
<1>11. LastOf(tickets', t, last)
  BY <1>4 DEF LastOf
<1>12. ASSUME NEW u, u # t, NEW i, LastOf(tickets, u, i)
       PROVE  LastOf(tickets', u, i) /\ i \in DOMAIN tickets' /\ i < last
  BY <1>4, <1>12 DEF LastOf
<1>13. \A u \in Waiting' : \E i \in DOMAIN tickets' : LastOf(tickets', u, i)
  BY <1>4, <1>9, <1>11, <1>12 DEF QueueInv
<1>14. ASSUME NEW i \in DOMAIN ready', NEW j \in DOMAIN ready', i < j
       PROVE  InLine(i, j)'
  <2>1. PICK a \in 1..(n + 1), b \in 1..(n + 1) :
          ready'[i] = s[a] /\ ready'[j] = s[b] /\ Sooner(s, a, b)
    BY <1>3, <1>7, <1>8, <1>14
  <2>2. CASE PriorityOf[s[a]] < PriorityOf[s[b]]
    BY <2>1, <2>2 DEF InLine
  <2>3. CASE PriorityOf[s[a]] = PriorityOf[s[b]] /\ a < b
    <3>1. a \in 1..n /\ s[a] = ready[a] /\ s[a] # t /\ s[a] \in Waiting
      BY <1>3, <2>3 DEF Waiting
    <3>2. CASE b = n + 1
      <4>1. PICK m \in DOMAIN tickets : LastOf(tickets, s[a], m)
        BY <3>1 DEF QueueInv
      <4>2. LastOf(tickets', ready'[i], m) /\ m \in DOMAIN tickets' /\ m < last
        BY <1>12, <2>1, <3>1, <4>1
      <4>3. LastOf(tickets', ready'[j], last) /\ last \in DOMAIN tickets'
        BY <1>3, <1>4, <1>11, <2>1, <3>2
      <4> QED BY <2>1, <2>3, <4>2, <4>3 DEF InLine
    <3>3. CASE b \in 1..n
      <4>1. s[b] = ready[b] /\ s[b] # t /\ InLine(a, b)
        BY <1>3, <2>3, <3>1, <3>3 DEF QueueInv, Waiting
      <4>2. s[a] \in Tasks /\ s[b] \in Tasks
        BY <2>1, <1>3
      <4>3. PriorityOf[s[a]] \in Nat /\ PriorityOf[s[b]] \in Nat
        <5>1. PriorityOf[s[a]] \in 0..2 /\ PriorityOf[s[b]] \in 0..2
          BY <4>2, PriorityAssumption, Zenon
        <5> QED BY <5>1
      <4>4. PICK x \in DOMAIN tickets, y \in DOMAIN tickets :
              LastOf(tickets, s[a], x) /\ LastOf(tickets, s[b], y) /\ x < y
        BY <2>3, <3>1, <4>1, <4>3 DEF InLine
      <4>5. LastOf(tickets', ready'[i], x) /\ LastOf(tickets', ready'[j], y) /\ x \in DOMAIN tickets' /\ y \in DOMAIN tickets'
        BY <1>12, <2>1, <3>1, <4>1, <4>4
      <4> QED BY <2>1, <2>3, <4>4, <4>5 DEF InLine
    <3> QED BY <1>3, <3>2, <3>3
  <2> QED BY <2>1, <2>2, <2>3 DEF Sooner
<1> QED BY <1>5, <1>8, <1>9, <1>10, <1>13, <1>14

LEMMA QueueStep == QueueInv /\ [QueueNext]_queueVars => QueueInv'
<1> SUFFICES ASSUME QueueInv, [QueueNext]_queueVars  PROVE  QueueInv'
  OBVIOUS
<1>1. ASSUME NEW t \in Tasks, Enqueue(t)  PROVE  QueueInv'
  <2>1. Line(t) /\ t \notin Waiting /\ t \notin flight \cup done /\ UNCHANGED <<flight, done>>
    BY <1>1 DEF Enqueue
  <2>2. /\ ready' \in Seq(Tasks) /\ tickets' \in Seq(Tasks) /\ Waiting' = Waiting \cup {t}
        /\ {tickets'[i] : i \in DOMAIN tickets'} = {tickets[i] : i \in DOMAIN tickets} \cup {t}
        /\ \A u \in Waiting' : \E i \in DOMAIN tickets' : LastOf(tickets', u, i)
        /\ \A i, j \in DOMAIN ready' : i < j => InLine(i, j)'
    BY <2>1, LineStep
  <2>3. QueueTypeOK'
    BY <2>1, <2>2 DEF QueueInv, QueueTypeOK
  <2> QED BY <2>1, <2>2, <2>3 DEF QueueInv
<1>2. ASSUME NEW t \in Tasks, NackTask(t)  PROVE  QueueInv'
  <2>1. Line(t) /\ t \in flight /\ t \notin Waiting \cup done /\ flight' = flight \ {t} /\ done' = done
    BY <1>2 DEF NackTask, QueueInv
  <2>2. /\ ready' \in Seq(Tasks) /\ tickets' \in Seq(Tasks) /\ Waiting' = Waiting \cup {t}
        /\ {tickets'[i] : i \in DOMAIN tickets'} = {tickets[i] : i \in DOMAIN tickets} \cup {t}
        /\ \A u \in Waiting' : \E i \in DOMAIN tickets' : LastOf(tickets', u, i)
        /\ \A i, j \in DOMAIN ready' : i < j => InLine(i, j)'
    BY <2>1, LineStep
  <2>3. QueueTypeOK'
    BY <2>1, <2>2 DEF QueueInv, QueueTypeOK
  <2> QED BY <2>1, <2>2, <2>3 DEF QueueInv
<1>3. ASSUME NEW t \in Tasks, AckTask(t)  PROVE  QueueInv'
  <2>1. /\ t \in flight /\ flight' = flight \ {t} /\ done' = done \cup {t}
        /\ UNCHANGED <<ready, tickets>>
    BY <1>3 DEF AckTask
  <2>2. Waiting' = Waiting /\ \A i, j : InLine(i, j) => InLine(i, j)'
    BY <2>1 DEF Waiting, InLine
  <2>3. QueueTypeOK'
    BY <2>1 DEF QueueInv, QueueTypeOK
  <2> QED BY <2>1, <2>2, <2>3 DEF QueueInv
<1>4. ASSUME Dequeue  PROVE  QueueInv'
  <2>1. ready \in Seq(Tasks) /\ ready # <<>>
    BY <1>4 DEF QueueInv, QueueTypeOK, Dequeue
  <2>2. PICK n \in Nat : Len(ready) = n + 1 /\ DOMAIN ready = 1..(n + 1)
    <3>1. Len(ready) \in Nat \ {0} /\ DOMAIN ready = 1..Len(ready)
      BY <2>1
    <3>2. Len(ready) - 1 \in Nat /\ Len(ready) = (Len(ready) - 1) + 1
      BY <3>1
    <3> QED BY <3>1, <3>2
  <2>3. /\ ready' \in Seq(Tasks) /\ DOMAIN ready' = 1..n
        /\ \A i \in 1..n : ready'[i] = ready[i + 1]
        /\ flight' = flight \cup {ready[1]} /\ UNCHANGED <<tickets, done>>
    BY <2>1, <2>2, <1>4 DEF Dequeue
  <2>4. \A i, j \in DOMAIN ready' : i < j => InLine(i, j)'
    <3> SUFFICES ASSUME NEW i \in DOMAIN ready', NEW j \in DOMAIN ready', i < j  PROVE InLine(i, j)'
      OBVIOUS
    <3>1. InLine(i + 1, j + 1) /\ ready'[i] = ready[i + 1] /\ ready'[j] = ready[j + 1]
      <4>1. i \in 1..n /\ j \in 1..n /\ i + 1 \in 1..(n + 1) /\ j + 1 \in 1..(n + 1) /\ i + 1 < j + 1
        BY <2>3
      <4>2. i + 1 \in DOMAIN ready /\ j + 1 \in DOMAIN ready
        BY <2>2, <4>1
      <4>3. InLine(i + 1, j + 1)
        BY <4>1, <4>2, Zenon DEF QueueInv
      <4> QED BY <2>3, <4>1, <4>3, Zenon
    <3> QED BY <2>3, <3>1 DEF InLine, LastOf
  <2>5. Waiting = Waiting' \cup {ready[1]}
    <3>1. \A i \in 1..(n + 1) : i = 1 \/ (i - 1 \in 1..n /\ ready'[i - 1] = ready[i])
      BY <2>3
    <3>2. \A i \in 1..n : i + 1 \in 1..(n + 1)
      OBVIOUS
    <3>3. Waiting \subseteq Waiting' \cup {ready[1]}
      <4> SUFFICES ASSUME NEW i \in 1..(n + 1)  PROVE ready[i] \in Waiting' \cup {ready[1]}
        BY <2>2 DEF Waiting
      <4>1. CASE i = 1
        BY <4>1
      <4>2. CASE i - 1 \in 1..n /\ ready'[i - 1] = ready[i]
        <5>1. i - 1 \in DOMAIN ready'
          BY <2>3, <4>2
        <5> QED BY <4>2, <5>1 DEF Waiting
      <4> QED BY <3>1, <4>1, <4>2
    <3>4. Waiting' \cup {ready[1]} \subseteq Waiting
      BY <2>2, <2>3, <3>2, SMTT(30) DEF Waiting
    <3> QED BY <3>3, <3>4
  <2>6. ready[1] \notin Waiting'
    <3> SUFFICES ASSUME NEW i \in 1..n, ready[i + 1] = ready[1]  PROVE FALSE
      BY <2>3 DEF Waiting
    <3>1. InLine(1, i + 1) /\ PriorityOf[ready[1]] \in Nat
      BY <2>1, <2>2, PriorityAssumption DEF QueueInv
    <3>2. PICK x \in DOMAIN tickets, y \in DOMAIN tickets :
            LastOf(tickets, ready[1], x) /\ LastOf(tickets, ready[1], y) /\ x < y
      BY <3>1 DEF InLine
    <3>3. y <= x /\ x \in Nat /\ y \in Nat
      BY <3>2 DEF LastOf, QueueInv, QueueTypeOK
    <3> QED BY <3>2, <3>3
  <2>7. \A t \in Waiting' : \E i \in DOMAIN tickets' : LastOf(tickets', t, i)
    BY <2>3, <2>5 DEF QueueInv, LastOf
  <2>8. QueueTypeOK'
    BY <2>1, <2>2, <2>3 DEF QueueInv, QueueTypeOK
  <2> QED BY <2>3, <2>4, <2>5, <2>6, <2>7, <2>8 DEF QueueInv
<1>5. ASSUME ClearQueue  PROVE  QueueInv'
  <2>1. /\ ready' = <<>> /\ DOMAIN ready' = {} /\ flight' = {}
        /\ done' = done \cup Waiting \cup flight /\ tickets' = tickets
    BY <1>5 DEF ClearQueue
  <2>2. Waiting' = {} /\ Waiting \subseteq Tasks
    BY <2>1 DEF Waiting, QueueInv, QueueTypeOK
  <2> QED BY <2>1, <2>2 DEF QueueInv, QueueTypeOK
<1>6. CASE UNCHANGED queueVars
  BY <1>6, SMTT(30) DEF queueVars, QueueInv, QueueTypeOK, Waiting, InLine, LastOf
<1> QED BY <1>1, <1>2, <1>3, <1>4, <1>5, <1>6 DEF QueueNext

LEMMA QueueInvSuffices == QueueInv => TasksKeptInOrder
<1> SUFFICES ASSUME QueueInv  PROVE  TasksKeptInOrder
  OBVIOUS
<1>1. ASSUME NEW t, NEW i, LastOf(tickets, t, i)
      PROVE  Ticket(t) = i
  BY <1>1 DEF Ticket, LastOf, QueueInv, QueueTypeOK
<1> QED BY <1>1 DEF TasksKeptInOrder, QueueInv, InLine

\* Whatever is enqueued, taken, acked, handed back and cleared, and in whatever order:
\* a task is in one place, and those that wait stand by priority and, within one, by
\* the last time they were put in line (redis_router_stub.ts).
THEOREM QueueKeepsOrder == QueueSpec => []TasksKeptInOrder
BY QueueInitial, QueueStep, QueueInvSuffices, PTL DEF QueueSpec

-----------------------------------------------------------------------------
(* All of them in one behaviour, which moves one of them. *)

\* Within the mesh, whichever part moves: sovereignty is accounted for, the bus hands
\* each message on and the tasks stand in their order.
THEOREM MeshHolds == Spec => [](SovereigntyIsAccountable /\ BusIsSound /\ TasksKeptInOrder)
<1>1. Init => SovereignInv /\ IInv /\ QueueInv
  BY SovereignInitial, IInvInit, QueueInitial DEF Init
<1>2. [Next]_vars => [SovereignNext]_sovereignVars /\ [BusNext]_busVars /\ [QueueNext]_queueVars
  <2>1. CASE Next
    BY <2>1 DEF Next
  <2>2. CASE UNCHANGED vars
    BY <2>2 DEF vars
  <2> QED BY <2>1, <2>2
<1>3. SovereignInv /\ IInv /\ QueueInv /\ [Next]_vars => SovereignInv' /\ IInv' /\ QueueInv'
  BY <1>2, SovereignStep, IInvStep, QueueStep
<1>4. SovereignInv /\ IInv /\ QueueInv => SovereigntyIsAccountable /\ BusIsSound /\ TasksKeptInOrder
  BY SovereignInvSuffices, IInvSound, QueueInvSuffices DEF SovereigntyIsAccountable
<1> QED BY <1>1, <1>3, <1>4, PTL DEF Spec
=============================================================================
