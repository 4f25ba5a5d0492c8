--------------------------- MODULE ApexKnollProofs ---------------------------
(***************************************************************************)
(* What ApexKnoll guarantees for every set of packets, every handler set,  *)
(* every threshold and every limit.                                        *)
(***************************************************************************)
EXTENDS ApexKnoll, SequenceTheorems, FiniteSetTheorems, TLAPS

-----------------------------------------------------------------------------
(* Lemmas about the call stack: what a return, a send and a gate passed do *)
(* to it.                                                                  *)

\* The dispatch on top is a frame, and it is about a packet that exists.
LEMMA TopIsFrame ==
  ASSUME TypeOK, ~Idle
  PROVE  /\ Len(stack) \in Nat \ {0} /\ Top \in Frames /\ Top.id \in PacketIds
         /\ Packet \in Packets
<1>1. stack \in Seq(Frames) /\ minted \in Seq(Packets) /\ stack # <<>>
  BY DEF TypeOK, Idle
<1>2. Len(stack) \in Nat \ {0}
  BY <1>1, EmptySeq
<1>3. Top \in Frames /\ Top.id \in PacketIds
  BY <1>1, <1>2, ElementOfSeq, LenProperties DEF TypeOK, Top
<1>4. Packet \in Packets
  BY <1>1, <1>3, ElementOfSeq DEF Packet, PacketIds
<1> QED BY <1>2, <1>3, <1>4

\* Returning pops the frame and keeps the others as they were.
LEMMA PopShape ==
  ASSUME TypeOK, ~Idle
  PROVE  /\ Rest \in Seq(Frames) /\ Len(Rest) = Len(stack) - 1
         /\ \A i \in 1..Len(Rest) : i \in 1..Len(stack) /\ Rest[i] = stack[i]
<1>1. stack \in Seq(Frames) /\ Len(stack) \in Nat \ {0}
  BY TopIsFrame DEF TypeOK
<1>2. \A i \in 1..(Len(stack) - 1) : stack[i] \in Frames
  BY <1>1, ElementOfSeq
<1> DEFINE n == Len(stack) - 1
<1>3. n \in Int /\ 1 \in Int /\ n \in Nat
  BY <1>1
<1>4. /\ SubSeq(stack, 1, n) \in Seq(Frames)
      /\ Len(SubSeq(stack, 1, n)) = IF 1 <= n THEN n-1+1 ELSE 0
      /\ \A i \in 1 .. n-1+1 : SubSeq(stack, 1, n)[i] = stack[1+i-1]
  <2> HIDE DEF n
  <2> QED BY <1>2, <1>3, SubSeqProperties DEF n
<1>5. Rest = SubSeq(stack, 1, n)
  BY DEF Rest
<1> HIDE DEF n
<1>6. Rest \in Seq(Frames) /\ Len(Rest) = n /\ \A i \in 1..n : Rest[i] = stack[i]
  BY <1>3, <1>4, <1>5
<1> QED BY <1>1, <1>3, <1>6 DEF n

\* Passing the gate, or starting to wait for a nested dispatch, only moves the
\* program counter of the top frame.
LEMMA RetagShape ==
  ASSUME TypeOK, ~Idle, NEW pc \in {"gate", "handler", "return"}
  PROVE  /\ Retag(pc) \in Seq(Frames) /\ Len(Retag(pc)) = Len(stack)
         /\ \A i \in 1..Len(stack) : /\ Retag(pc)[i].id = stack[i].id
                                     /\ Retag(pc)[i].token = stack[i].token
         /\ \A i \in 1..(Len(stack) - 1) : Retag(pc)[i] = stack[i]
         /\ Retag(pc)[Len(stack)].pc = pc
<1> DEFINE n == Len(stack)
           e == [stack[n] EXCEPT !.pc = pc]
           s == Retag(pc)
<1>1. stack \in Seq(Frames) /\ n \in 1..Len(stack) /\ n \in Nat \ {0}
  BY TopIsFrame DEF TypeOK
<1>2. stack[n] \in Frames
  BY TopIsFrame DEF Top
<1>3. e \in Frames /\ e.id = stack[n].id /\ e.token = stack[n].token /\ e.pc = pc
  BY <1>2 DEF Frames
<1>4. s = [stack EXCEPT ![n] = e]
  BY DEF Retag
<1>5. /\ s \in Seq(Frames) /\ Len(s) = Len(stack)
      /\ \A j \in 1..Len(stack) : s[j] = IF j = n THEN e ELSE stack[j]
  <2> HIDE DEF n, e, s
  <2> QED BY <1>1, <1>3, <1>4, ExceptSeq
<1> HIDE DEF e
<1> QED BY <1>1, <1>3, <1>5

\* Every way out of a dispatch leaves a well-formed ledger and stack.
LEMMA FinishType ==
  ASSUME TypeOK, ~Idle, minted' = minted,
         NEW id \in PacketIds \cup {NoPacket}, NEW st \in Statuses, NEW v \in Verdicts,
         Finish(id, st, v)
  PROVE  /\ ledger' \in Seq([id : PacketIds \cup {NoPacket}, status : Statuses, verdict : Verdicts])'
         /\ stack' \in Seq(Frames)
         /\ \A i \in DOMAIN stack' : stack'[i].id \in PacketIds'
         /\ Len(ledger') = Len(ledger) + 1
<1>1. Row(id, st, v) \in [id : PacketIds \cup {NoPacket}, status : Statuses, verdict : Verdicts]
  BY DEF Row
<1>2. /\ ledger' \in Seq([id : PacketIds \cup {NoPacket}, status : Statuses, verdict : Verdicts])
      /\ Len(ledger') = Len(ledger) + 1
  BY <1>1 DEF Finish, TypeOK
<1>3. PacketIds' = PacketIds
  BY DEF PacketIds
<1>4. stack' = Rest
  BY DEF Finish
<1>5. stack \in Seq(Frames) /\ DOMAIN stack = 1..Len(stack)
  BY LenProperties DEF TypeOK
<1>6. stack' \in Seq(Frames) /\ DOMAIN stack' = 1..Len(stack')
  BY <1>4, PopShape, LenProperties
<1>7. \A i \in DOMAIN stack' : stack'[i].id \in PacketIds'
  BY <1>3, <1>4, <1>5, <1>6, PopShape DEF TypeOK
<1> QED BY <1>2, <1>3, <1>6, <1>7

\* A new packet leaves every earlier packet, and every id in use, as it was.
LEMMA MintShape ==
  ASSUME TypeOK, NEW p \in Packets, minted' = Append(minted, p)
  PROVE  /\ minted' \in Seq(Packets) /\ PacketIds \subseteq PacketIds'
         /\ Len(minted) + 1 \in PacketIds' /\ minted'[Len(minted) + 1] = p
         /\ \A id \in PacketIds : minted'[id] = minted[id]
         /\ ledger \in Seq([id : PacketIds' \cup {NoPacket}, status : Statuses, verdict : Verdicts])
         /\ audit \in Seq([id : PacketIds', outcome : Outcomes, at : Nat])
         /\ quarantine \in Seq(PacketIds')
<1>1. /\ minted' \in Seq(Packets) /\ Len(minted') = Len(minted) + 1
      /\ minted'[Len(minted) + 1] = p
      /\ \A id \in 1..Len(minted) : minted'[id] = minted[id]
  BY DEF TypeOK
<1>2. PacketIds \subseteq PacketIds' /\ Len(minted) + 1 \in PacketIds'
  BY <1>1, LenProperties DEF PacketIds, TypeOK
<1>3. ledger \in Seq([id : PacketIds' \cup {NoPacket}, status : Statuses, verdict : Verdicts])
  BY <1>2, SeqMonotonic,
     [id : PacketIds \cup {NoPacket}, status : Statuses, verdict : Verdicts]
       \subseteq [id : PacketIds' \cup {NoPacket}, status : Statuses, verdict : Verdicts]
     DEF TypeOK
<1>4. audit \in Seq([id : PacketIds', outcome : Outcomes, at : Nat])
  BY <1>2, SeqMonotonic,
     [id : PacketIds, outcome : Outcomes, at : Nat]
       \subseteq [id : PacketIds', outcome : Outcomes, at : Nat]
     DEF TypeOK
<1>5. quarantine \in Seq(PacketIds')
  BY <1>2, SeqMonotonic DEF TypeOK
<1> QED BY <1>1, <1>2, <1>3, <1>4, <1>5 DEF PacketIds

-----------------------------------------------------------------------------
(* Type correctness. *)

\* The parts of TypeOK that belong to KNOLL's own state.
KnollTypeOK ==
  /\ frozen \in BOOLEAN /\ cause \in PacketIds \cup {NoPacket}
  /\ quarantine \in Seq(PacketIds)
  /\ buckets \in [Roles -> [start : Nat, count : Nat]]
  /\ windows \in [Roles -> SUBSET [nth : Nat, at : Nat]]
  /\ reputation \in [Roles -> Nat]

LEMMA SourceIsRole ==
  ASSUME TypeOK, ~Idle
  PROVE  Packet.source \in Roles /\ Packet.destination \in Roles
BY TopIsFrame DEF Packets

LEMMA CheckRateType ==
  ASSUME TypeOK, ~Idle, CheckRate
  PROVE  buckets' \in [Roles -> [start : Nat, count : Nat]]
<1>1. ASSUME NEW b \in [start : Nat, count : Nat]
      PROVE  NextBucket(b) \in [start : Nat, count : Nat]
  <2>1. CASE WindowOpen(b)
    BY <2>1 DEF NextBucket
  <2>2. CASE ~WindowOpen(b)
    BY <2>2 DEF NextBucket, TypeOK
  <2> QED BY <2>1, <2>2
<1> QED BY <1>1, SourceIsRole DEF CheckRate, TypeOK

LEMMA ObserveScoreType ==
  ASSUME TypeOK, ~Idle, ObserveScore
  PROVE  /\ windows' \in [Roles -> SUBSET [nth : Nat, at : Nat]]
         /\ reputation' \in [Roles -> Nat]
<1>1. Recent(Packet.source) \in SUBSET [nth : Nat, at : Nat]
  BY SourceIsRole, SMTT(30) DEF Recent, TypeOK
<1>2. \A r \in Nat : NextReputation(r) \in Nat
  BY DEF NextReputation, AtMost
<1>3. windows' \in [Roles -> SUBSET [nth : Nat, at : Nat]]
  BY <1>1, SourceIsRole DEF ObserveScore, TypeOK
<1>4. reputation' \in [Roles -> Nat]
  BY <1>2, SourceIsRole DEF ObserveScore, TypeOK
<1> QED BY <1>3, <1>4

LEMMA AuditType ==
  ASSUME TypeOK, ~Idle, minted' = minted, NEW o \in Outcomes,
         audit' = Append(audit, Audited(Top.id, o))
  PROVE  audit' \in Seq([id : PacketIds, outcome : Outcomes, at : Nat])'
<1>1. Audited(Top.id, o) \in [id : PacketIds, outcome : Outcomes, at : Nat]
  BY TopIsFrame DEF Audited, TypeOK
<1> QED BY <1>1 DEF TypeOK, PacketIds

\* KNOLL's denials, one lemma for the five of them.
LEMMA DenyType ==
  ASSUME TypeOK, ~Idle, NEW v \in Verdicts, Deny(v), KnollTypeOK'
  PROVE  TypeOK'
<1>1. minted' = minted /\ clock' = clock /\ begun' = begun
  BY DEF Deny
<1>2. audit' \in Seq([id : PacketIds, outcome : Outcomes, at : Nat])'
  BY <1>1, AuditType DEF Deny, Outcomes
<1>3. Top.id \in PacketIds \cup {NoPacket} /\ "BLOCKED" \in Statuses
  BY TopIsFrame DEF Statuses
<1>4. Finish(Top.id, "BLOCKED", v)
  BY DEF Deny
<1>5. /\ ledger' \in Seq([id : PacketIds \cup {NoPacket}, status : Statuses, verdict : Verdicts])'
      /\ stack' \in Seq(Frames)
      /\ \A i \in DOMAIN stack' : stack'[i].id \in PacketIds'
  BY <1>1, <1>3, <1>4, FinishType
<1> QED BY <1>1, <1>2, <1>5 DEF TypeOK, KnollTypeOK

\* Each way the gate can end, and each step of a handler, keeps the types.
LEMMA GateType ==
  ASSUME TypeOK, Gate
  PROVE  TypeOK'
<1>1. ~Idle
  BY DEF Gate, AtGate, RefuseGarbage, RefuseFrozen, DenyTampered, DenyRate, DenyLaw,
         DenyAnomalous, DenyLearned, Deliver, FailUnhandled, Allow, Lawful, WithinRate,
         Intercepted
<1> USE <1>1 DEF Verdicts
<1>2. CASE RefuseGarbage
  <2>1. UNCHANGED <<clock, minted, begun, audit, knollVars>>
    BY <1>2 DEF RefuseGarbage
  <2>2. /\ ledger' \in Seq([id : PacketIds \cup {NoPacket}, status : Statuses, verdict : Verdicts])'
        /\ stack' \in Seq(Frames)
        /\ \A i \in DOMAIN stack' : stack'[i].id \in PacketIds'
    BY <1>2, <2>1, FinishType DEF RefuseGarbage, Statuses
  <2> QED BY <2>1, <2>2 DEF TypeOK, knollVars, PacketIds
<1>3. CASE RefuseFrozen
  <2>1. UNCHANGED <<clock, minted, begun, audit, knollVars>>
    BY <1>3 DEF RefuseFrozen
  <2>2. /\ ledger' \in Seq([id : PacketIds \cup {NoPacket}, status : Statuses, verdict : Verdicts])'
        /\ stack' \in Seq(Frames)
        /\ \A i \in DOMAIN stack' : stack'[i].id \in PacketIds'
    BY <1>3, <2>1, FinishType, TopIsFrame DEF RefuseFrozen, Statuses
  <2> QED BY <2>1, <2>2 DEF TypeOK, knollVars, PacketIds
<1>4. CASE DenyTampered
  BY <1>4, DenyType DEF DenyTampered, knollVars, KnollTypeOK, TypeOK, PacketIds, Deny
<1>5. CASE DenyRate
  <2>1. KnollTypeOK'
    BY <1>5, CheckRateType DEF DenyRate, Deny, KnollTypeOK, TypeOK, PacketIds
  <2> QED BY <1>5, <2>1, DenyType DEF DenyRate
<1>6. CASE DenyLaw
  <2>1. KnollTypeOK'
    BY <1>6, CheckRateType DEF DenyLaw, Deny, KnollTypeOK, TypeOK, PacketIds
  <2> QED BY <1>6, <2>1, DenyType DEF DenyLaw
<1>7. CASE DenyAnomalous
  <2>1. KnollTypeOK'
    <3>1. PacketIds' = PacketIds
      BY <1>7 DEF DenyAnomalous, Deny, PacketIds
    <3>2. frozen' \in BOOLEAN /\ cause' \in PacketIds \cup {NoPacket}
      BY <1>7, TopIsFrame DEF DenyAnomalous, TriggerFreeze, TypeOK
    <3>3. quarantine' \in Seq(PacketIds)
      BY <1>7, TopIsFrame DEF DenyAnomalous, QuarantinePacket, TypeOK
    <3> QED BY <1>7, <3>1, <3>2, <3>3, CheckRateType, ObserveScoreType
            DEF DenyAnomalous, KnollTypeOK
  <2> QED BY <1>7, <2>1, DenyType DEF DenyAnomalous
<1>8. CASE DenyLearned
  <2>1. KnollTypeOK'
    BY <1>8, CheckRateType, ObserveScoreType
       DEF DenyLearned, Deny, KnollTypeOK, TypeOK, PacketIds
  <2> QED BY <1>8, <2>1, DenyType DEF DenyLearned
<1>9. ASSUME Allow PROVE /\ KnollTypeOK' /\ UNCHANGED <<clock, minted, begun>>
                         /\ audit' \in Seq([id : PacketIds, outcome : Outcomes, at : Nat])'
  <2>1. UNCHANGED <<clock, minted, begun, frozen, cause, quarantine>>
    BY <1>9 DEF Allow
  <2>2. KnollTypeOK'
    BY <1>9, <2>1, CheckRateType, ObserveScoreType DEF Allow, KnollTypeOK, TypeOK, PacketIds
  <2> QED BY <1>9, <2>1, <2>2, AuditType DEF Allow, Outcomes
<1>10. CASE Deliver
  <2>1. Allow /\ ledger' = ledger /\ stack' = Retag("handler")
    BY <1>10 DEF Deliver
  <2>2. stack' \in Seq(Frames) /\ \A i \in DOMAIN stack' : stack'[i].id \in PacketIds
    <3>1. /\ stack' \in Seq(Frames) /\ Len(stack') = Len(stack)
          /\ \A i \in 1..Len(stack) : stack'[i].id = stack[i].id
      BY <2>1, RetagShape
    <3>2. DOMAIN stack' = 1..Len(stack) /\ DOMAIN stack = 1..Len(stack)
      BY <3>1, LenProperties DEF TypeOK
    <3> QED BY <3>1, <3>2 DEF TypeOK
  <2> QED BY <1>9, <2>1, <2>2 DEF TypeOK, KnollTypeOK, PacketIds
<1>11. CASE FailUnhandled
  <2>1. Allow /\ Finish(Top.id, "FAILED", "ALLOW")
    BY <1>11 DEF FailUnhandled
  <2>2. /\ ledger' \in Seq([id : PacketIds \cup {NoPacket}, status : Statuses, verdict : Verdicts])'
        /\ stack' \in Seq(Frames)
        /\ \A i \in DOMAIN stack' : stack'[i].id \in PacketIds'
    BY <1>9, <2>1, FinishType, TopIsFrame DEF Statuses
  <2> QED BY <1>9, <2>1, <2>2 DEF TypeOK, KnollTypeOK, PacketIds
<1> QED BY <1>2, <1>3, <1>4, <1>5, <1>6, <1>7, <1>8, <1>10, <1>11 DEF Gate

\* A send from a handler: the sender waits below, the new packet is on top.
LEMMA SendShape ==
  ASSUME TypeOK, ~Idle, NEW p \in Packets, SendViaApex(p)
  PROVE  /\ stack' \in Seq(Frames) /\ Len(stack') = Len(stack) + 1
         /\ \A i \in 1..Len(stack) : stack'[i] = Retag("return")[i]
         /\ stack'[Len(stack) + 1] = [id |-> Len(minted) + 1, token |-> NoToken, pc |-> "gate"]
<1> DEFINE f == [id |-> Len(minted) + 1, token |-> NoToken, pc |-> "gate"]
<1>1. stack' = Append(Retag("return"), f)
  BY DEF SendViaApex
<1>2. f \in Frames
  BY TokensAssumption DEF Frames, TypeOK
<1>3. Retag("return") \in Seq(Frames) /\ Len(Retag("return")) = Len(stack)
  BY RetagShape
<1> HIDE DEF f
<1>4. /\ stack' \in Seq(Frames) /\ Len(stack') = Len(stack) + 1
      /\ \A i \in 1..Len(stack) : stack'[i] = Retag("return")[i]
      /\ stack'[Len(stack) + 1] = f
  BY <1>1, <1>2, <1>3
<1> QED BY <1>4 DEF f

LEMMA SendType ==
  ASSUME TypeOK, ~Idle, NEW p \in Packets, SendViaApex(p)
  PROVE  TypeOK'
<1>1. minted' = Append(minted, p) /\ begun' = begun + 1
      /\ UNCHANGED <<clock, ledger, audit, knollVars>>
  BY DEF SendViaApex
<1>2. stack' \in Seq(Frames) /\ Len(stack') = Len(stack) + 1
  BY SendShape
<1>3. ASSUME NEW i \in DOMAIN stack' PROVE stack'[i].id \in PacketIds'
  <2>1. i \in 1..(Len(stack) + 1) /\ stack \in Seq(Frames) /\ Len(stack) \in Nat
    BY <1>2, <1>3, LenProperties DEF TypeOK
  <2>2. CASE i \in 1..Len(stack)
    <3>1. stack'[i].id = stack[i].id
      BY <2>2, SendShape, RetagShape
    <3>2. stack[i].id \in PacketIds
      BY <2>1, <2>2, LenProperties DEF TypeOK
    <3> QED BY <1>1, <3>1, <3>2, MintShape
  <2>3. CASE i = Len(stack) + 1
    BY <1>1, <2>3, SendShape, MintShape
  <2> QED BY <2>1, <2>2, <2>3
<1>4. /\ minted' \in Seq(Packets)
      /\ ledger' \in Seq([id : PacketIds \cup {NoPacket}, status : Statuses, verdict : Verdicts])'
      /\ audit' \in Seq([id : PacketIds, outcome : Outcomes, at : Nat])'
      /\ quarantine' \in Seq(PacketIds')
      /\ cause' \in PacketIds' \cup {NoPacket}
  BY <1>1, MintShape DEF TypeOK, knollVars
<1> QED BY <1>1, <1>2, <1>3, <1>4 DEF TypeOK, knollVars

\* The packets a handler may send next: a forward of APEX goes to the layers,
\* a report of a layer goes to HOPE.
Linked(p, q) ==
  \/ p.destination = "APEX" /\ q.destination \in {"DREAM", "VISION"}
  \/ p.destination \in {"DREAM", "VISION"} /\ q.destination = "HOPE"

\* What a handler does: it sends one packet, or its dispatch returns.
LEMMA HandleShape ==
  ASSUME TypeOK, Handle
  PROVE  /\ ~Idle
         /\ \/ Top.pc = "handler" /\ \E p \in Packets : SendViaApex(p) /\ Linked(Packet, p)
            \/ /\ Finish(Top.id, "FAILED", "ALLOW") \/ Finish(Top.id, "SUCCESS", "ALLOW")
               /\ Top.pc # "gate" /\ UNCHANGED <<clock, minted, begun, audit, knollVars>>
<1>1. ~Idle
  BY DEF Handle, Forward, Report, HandlerThrows, Succeed, InHandler
<1>2. CASE Forward
  <2> DEFINE p == [Packet EXCEPT !.source = "APEX", !.destination = Packet.suggested,
                                 !.tenant = NoTenant, !.internal = TRUE]
  <2>1. /\ Packet \in Packets /\ Packet.suggested \in {"DREAM", "VISION"}
        /\ Packet.destination = "APEX"
    BY <1>1, <1>2, TopIsFrame DEF Forward, Forwards
  <2>2. p \in Packets /\ p.destination = Packet.suggested
    BY <2>1 DEF Packets, Roles, AgentRoles
  <2>3. Top.pc = "handler" /\ SendViaApex(p)
    BY <1>2 DEF Forward, InHandler
  <2> HIDE DEF p
  <2> QED BY <1>1, <2>1, <2>2, <2>3 DEF Linked
<1>3. ASSUME NEW body \in {"clean", "malicious"}, NEW content \in ReportContents,
             Report(body, content)
      PROVE  Top.pc = "handler" /\ \E p \in Packets : SendViaApex(p) /\ Linked(Packet, p)
  <2> DEFINE p == [source |-> Packet.destination, destination |-> "HOPE",
                   body |-> body, duty |-> NoDuty, suggested |-> NoRole,
                   tenant |-> NoTenant, content |-> content, internal |-> TRUE]
  <2>1. Packet.destination \in {"DREAM", "VISION"} /\ content \in Nat
    BY <1>3, ContentsAssumption DEF Report, Reports
  <2>2. p \in Packets /\ p.destination = "HOPE"
    BY <2>1 DEF Packets, Roles, AgentRoles, Bodies
  <2>3. Top.pc = "handler" /\ SendViaApex(p)
    BY <1>3 DEF Report, InHandler
  <2> HIDE DEF p
  <2> QED BY <2>1, <2>2, <2>3 DEF Linked
<1>4. CASE HandlerThrows \/ Succeed
  BY <1>1, <1>4 DEF HandlerThrows, Succeed, InHandler
<1> QED BY <1>1, <1>2, <1>3, <1>4 DEF Handle

LEMMA HandleType ==
  ASSUME TypeOK, Handle
  PROVE  TypeOK'
<1>1. CASE \E p \in Packets : SendViaApex(p)
  BY <1>1, HandleShape, SendType
<1>2. CASE /\ Finish(Top.id, "FAILED", "ALLOW") \/ Finish(Top.id, "SUCCESS", "ALLOW")
           /\ UNCHANGED <<clock, minted, begun, audit, knollVars>>
  <2>1. ~Idle /\ Top.id \in PacketIds
    BY HandleShape, TopIsFrame
  <2>2. /\ ledger' \in Seq([id : PacketIds \cup {NoPacket}, status : Statuses, verdict : Verdicts])'
        /\ stack' \in Seq(Frames)
        /\ \A i \in DOMAIN stack' : stack'[i].id \in PacketIds'
    BY <1>2, <2>1, FinishType DEF Statuses, Verdicts
  <2> QED BY <1>2, <2>2 DEF TypeOK, knollVars, PacketIds
<1> QED BY <1>1, <1>2, HandleShape

\* A call starts from an idle thread: its frame is alone on the stack.
LEMMA CallType ==
  ASSUME TypeOK, NEW id \in Nat, NEW token \in Tokens, Call(id, token)
  PROVE  /\ stack' \in Seq(Frames) /\ Len(stack') = 1 /\ DOMAIN stack' = {1}
         /\ stack'[1].id = id /\ stack'[1].token = token /\ stack'[1].pc = "gate"
<1> DEFINE f == [id |-> id, token |-> token, pc |-> "gate"]
<1>1. f \in Frames /\ f.id = id /\ f.token = token /\ f.pc = "gate"
  BY DEF Frames
<1>2. stack' = <<f>>
  BY DEF Call
<1> HIDE DEF f
<1>3. stack' \in Seq(Frames) /\ Len(stack') = 1 /\ stack'[1] = f
  BY <1>1, <1>2
<1>4. DOMAIN stack' = {1}
  BY <1>3, LenProperties
<1> QED BY <1>1, <1>3, <1>4

LEMMA EnvironmentType ==
  ASSUME TypeOK, Environment
  PROVE  TypeOK'
<1>1. ASSUME NEW p \in Arrivals, NEW token \in Tokens, Dispatch(p, token)
      PROVE  TypeOK'
  <2>1. p \in Packets /\ Len(minted) + 1 \in Nat
    BY ArrivalsAssumption DEF TypeOK
  <2>2. minted' = Append(minted, p) /\ Call(Len(minted) + 1, token)
    BY <1>1 DEF Dispatch
  <2>3. stack' \in Seq(Frames) /\ \A i \in DOMAIN stack' : stack'[i].id \in PacketIds'
    <3>1. /\ stack' \in Seq(Frames) /\ DOMAIN stack' = {1}
          /\ stack'[1].id = Len(minted) + 1
      BY <2>1, <2>2, CallType
    <3>2. Len(minted) + 1 \in PacketIds'
      BY <2>1, <2>2, MintShape
    <3> QED BY <3>1, <3>2
  <2>4. UNCHANGED <<clock, ledger, audit, knollVars>> /\ begun' = begun + 1
    BY <2>2 DEF Call
  <2>5. /\ minted' \in Seq(Packets)
        /\ ledger' \in Seq([id : PacketIds \cup {NoPacket}, status : Statuses, verdict : Verdicts])'
        /\ audit' \in Seq([id : PacketIds, outcome : Outcomes, at : Nat])'
        /\ quarantine' \in Seq(PacketIds')
        /\ cause' \in PacketIds' \cup {NoPacket}
    BY <2>1, <2>2, <2>4, MintShape DEF TypeOK, knollVars
  <2> QED BY <2>3, <2>4, <2>5 DEF TypeOK, knollVars
<1>2. ASSUME NEW id \in DOMAIN minted, NEW token \in Tokens, Redispatch(id, token)
      PROVE  TypeOK'
  <2>1. id \in PacketIds /\ id \in Nat
    BY LenProperties DEF TypeOK, PacketIds
  <2>2. minted' = minted /\ Call(id, token)
    BY <1>2 DEF Redispatch
  <2>3. stack' \in Seq(Frames) /\ \A i \in DOMAIN stack' : stack'[i].id \in PacketIds
    <3>1. stack' \in Seq(Frames) /\ DOMAIN stack' = {1} /\ stack'[1].id = id
      BY <2>1, <2>2, CallType
    <3> QED BY <2>1, <3>1
  <2>4. UNCHANGED <<clock, ledger, audit, knollVars>> /\ begun' = begun + 1
    BY <2>2 DEF Call
  <2> QED BY <2>2, <2>3, <2>4 DEF TypeOK, knollVars, PacketIds
<1>3. CASE \E token \in Tokens : Unfreeze(token)
  BY <1>3 DEF Unfreeze, ClearFreeze, TypeOK, PacketIds
<1>4. CASE SovereignFreeze
  BY <1>4 DEF SovereignFreeze, TriggerFreeze, TypeOK, PacketIds
<1>5. CASE Tick
  BY <1>5 DEF Tick, TypeOK, knollVars, PacketIds
<1> QED BY <1>1, <1>2, <1>3, <1>4, <1>5 DEF Environment

\* Every variable keeps its type, for every instance.
THEOREM TypeCorrect == Spec => []TypeOK
<1>1. Init => TypeOK
  <2> SUFFICES ASSUME Init PROVE TypeOK
    OBVIOUS
  <2>1. \A S : <<>> \in Seq(S)
    BY EmptySeq
  <2>2. DOMAIN stack = {}
    BY LenProperties, EmptySeq DEF Init
  <2>3. buckets \in [Roles -> [start : Nat, count : Nat]]
    BY DEF Init, NoBucket
  <2> QED BY <2>1, <2>2, <2>3 DEF Init, TypeOK
<1>2. TypeOK /\ [Next]_vars => TypeOK'
  <2>1. ASSUME TypeOK, UNCHANGED vars PROVE TypeOK'
    BY <2>1 DEF vars, knollVars, TypeOK, PacketIds
  <2> QED BY <2>1, GateType, HandleType, EnvironmentType DEF Next
<1> QED BY <1>1, <1>2, PTL DEF Spec

-----------------------------------------------------------------------------
(* What a step can do to the stack. *)

Returned == ~Idle /\ stack' = Rest /\ minted' = minted /\ begun' = begun
            /\ \E row : ledger' = Append(ledger, row)
Entered  == ~Idle /\ Deliver
Sent(p)  == ~Idle /\ Top.pc = "handler" /\ SendViaApex(p) /\ Linked(Packet, p)
Called   == \E id \in Nat, token \in Tokens :
              Call(id, token) /\ (minted' = minted \/ \E p \in Packets : minted' = Append(minted, p))

\* Every step leaves the stack alone, returns, enters a handler, sends from
\* one, or starts a caller's dispatch.
LEMMA StackStep ==
  ASSUME TypeOK, [Next]_vars
  PROVE  \/ stack' = stack /\ minted' = minted /\ ledger' = ledger /\ begun' = begun
         \/ Returned \/ Entered \/ (\E p \in Packets : Sent(p)) \/ Called
<1>1. CASE UNCHANGED vars
  BY <1>1 DEF vars
<1>2. CASE Gate
  <2>1. ~Idle
    BY <1>2 DEF Gate, AtGate, RefuseGarbage, RefuseFrozen, DenyTampered, DenyRate, DenyLaw,
           DenyAnomalous, DenyLearned, Deliver, FailUnhandled, Allow, Lawful, WithinRate,
           Intercepted
  <2>2. Deliver \/ \E id, st, v : Finish(id, st, v) /\ UNCHANGED <<minted, begun>>
    BY <1>2 DEF Gate, RefuseGarbage, RefuseFrozen, DenyTampered, DenyRate, DenyLaw,
           DenyAnomalous, DenyLearned, FailUnhandled, Allow, Deny
  <2> QED BY <2>1, <2>2 DEF Returned, Entered, Finish
<1>3. CASE Handle
  <2>1. CASE Top.pc = "handler" /\ \E p \in Packets : SendViaApex(p) /\ Linked(Packet, p)
    BY <1>3, <2>1, HandleShape DEF Sent
  <2>2. CASE /\ Finish(Top.id, "FAILED", "ALLOW") \/ Finish(Top.id, "SUCCESS", "ALLOW")
             /\ UNCHANGED <<minted, begun>>
    BY <1>3, <2>2, HandleShape DEF Returned, Finish
  <2> QED BY <1>3, <2>1, <2>2, HandleShape
<1>4. ASSUME NEW p \in Arrivals, NEW token \in Tokens, Dispatch(p, token)
      PROVE  Called
  <2>1. p \in Packets /\ Len(minted) + 1 \in Nat
    BY ArrivalsAssumption DEF TypeOK
  <2> QED BY <1>4, <2>1 DEF Dispatch, Called
<1>5. ASSUME NEW id \in DOMAIN minted, NEW token \in Tokens, Redispatch(id, token)
      PROVE  Called
  <2>1. id \in Nat
    BY LenProperties DEF TypeOK
  <2> QED BY <1>5, <2>1 DEF Redispatch, Called
<1>6. CASE (\E token \in Tokens : Unfreeze(token)) \/ SovereignFreeze \/ Tick
  BY <1>6 DEF Unfreeze, SovereignFreeze, Tick
<1> QED BY <1>1, <1>2, <1>3, <1>4, <1>5, <1>6 DEF Next, Environment

\* "Always: write a ledger entry": every dispatch, nested or not, leaves exactly
\* one row, on every way out of gatedDispatch and its handlers.
THEOREM EveryDispatchBilledOnce == Spec => []OneRowPerDispatch
<1>1. Init => OneRowPerDispatch
  BY EmptySeq DEF Init, OneRowPerDispatch
<1>2. TypeOK /\ TypeOK' /\ OneRowPerDispatch /\ [Next]_vars => OneRowPerDispatch'
  <2> SUFFICES ASSUME TypeOK, TypeOK', OneRowPerDispatch, [Next]_vars
               PROVE  OneRowPerDispatch'
    OBVIOUS
  <2>1. Len(ledger) \in Nat /\ Len(stack) \in Nat /\ begun \in Nat
    BY LenProperties DEF TypeOK
  <2>2. CASE stack' = stack /\ ledger' = ledger /\ begun' = begun
    BY <2>2 DEF OneRowPerDispatch
  <2>3. CASE Returned
    <3>1. Len(ledger') = Len(ledger) + 1
      BY <2>3 DEF Returned, TypeOK
    <3>2. Len(stack') = Len(stack) - 1 /\ begun' = begun
      BY <2>3, PopShape DEF Returned
    <3> QED BY <2>1, <3>1, <3>2 DEF OneRowPerDispatch
  <2>4. CASE Entered
    <3>1. Len(stack') = Len(stack)
      BY <2>4, RetagShape DEF Entered, Deliver
    <3>2. ledger' = ledger /\ begun' = begun
      BY <2>4 DEF Entered, Deliver, Allow
    <3> QED BY <3>1, <3>2 DEF OneRowPerDispatch
  <2>5. ASSUME NEW p \in Packets, Sent(p) PROVE OneRowPerDispatch'
    <3>1. Len(stack') = Len(stack) + 1
      BY <2>5, SendShape DEF Sent
    <3>2. ledger' = ledger /\ begun' = begun + 1
      BY <2>5 DEF Sent, SendViaApex
    <3> QED BY <2>1, <3>1, <3>2 DEF OneRowPerDispatch
  <2>6. CASE Called
    <3>1. PICK id \in Nat, token \in Tokens : Call(id, token)
      BY <2>6 DEF Called
    <3>2. Len(stack') = 1
      BY <3>1, CallType
    <3>3. Len(stack) = 0 /\ ledger' = ledger /\ begun' = begun + 1
      BY <3>1, EmptySeq DEF Call, Idle
    <3> QED BY <2>1, <3>2, <3>3 DEF OneRowPerDispatch
  <2> QED BY <2>2, <2>3, <2>4, <2>5, <2>6, StackStep
<1> QED BY <1>1, <1>2, TypeCorrect, PTL DEF Spec

-----------------------------------------------------------------------------
(* The chain of handlers. *)

\* A frame above the outermost one carries no override token, and its packet is
\* one the handler below it may send.
ChainInv ==
  \A i \in 1..Len(stack) : i > 1 =>
    /\ stack[i].token = NoToken
    /\ Linked(minted[stack[i - 1].id], minted[stack[i].id])

\* Packets never change, so a frame keeps its packet.
LEMMA FramePacketKept ==
  ASSUME TypeOK, NEW p \in Packets, minted' = minted \/ minted' = Append(minted, p),
         NEW i \in 1..Len(stack)
  PROVE  /\ stack[i].id \in PacketIds /\ minted[stack[i].id] \in Packets
         /\ minted'[stack[i].id] = minted[stack[i].id]
<1>1. stack[i].id \in PacketIds
  BY LenProperties DEF TypeOK
<1>2. minted[stack[i].id] \in Packets
  BY <1>1, ElementOfSeq DEF PacketIds, TypeOK
<1> QED BY <1>1, <1>2, MintShape

LEMMA ChainStep ==
  ASSUME TypeOK, ChainInv, [Next]_vars
  PROVE  ChainInv'
<1>1. CASE stack' = stack /\ minted' = minted
  BY <1>1 DEF ChainInv
<1>2. CASE Returned
  <2>1. stack' = Rest /\ minted' = minted /\ Len(stack) \in Nat
        /\ Len(Rest) = Len(stack) - 1
        /\ \A i \in 1..Len(Rest) : i \in 1..Len(stack) /\ Rest[i] = stack[i]
    BY <1>2, PopShape, TopIsFrame DEF Returned
  <2>2. ASSUME NEW i \in 1..Len(Rest), i > 1
        PROVE  i - 1 \in 1..Len(Rest)
    BY <2>1, <2>2
  <2> QED BY <2>1, <2>2 DEF ChainInv
<1>3. CASE Entered
  <2>1. stack' = Retag("handler") /\ minted' = minted /\ ~Idle /\ Len(stack) \in Nat
    BY <1>3, TopIsFrame DEF Entered, Deliver, Allow
  <2>2. /\ Len(stack') = Len(stack)
        /\ \A i \in 1..Len(stack) : /\ stack'[i].id = stack[i].id
                                    /\ stack'[i].token = stack[i].token
    BY <2>1, RetagShape
  <2>3. ASSUME NEW i \in 1..Len(stack), i > 1
        PROVE  i - 1 \in 1..Len(stack)
    BY <2>1, <2>3
  <2> QED BY <2>1, <2>2, <2>3 DEF ChainInv
<1>4. ASSUME NEW p \in Packets, Sent(p) PROVE ChainInv'
  <2> DEFINE n == Len(stack)
  <2>1. ~Idle /\ minted' = Append(minted, p) /\ n \in Nat \ {0} /\ Linked(Packet, p)
    BY <1>4, TopIsFrame DEF Sent, SendViaApex
  <2>2. /\ Len(stack') = n + 1
        /\ stack'[n + 1].id = Len(minted) + 1 /\ stack'[n + 1].token = NoToken
        /\ \A i \in 1..n : stack'[i].id = stack[i].id /\ stack'[i].token = stack[i].token
    BY <1>4, <2>1, SendShape, RetagShape DEF Sent
  <2>3. \A i \in 1..n : minted'[stack'[i].id] = minted[stack[i].id]
    BY <2>1, <2>2, FramePacketKept
  <2>4. Linked(minted'[stack'[n].id], minted'[stack'[n + 1].id])
    <3>1. minted'[stack'[n + 1].id] = p
      <4>1. minted'[Len(minted) + 1] = p
        BY <2>1, MintShape
      <4> QED BY <2>2, <4>1
    <3>2. minted'[stack'[n].id] = Packet
      <4>1. n \in 1..n
        BY <2>1
      <4> QED BY <2>3, <4>1 DEF Packet, Top
    <3> QED BY <2>1, <3>1, <3>2
  <2> HIDE DEF n
  <2>5. ASSUME NEW i \in 1..(n + 1), i > 1
        PROVE  /\ stack'[i].token = NoToken
               /\ Linked(minted'[stack'[i - 1].id], minted'[stack'[i].id])
    <3>1. CASE i \in 1..n
      <4>1. i - 1 \in 1..n
        BY <2>1, <2>5, <3>1
      <4>2. stack[i].token = NoToken /\ Linked(minted[stack[i - 1].id], minted[stack[i].id])
        BY <2>5, <3>1 DEF ChainInv, n
      <4> QED BY <2>2, <2>3, <3>1, <4>1, <4>2
    <3>2. CASE i = n + 1
      <4>1. i - 1 = n
        BY <2>1, <3>2
      <4>2. stack'[i].token = NoToken
        BY <2>2, <3>2
      <4>3. Linked(minted'[stack'[i - 1].id], minted'[stack'[i].id])
        BY <2>4, <3>2, <4>1
      <4> QED BY <4>2, <4>3
    <3>3. i \in 1..n \/ i = n + 1
      BY <2>1, <2>5
    <3> QED BY <3>1, <3>2, <3>3
  <2> QED BY <2>2, <2>5 DEF ChainInv, Linked
<1>5. CASE Called
  <2>1. PICK id \in Nat, token \in Tokens : Call(id, token)
    BY <1>5 DEF Called
  <2>2. Len(stack') = 1
    BY <2>1, CallType
  <2> QED BY <2>2 DEF ChainInv
<1> QED BY <1>1, <1>2, <1>3, <1>4, <1>5, StackStep

LEMMA ChainAlways == Spec => []ChainInv
<1>1. Init => ChainInv
  BY EmptySeq DEF Init, ChainInv
<1>2. TypeOK /\ ChainInv /\ [Next]_vars => ChainInv'
  BY ChainStep
<1> QED BY <1>1, <1>2, TypeCorrect, PTL DEF Spec

\* The chain inside one dispatch is at most APEX, one layer, HOPE: DREAM and
\* VISION never run inside each other and sendViaApex does not recurse further.
THEOREM LayersStayApart == Spec => []LayersNeverNest
<1>1. TypeOK /\ ChainInv => LayersNeverNest
  <2> SUFFICES ASSUME TypeOK, ChainInv PROVE LayersNeverNest
    OBVIOUS
  <2> DEFINE d(i) == minted[stack[i].id].destination
  <2>1. DOMAIN stack = 1..Len(stack) /\ Len(stack) \in Nat
    BY LenProperties DEF TypeOK
  <2>2. \A i \in 1..Len(stack) : i > 1 =>
          \/ d(i - 1) = "APEX" /\ d(i) \in {"DREAM", "VISION"}
          \/ d(i - 1) \in {"DREAM", "VISION"} /\ d(i) = "HOPE"
    BY DEF ChainInv, Linked
  <2> HIDE DEF d
  <2>3. Len(stack) <= 3
    <3> SUFFICES ASSUME Len(stack) > 3 PROVE FALSE
      BY <2>1
    <3>1. {2, 3, 4} \subseteq 1..Len(stack)
      BY <2>1
    <3>2. d(2) \in {"DREAM", "VISION", "HOPE"} /\ d(3) \in {"DREAM", "VISION", "HOPE"}
      BY <2>2, <3>1
    <3>3. d(3) = "HOPE"
      BY <2>2, <3>1, <3>2
    <3>4. d(3) # "HOPE"
      BY <2>2, <3>1
    <3> QED BY <3>3, <3>4
  <2>4. ASSUME NEW i \in 1..Len(stack), NEW j \in 1..Len(stack), i < j,
               d(i) \in {"DREAM", "VISION"}
        PROVE  d(j) \notin {"DREAM", "VISION"}
    <3>1. i \in 1..2 /\ i + 1 \in 1..Len(stack) /\ d(i + 1) = "HOPE"
      BY <2>1, <2>2, <2>3, <2>4
    <3>2. i + 2 \notin 1..Len(stack)
      BY <2>1, <2>2, <3>1
    <3>3. j = i + 1
      BY <2>1, <2>4, <3>1, <3>2
    <3> QED BY <3>1, <3>3
  <2>5. ASSUME NEW i \in 1..Len(stack), NEW j \in 1..Len(stack),
               {Dest(stack[i]), Dest(stack[j])} \subseteq {"DREAM", "VISION"}
        PROVE  i = j
    BY <2>1, <2>4, <2>5 DEF Dest, d
  <2> QED BY <2>1, <2>3, <2>5 DEF LayersNeverNest
<1> QED BY <1>1, TypeCorrect, ChainAlways, PTL

\* While frozen no handler is entered, except for the outermost dispatch of a
\* caller with a recognized override; nothing a handler sends inherits it.
THEOREM FreezeStopsRouting == Spec => NoDeliveryWhileFrozen
<1> DEFINE A == frozen => \A i \in DOMAIN stack' :
         Delivered(stack'[i]) /\ (i \in DOMAIN stack => ~Delivered(stack[i]))
           => i = 1 /\ stack'[i].token \in Recognized
<1>1. TypeOK /\ TypeOK' /\ ChainInv /\ [Next]_vars => A
  <2> SUFFICES ASSUME TypeOK, TypeOK', ChainInv, [Next]_vars, frozen,
                      NEW i \in DOMAIN stack', stack'[i].pc # "gate",
                      i \in DOMAIN stack => stack[i].pc = "gate"
               PROVE  i = 1 /\ stack'[i].token \in Recognized
    BY DEF Delivered
  <2>1. DOMAIN stack = 1..Len(stack) /\ DOMAIN stack' = 1..Len(stack') /\ Len(stack) \in Nat
    BY LenProperties DEF TypeOK
  <2>2. stack' # stack
    OBVIOUS
  <2>3. ~Returned
    BY <2>1, PopShape DEF Returned
  <2>4. CASE Entered
    <3>1. stack' = Retag("handler") /\ ~Idle /\ Top.token \in Recognized
      BY <2>4 DEF Entered, Deliver, Allow, Lawful, WithinRate, Intercepted
    <3>2. i = Len(stack)
      BY <2>1, <3>1, RetagShape
    <3>3. stack'[i].token \in Recognized /\ stack[i].token \in Recognized
      BY <2>1, <3>1, <3>2, RetagShape DEF Top
    <3>4. i = 1
      BY <2>1, <3>2, <3>3, TokensAssumption DEF ChainInv
    <3> QED BY <3>3, <3>4
  <2>5. ASSUME NEW p \in Packets, Sent(p) PROVE FALSE
    <3>1. ~Idle /\ Top.pc = "handler" /\ Len(stack) \in Nat \ {0}
      BY <2>5, TopIsFrame DEF Sent
    <3>2. /\ Len(stack') = Len(stack) + 1 /\ stack'[Len(stack) + 1].pc = "gate"
          /\ \A k \in 1..(Len(stack) - 1) : stack'[k] = stack[k]
      BY <2>5, <3>1, SendShape, RetagShape DEF Sent
    <3>3. i = Len(stack)
      BY <2>1, <3>1, <3>2
    <3> QED BY <2>1, <3>1, <3>3 DEF Top
  <2>6. ~Called
    BY CallType DEF Called
  <2> QED BY <2>2, <2>3, <2>4, <2>5, <2>6, StackStep
<1> QED BY <1>1, TypeCorrect, ChainAlways, PTL DEF Spec, NoDeliveryWhileFrozen

\* "The FIRST trigger wins": while the freeze lasts its cause stands, no running
\* dispatch can lift it, and lifting it releases nothing from quarantine.
THEOREM FirstTriggerWins == Spec => FreezeHeld
<1> DEFINE A == frozen => IF frozen' THEN cause' = cause ELSE Idle /\ quarantine' = quarantine
<1>1. TypeOK /\ [Next]_vars => A
  <2> SUFFICES ASSUME TypeOK, [Next]_vars, frozen PROVE A
    OBVIOUS
  <2>1. CASE UNCHANGED vars
    BY <2>1 DEF vars, knollVars, TypeOK
  <2>2. CASE Gate
    BY <2>2 DEF Gate, RefuseGarbage, RefuseFrozen, DenyTampered, DenyRate, DenyLaw,
           DenyAnomalous, DenyLearned, Deliver, FailUnhandled, Allow, TriggerFreeze, knollVars
  <2>3. CASE Handle
    BY <2>3 DEF Handle, Forward, Report, SendViaApex, HandlerThrows, Succeed, knollVars
  <2>4. CASE Environment
    BY <2>4 DEF Environment, Dispatch, Redispatch, Call, Unfreeze, SovereignFreeze,
           ClearFreeze, TriggerFreeze, Tick, knollVars
  <2> QED BY <2>1, <2>2, <2>3, <2>4 DEF Next
<1> QED BY <1>1, TypeCorrect, PTL DEF Spec, FreezeHeld

-----------------------------------------------------------------------------
(* What passed the gate. *)

\* What the gate establishes of the packet it lets through.
LawfulPacket(p) ==
  /\ p.body \in {"clean", "emptyIntent"}
  /\ p.source # "KNOLL" /\ p.destination \in Handlers
  /\ p.destination \in {"DREAM", "VISION"} => p.source = "APEX"
  /\ p.destination \in PrimaryTriad => p.duty \in {NoDuty, RoleDuty[p.destination]}

\* The eight laws, the hash and the shape together exclude every other source
\* for the layers and every forbidden duty.
LEMMA GateMakesLawful ==
  ASSUME NEW p \in Packets, IsRoutingPacket(p), HashMatches(p),
         VirtualLawsHold(p, NoTenant), p.destination \in Handlers
  PROVE  LawfulPacket(p)
<1>1. p.body \in {"clean", "emptyIntent"}
  BY DEF IsRoutingPacket, HashMatches, VirtualLawsHold, LawTokenWellFormed,
         LawNoMaliciousIntent, Packets, Bodies
<1>2. p.source # "KNOLL"
  BY DEF VirtualLawsHold, LawNoKnollForgery
<1>3. p.destination \in {"DREAM", "VISION"} => p.source = "APEX"
  BY <1>2 DEF VirtualLawsHold, LawValidEndpoints, LawNoDirectDreamVision,
              LawHopeCannotCommand, AgentRoles
<1>4. p.destination \in PrimaryTriad => p.duty \in {NoDuty, RoleDuty[p.destination]}
  BY DEF VirtualLawsHold, LawPrimaryTriadDuty, Forbidden, Packets
<1> QED BY <1>1, <1>2, <1>3, <1>4 DEF LawfulPacket

\* However deep a dispatch is nested, a handler runs only on an intact packet
\* that KNOLL did not originate, the layers are reached from APEX alone, and a
\* triad role is asked for no duty but its own.
THEOREM OnlyLawfulDelivered == Spec => []DeliveredIsLawful
<1> DEFINE I == \A i \in 1..Len(stack) : Delivered(stack[i]) => LawfulPacket(minted[stack[i].id])
<1>1. Init => I
  BY EmptySeq DEF Init
<1>2. TypeOK /\ I /\ [Next]_vars => I'
  <2> SUFFICES ASSUME TypeOK, I, [Next]_vars PROVE I'
    OBVIOUS
  <2>1. CASE stack' = stack /\ minted' = minted
    BY <2>1 DEF Delivered
  <2>2. CASE Returned
    BY <2>2, PopShape DEF Returned, Delivered
  <2>3. CASE Entered
    <3>1. stack' = Retag("handler") /\ minted' = minted /\ ~Idle
      BY <2>3 DEF Entered, Deliver, Allow
    <3>2. /\ Len(stack') = Len(stack) /\ Len(stack) \in Nat \ {0}
          /\ \A i \in 1..Len(stack) : stack'[i].id = stack[i].id
          /\ \A i \in 1..(Len(stack) - 1) : stack'[i] = stack[i]
      BY <3>1, RetagShape, TopIsFrame
    <3>3. LawfulPacket(Packet)
      BY <2>3, <3>1, TopIsFrame, GateMakesLawful
         DEF Entered, Deliver, Allow, Lawful, WithinRate, Intercepted
    <3>4. ASSUME NEW i \in 1..Len(stack), Delivered(stack'[i])
          PROVE  LawfulPacket(minted[stack'[i].id])
      <4>1. CASE i = Len(stack)
        BY <3>2, <3>3, <4>1 DEF Packet, Top
      <4>2. CASE i \in 1..(Len(stack) - 1)
        BY <3>2, <3>4, <4>2
      <4> QED BY <3>2, <4>1, <4>2
    <3> QED BY <3>1, <3>2, <3>4 DEF Delivered
  <2>4. ASSUME NEW p \in Packets, Sent(p) PROVE I'
    <3> DEFINE n == Len(stack)
    <3>1. ~Idle /\ minted' = Append(minted, p) /\ n \in Nat \ {0} /\ Top.pc = "handler"
      BY <2>4, TopIsFrame DEF Sent, SendViaApex
    <3>2. /\ Len(stack') = n + 1 /\ stack'[n + 1].pc = "gate"
          /\ \A i \in 1..n : stack'[i].id = stack[i].id
          /\ \A i \in 1..(n - 1) : stack'[i] = stack[i]
      BY <2>4, <3>1, SendShape, RetagShape DEF Sent
    <3>3. \A i \in 1..n : minted'[stack'[i].id] = minted[stack[i].id]
      BY <3>1, <3>2, FramePacketKept
    <3>4. Delivered(stack[n])
      BY <3>1 DEF Delivered, Top
    <3> HIDE DEF n
    <3>5. ASSUME NEW i \in 1..(n + 1), Delivered(stack'[i])
          PROVE  LawfulPacket(minted'[stack'[i].id])
      <4>1. i # n + 1
        BY <3>2, <3>5 DEF Delivered
      <4>2. i \in 1..n /\ Delivered(stack[i])
        BY <3>1, <3>2, <3>4, <3>5, <4>1
      <4> QED BY <3>3, <4>2 DEF n
    <3> QED BY <3>2, <3>5 DEF Delivered, LawfulPacket
  <2>5. CASE Called
    <3>1. PICK id \in Nat, token \in Tokens : Call(id, token)
      BY <2>5 DEF Called
    <3> QED BY <3>1, CallType DEF Delivered
  <2> QED BY <2>1, <2>2, <2>3, <2>4, <2>5, StackStep
<1>3. TypeOK /\ I => DeliveredIsLawful
  BY LenProperties DEF TypeOK, DeliveredIsLawful, LawfulPacket
<1> QED BY <1>1, <1>2, <1>3, TypeCorrect, PTL DEF Spec

-----------------------------------------------------------------------------
(* Counting in a sequence. *)

Where(s, S) == {i \in DOMAIN s : s[i] \in S}
Number(s, S) == Cardinality(Where(s, S))

LEMMA NumberIsNat ==
  ASSUME NEW T, NEW s \in Seq(T), NEW S
  PROVE  IsFiniteSet(Where(s, S)) /\ Number(s, S) \in Nat /\ (Where(s, S) = {} => Number(s, S) = 0)
<1>1. DOMAIN s = 1..Len(s) /\ Len(s) \in Nat
  BY LenProperties
<1>2. IsFiniteSet(1..Len(s))
  BY <1>1, FS_Interval
<1>3. Where(s, S) \in SUBSET (1..Len(s))
  BY <1>1 DEF Where
<1>4. IsFiniteSet(Where(s, S))
  BY <1>2, <1>3, FS_Subset
<1> QED BY <1>4, FS_CardinalityType, FS_EmptySet DEF Number

LEMMA NumberNone ==
  ASSUME NEW s, NEW S, \A i \in DOMAIN s : s[i] \notin S
  PROVE  Number(s, S) = 0
<1>1. Where(s, S) = {}
  BY DEF Where
<1> QED BY <1>1, FS_EmptySet DEF Number

LEMMA NumberSame ==
  ASSUME NEW s, NEW t, NEW S, NEW R, DOMAIN s = DOMAIN t,
         \A i \in DOMAIN s : s[i] \in S <=> t[i] \in R
  PROVE  Number(s, S) = Number(t, R)
<1>1. Where(s, S) = Where(t, R)
  BY DEF Where
<1> QED BY <1>1 DEF Number

\* One element more at the end, whatever it is; the others count as before.
LEMMA NumberLonger ==
  ASSUME NEW T, NEW s \in Seq(T), NEW t \in Seq(T), NEW S, NEW R, Len(t) = Len(s) + 1,
         \A i \in 1..Len(s) : t[i] \in S <=> s[i] \in R
  PROVE  Number(t, S) = Number(s, R) + (IF t[Len(t)] \in S THEN 1 ELSE 0)
<1> DEFINE n == Len(s)
<1>1. DOMAIN s = 1..n /\ DOMAIN t = 1..(n + 1) /\ n \in Nat /\ Len(t) = n + 1
  BY LenProperties
<1>2. IsFiniteSet(Where(s, R)) /\ n + 1 \notin Where(s, R) /\ Number(s, R) \in Nat
  <2>1. IsFiniteSet(Where(s, R)) /\ Number(s, R) \in Nat
    BY NumberIsNat
  <2>2. n + 1 \notin Where(s, R)
    BY <1>1 DEF Where
  <2> QED BY <2>1, <2>2
<1> HIDE DEF n
<1>3. \A i \in 1..n : t[i] \in S <=> s[i] \in R
  BY DEF n
<1>4. 1..(n + 1) = (1..n) \cup {n + 1}
  BY <1>1
<1>5. CASE t[n + 1] \in S
  <2>1. Where(t, S) = Where(s, R) \cup {n + 1}
    BY <1>1, <1>3, <1>4, <1>5 DEF Where
  <2> QED BY <1>1, <1>2, <1>5, <2>1, FS_AddElement DEF Number
<1>6. CASE t[n + 1] \notin S
  <2>1. Where(t, S) = Where(s, R)
    BY <1>1, <1>3, <1>4, <1>6 DEF Where
  <2> QED BY <1>1, <1>2, <1>6, <2>1 DEF Number
<1> QED BY <1>5, <1>6

LEMMA NumberGrown ==
  ASSUME NEW T, NEW s \in Seq(T), NEW x \in T, NEW S, NEW R,
         \A i \in 1..Len(s) : s[i] \in S <=> s[i] \in R
  PROVE  /\ Append(s, x) \in Seq(T) /\ Number(s, R) \in Nat
         /\ Number(Append(s, x), S) = Number(s, R) + (IF x \in S THEN 1 ELSE 0)
<1> DEFINE t == Append(s, x)
<1>1. t \in Seq(T) /\ Len(t) = Len(s) + 1 /\ t[Len(s) + 1] = x /\ \A i \in 1..Len(s) : t[i] = s[i]
  OBVIOUS
<1> HIDE DEF t
<1>2. Number(t, S) = Number(s, R) + (IF t[Len(t)] \in S THEN 1 ELSE 0)
  BY <1>1, NumberLonger
<1> QED BY <1>1, <1>2, NumberIsNat DEF t

LEMMA NumberAppended ==
  ASSUME NEW T, NEW s \in Seq(T), NEW x \in T, NEW S
  PROVE  /\ Append(s, x) \in Seq(T) /\ Number(s, S) \in Nat
         /\ Number(Append(s, x), S) = Number(s, S) + (IF x \in S THEN 1 ELSE 0)
BY NumberGrown

-----------------------------------------------------------------------------
(* KNOLL's audit and APEX's ledger. *)

Rows == [id : PacketIds \cup {NoPacket}, status : Statuses, verdict : Verdicts]
Entries == [id : PacketIds, outcome : Outcomes, at : Nat]

Allowed(id) == [id : {id}, outcome : {"ALLOWED"}, at : Nat]
Denied(id) == [id : {id}, outcome : {"BLOCKED"}, at : Nat]
Passed(id) == [id : {id}, status : Statuses \ {"BLOCKED"}, verdict : Verdicts]
Refused(id) == [id : {id}, status : {"BLOCKED"}, verdict : Verdicts \ {"SYSTEM_FREEZE"}]
Running(id) == [id : {id}, token : Tokens, pc : {"handler", "return"}]

Balanced(id) ==
  /\ Number(audit, Allowed(id)) = Number(ledger, Passed(id)) + Number(stack, Running(id))
  /\ Number(audit, Denied(id)) = Number(ledger, Refused(id))
AllBalanced == \A id \in PacketIds : Balanced(id)

\* The property counts what the sets of the right shape hold.
LEMMA BalancedIsMatching ==
  ASSUME TypeOK
  PROVE  AuditMatchesLedger <=> AllBalanced
<1> SUFFICES ASSUME NEW id \in PacketIds
             PROVE  /\ Count(audit, LAMBDA a : a.id = id /\ a.outcome = "ALLOWED")
                         = Number(audit, Allowed(id))
                    /\ Count(ledger, LAMBDA r : r.id = id /\ r.status # "BLOCKED")
                         = Number(ledger, Passed(id))
                    /\ Count(stack, LAMBDA f : f.id = id /\ Delivered(f))
                         = Number(stack, Running(id))
                    /\ Count(audit, LAMBDA a : a.id = id /\ a.outcome = "BLOCKED")
                         = Number(audit, Denied(id))
                    /\ Count(ledger, LAMBDA r : r.id = id /\ r.status = "BLOCKED"
                                                  /\ r.verdict # "SYSTEM_FREEZE")
                         = Number(ledger, Refused(id))
  BY DEF AuditMatchesLedger, AllBalanced, Balanced
<1>1. audit \in Seq(Entries) /\ ledger \in Seq(Rows) /\ stack \in Seq(Frames)
  BY DEF TypeOK, Entries, Rows
<1>2. ASSUME NEW i \in DOMAIN audit
      PROVE  /\ audit[i] \in Allowed(id) <=> audit[i].id = id /\ audit[i].outcome = "ALLOWED"
             /\ audit[i] \in Denied(id) <=> audit[i].id = id /\ audit[i].outcome = "BLOCKED"
  <2>1. audit[i] \in Entries
    BY <1>1
  <2> QED BY <2>1 DEF Entries, Allowed, Denied
<1>3. ASSUME NEW i \in DOMAIN ledger
      PROVE  /\ ledger[i] \in Passed(id) <=> ledger[i].id = id /\ ledger[i].status # "BLOCKED"
             /\ ledger[i] \in Refused(id) <=> /\ ledger[i].id = id /\ ledger[i].status = "BLOCKED"
                                              /\ ledger[i].verdict # "SYSTEM_FREEZE"
  <2>1. ledger[i] \in Rows
    BY <1>1
  <2> QED BY <2>1 DEF Rows, Passed, Refused
<1>4. ASSUME NEW i \in DOMAIN stack
      PROVE  stack[i] \in Running(id) <=> stack[i].id = id /\ Delivered(stack[i])
  <2>1. stack[i] \in Frames
    BY <1>1
  <2> QED BY <2>1 DEF Frames, Running, Delivered
<1> QED BY <1>2, <1>3, <1>4 DEF Count, Number, Where

\* A dispatch that returns gives the ledger the row that its running frame, or
\* the verdict just recorded, stands for.
LEMMA BalancedAfterFinish ==
  ASSUME TypeOK, ~Idle, minted' = minted, NEW id \in PacketIds, Balanced(id),
         NEW rid \in PacketIds \cup {NoPacket}, NEW st \in Statuses, NEW v \in Verdicts,
         Finish(rid, st, v),
         \/ /\ audit' = audit /\ rid = Top.id /\ st # "BLOCKED" /\ Top.pc # "gate"
         \/ /\ audit' = audit /\ Top.pc = "gate" /\ st = "BLOCKED"
            /\ rid = NoPacket \/ v = "SYSTEM_FREEZE"
         \/ /\ audit' = Append(audit, Audited(Top.id, "BLOCKED")) /\ Top.pc = "gate"
            /\ rid = Top.id /\ st = "BLOCKED" /\ v # "SYSTEM_FREEZE"
         \/ /\ audit' = Append(audit, Audited(Top.id, "ALLOWED")) /\ Top.pc = "gate"
            /\ rid = Top.id /\ st # "BLOCKED"
  PROVE  Balanced(id)'
<1>1. /\ audit \in Seq(Entries) /\ ledger \in Seq(Rows) /\ stack \in Seq(Frames)
      /\ Top \in Frames /\ Top.id \in PacketIds /\ id \in Nat \ {0}
  BY TopIsFrame, LenProperties DEF TypeOK, Entries, Rows, PacketIds
<1> DEFINE row == Row(rid, st, v)
           up(o) == Audited(Top.id, o)
           x == IF row \in Passed(id) THEN 1 ELSE 0
           y == IF row \in Refused(id) THEN 1 ELSE 0
           z == IF Top \in Running(id) THEN 1 ELSE 0
<1>2. row \in Rows /\ (\A o \in Outcomes : up(o) \in Entries)
  BY <1>1 DEF Row, Rows, Audited, Entries, TypeOK
<1>3. /\ row \in Passed(id) <=> rid = id /\ st # "BLOCKED"
      /\ row \in Refused(id) <=> rid = id /\ st = "BLOCKED" /\ v # "SYSTEM_FREEZE"
      /\ Top \in Running(id) <=> Top.id = id /\ Top.pc # "gate"
  BY <1>1 DEF Row, Passed, Refused, Running, Frames
<1>4. /\ \A o \in Outcomes : up(o) \in Allowed(id) <=> Top.id = id /\ o = "ALLOWED"
      /\ \A o \in Outcomes : up(o) \in Denied(id) <=> Top.id = id /\ o = "BLOCKED"
  BY DEF Audited, Allowed, Denied, Outcomes, TypeOK
<1>5. ledger' = Append(ledger, row) /\ stack' = Rest
  BY DEF Finish
<1> HIDE DEF row, up
<1>6. /\ Number(ledger', Passed(id)) = Number(ledger, Passed(id)) + x
      /\ Number(ledger', Refused(id)) = Number(ledger, Refused(id)) + y
      /\ Number(ledger, Passed(id)) \in Nat /\ Number(ledger, Refused(id)) \in Nat
  BY <1>1, <1>2, <1>5, NumberAppended
<1>7. Number(stack, Running(id)) = Number(stack', Running(id)) + z
      /\ Number(stack', Running(id)) \in Nat
  <2>1. /\ stack \in Seq(Frames) /\ Rest \in Seq(Frames) /\ Len(stack) = Len(Rest) + 1
        /\ \A i \in 1..Len(Rest) : stack[i] = Rest[i]
    <3>1. Len(stack) \in Nat \ {0} /\ Rest \in Seq(Frames) /\ Len(Rest) = Len(stack) - 1
      BY PopShape, TopIsFrame
    <3>2. \A i \in 1..Len(Rest) : stack[i] = Rest[i]
      BY PopShape
    <3> QED BY <1>1, <3>1, <3>2
  <2>2. Number(stack, Running(id))
          = Number(Rest, Running(id)) + (IF stack[Len(stack)] \in Running(id) THEN 1 ELSE 0)
    BY <2>1, NumberLonger
  <2>3. Number(Rest, Running(id)) \in Nat
    BY <2>1, NumberIsNat
  <2> QED BY <1>5, <2>2, <2>3 DEF Top
<1>8. ASSUME NEW o \in Outcomes, audit' = Append(audit, up(o))
      PROVE  /\ Number(audit', Allowed(id)) = Number(audit, Allowed(id))
                  + (IF Top.id = id /\ o = "ALLOWED" THEN 1 ELSE 0)
             /\ Number(audit', Denied(id)) = Number(audit, Denied(id))
                  + (IF Top.id = id /\ o = "BLOCKED" THEN 1 ELSE 0)
  BY <1>1, <1>2, <1>4, <1>8, NumberAppended
<1>9. Number(audit, Allowed(id)) \in Nat /\ Number(audit, Denied(id)) \in Nat
  BY <1>1, NumberIsNat
<1>10. Balanced(id)' <=>
         /\ Number(audit', Allowed(id)) = Number(ledger', Passed(id)) + Number(stack', Running(id))
         /\ Number(audit', Denied(id)) = Number(ledger', Refused(id))
  BY DEF Balanced, Number, Where, Allowed, Denied, Passed, Refused, Running
<1>11. /\ Number(audit, Allowed(id)) = Number(ledger, Passed(id)) + Number(stack, Running(id))
       /\ Number(audit, Denied(id)) = Number(ledger, Refused(id))
  BY DEF Balanced
<1>12. {"ALLOWED", "BLOCKED"} \subseteq Outcomes
  BY DEF Outcomes
<1>13. CASE audit' = audit /\ rid = Top.id /\ st # "BLOCKED" /\ Top.pc # "gate"
  BY <1>3, <1>6, <1>7, <1>9, <1>10, <1>11, <1>13
<1>14. CASE audit' = audit /\ Top.pc = "gate" /\ st = "BLOCKED" /\ (rid = NoPacket \/ v = "SYSTEM_FREEZE")
  BY <1>1, <1>3, <1>6, <1>7, <1>9, <1>10, <1>11, <1>14 DEF NoPacket
<1>15. CASE /\ audit' = Append(audit, up("BLOCKED")) /\ Top.pc = "gate"
            /\ rid = Top.id /\ st = "BLOCKED" /\ v # "SYSTEM_FREEZE"
  BY <1>3, <1>6, <1>7, <1>8, <1>9, <1>10, <1>11, <1>12, <1>15
<1>16. CASE /\ audit' = Append(audit, up("ALLOWED")) /\ Top.pc = "gate"
            /\ rid = Top.id /\ st # "BLOCKED"
  BY <1>3, <1>6, <1>7, <1>8, <1>9, <1>10, <1>11, <1>12, <1>16
<1> QED BY <1>13, <1>14, <1>15, <1>16 DEF up

\* What is on the stack counts as before when no frame starts or stops running.
LEMMA BalancedElsewhere ==
  ASSUME TypeOK, TypeOK', NEW id \in PacketIds, Balanced(id), ledger' = ledger, audit' = audit,
         Number(stack', Running(id)) = Number(stack, Running(id))
  PROVE  Balanced(id)'
<1>1. Balanced(id)' <=>
         /\ Number(audit', Allowed(id)) = Number(ledger', Passed(id)) + Number(stack', Running(id))
         /\ Number(audit', Denied(id)) = Number(ledger', Refused(id))
  BY DEF Balanced, Number, Where, Allowed, Denied, Passed, Refused, Running
<1> QED BY <1>1 DEF Balanced

LEMMA BalancedEntered ==
  ASSUME TypeOK, ~Idle, Deliver, Top.pc = "gate", NEW id \in PacketIds, Balanced(id)
  PROVE  Balanced(id)'
<1> DEFINE z == IF Top.id = id THEN 1 ELSE 0
           up == Audited(Top.id, "ALLOWED")
<1>1. /\ stack \in Seq(Frames) /\ Top \in Frames /\ Top.id \in PacketIds /\ audit \in Seq(Entries)
      /\ ledger' = ledger /\ stack' = Retag("handler") /\ audit' = Append(audit, up)
  BY TopIsFrame DEF TypeOK, Entries, Deliver, Allow
<1>2. /\ Rest \in Seq(Frames) /\ Len(stack) = Len(Rest) + 1
      /\ \A i \in 1..Len(Rest) : i \in 1..(Len(stack) - 1) /\ Rest[i] = stack[i]
  BY PopShape, TopIsFrame
<1>3. /\ stack' \in Seq(Frames) /\ Len(stack') = Len(stack)
      /\ \A i \in 1..(Len(stack) - 1) : stack'[i] = stack[i]
      /\ stack'[Len(stack)].pc = "handler" /\ stack'[Len(stack)].id = Top.id
      /\ stack'[Len(stack)] \in Frames
  <2>1. Len(stack) \in 1..Len(stack)
    BY TopIsFrame
  <2>2. /\ stack' \in Seq(Frames) /\ Len(stack') = Len(stack)
        /\ \A i \in 1..Len(stack) : stack'[i].id = stack[i].id
        /\ \A i \in 1..(Len(stack) - 1) : stack'[i] = stack[i]
        /\ stack'[Len(stack)].pc = "handler"
    BY <1>1, RetagShape
  <2>3. stack'[Len(stack)] \in Frames
    BY <2>1, <2>2, ElementOfSeq
  <2> QED BY <2>1, <2>2, <2>3 DEF Top
<1>4. /\ Top \notin Running(id)
      /\ stack'[Len(stack)] \in Running(id) <=> Top.id = id
  BY <1>3 DEF Running, Frames
<1>5. /\ Number(stack, Running(id)) = Number(Rest, Running(id))
      /\ Number(stack', Running(id)) = Number(Rest, Running(id)) + z
      /\ Number(Rest, Running(id)) \in Nat
  <2>1. Number(stack, Running(id))
          = Number(Rest, Running(id)) + (IF stack[Len(stack)] \in Running(id) THEN 1 ELSE 0)
    BY <1>1, <1>2, NumberLonger, SMTT(30)
  <2>2. \A i \in 1..Len(Rest) : stack'[i] \in Running(id) <=> Rest[i] \in Running(id)
    BY <1>2, <1>3
  <2>3. Number(stack', Running(id))
          = Number(Rest, Running(id)) + (IF stack'[Len(stack')] \in Running(id) THEN 1 ELSE 0)
    BY <1>2, <1>3, <2>2, NumberLonger
  <2>4. Number(Rest, Running(id)) \in Nat
    BY <1>2, NumberIsNat
  <2> QED BY <1>3, <1>4, <2>1, <2>3, <2>4 DEF Top
<1>6. up \in Entries /\ up \notin Denied(id) /\ (up \in Allowed(id) <=> Top.id = id)
  BY <1>1 DEF Audited, Entries, Outcomes, Allowed, Denied, TypeOK
<1> HIDE DEF up
<1>7. /\ Number(audit', Allowed(id)) = Number(audit, Allowed(id)) + z
      /\ Number(audit', Denied(id)) = Number(audit, Denied(id))
      /\ Number(audit, Allowed(id)) \in Nat /\ Number(audit, Denied(id)) \in Nat
  BY <1>1, <1>6, NumberAppended
<1>8. Balanced(id)' <=>
         /\ Number(audit', Allowed(id)) = Number(ledger', Passed(id)) + Number(stack', Running(id))
         /\ Number(audit', Denied(id)) = Number(ledger', Refused(id))
  BY DEF Balanced, Number, Where, Allowed, Denied, Passed, Refused, Running
<1>9. /\ Number(audit, Allowed(id)) = Number(ledger, Passed(id)) + Number(stack, Running(id))
      /\ Number(audit, Denied(id)) = Number(ledger, Refused(id))
      /\ Number(ledger, Passed(id)) \in Nat
  BY NumberIsNat DEF Balanced, TypeOK
<1> QED BY <1>1, <1>5, <1>7, <1>8, <1>9

LEMMA BalancedGate ==
  ASSUME TypeOK, Gate, NEW id \in PacketIds, Balanced(id)
  PROVE  Balanced(id)'
<1>1. ~Idle /\ Top.pc = "gate" /\ Top.id \in PacketIds
  <2>1. AtGate
    BY DEF Gate, RefuseGarbage, RefuseFrozen, DenyTampered, DenyRate, DenyLaw,
           DenyAnomalous, DenyLearned, Deliver, FailUnhandled, Allow, Lawful, WithinRate,
           Intercepted
  <2> QED BY <2>1, TopIsFrame DEF AtGate
<1> USE DEF Statuses, Verdicts
<1>2. CASE RefuseGarbage
  BY <1>1, <1>2, BalancedAfterFinish DEF RefuseGarbage
<1>3. CASE RefuseFrozen
  BY <1>1, <1>3, BalancedAfterFinish DEF RefuseFrozen
<1>4. ASSUME NEW v \in Verdicts, Deny(v), v # "SYSTEM_FREEZE"
      PROVE  Balanced(id)'
  BY <1>1, <1>4, BalancedAfterFinish DEF Deny
<1>5. CASE DenyTampered \/ DenyRate \/ DenyLaw \/ DenyAnomalous \/ DenyLearned
  BY <1>4, <1>5 DEF DenyTampered, DenyRate, DenyLaw, DenyAnomalous, DenyLearned
<1>6. CASE Deliver
  BY <1>1, <1>6, BalancedEntered
<1>7. CASE FailUnhandled
  BY <1>1, <1>7, BalancedAfterFinish DEF FailUnhandled, Allow
<1> QED BY <1>2, <1>3, <1>5, <1>6, <1>7 DEF Gate

\* A sender waits but still runs; what it sent is at the gate.
LEMMA BalancedSent ==
  ASSUME TypeOK, TypeOK', ~Idle, Top.pc = "handler", NEW p \in Packets, SendViaApex(p),
         NEW id \in PacketIds, Balanced(id)
  PROVE  Balanced(id)'
<1>1. /\ stack \in Seq(Frames) /\ stack' \in Seq(Frames) /\ Len(stack) \in Nat \ {0}
      /\ Len(stack') = Len(stack) + 1 /\ stack'[Len(stack) + 1].pc = "gate"
      /\ ledger' = ledger /\ audit' = audit
  BY SendShape, TopIsFrame, SMTT(30) DEF TypeOK, SendViaApex
<1>2. ASSUME NEW i \in 1..Len(stack)
      PROVE  stack'[i] \in Running(id) <=> stack[i] \in Running(id)
  <2>1. /\ stack'[i] = Retag("return")[i] /\ Retag("return") \in Seq(Frames)
        /\ Len(Retag("return")) = Len(stack)
        /\ Retag("return")[i].id = stack[i].id /\ Retag("return")[i].token = stack[i].token
        /\ i # Len(stack) => Retag("return")[i] = stack[i]
        /\ i = Len(stack) => Retag("return")[i].pc = "return"
    <3>1. i # Len(stack) => i \in 1..(Len(stack) - 1)
      BY <1>1
    <3> QED BY <3>1, SendShape, RetagShape
  <2>2. stack'[i] \in Frames /\ stack[i] \in Frames
    BY <1>1, <2>1, ElementOfSeq
  <2>3. CASE i # Len(stack)
    BY <2>1, <2>3
  <2>4. CASE i = Len(stack)
    BY <2>1, <2>2, <2>4 DEF Running, Frames, Top
  <2> QED BY <2>3, <2>4
<1>3. stack'[Len(stack')] \notin Running(id)
  BY <1>1 DEF Running
<1>4. Number(stack', Running(id)) = Number(stack, Running(id)) + 0
  BY <1>1, <1>2, <1>3, NumberLonger
<1>5. Number(stack', Running(id)) = Number(stack, Running(id))
  BY <1>1, <1>4, NumberIsNat
<1> QED BY <1>1, <1>5, BalancedElsewhere

\* A packet nobody has seen has neither verdicts, nor rows, nor a handler.
LEMMA BalancedFresh ==
  ASSUME TypeOK, ledger' = ledger, audit' = audit, NEW id \in Nat \ {0}, id \notin PacketIds,
         \A i \in DOMAIN stack' : stack'[i] \notin Running(id)
  PROVE  Balanced(id)'
<1>1. Number(audit, Allowed(id)) = 0 /\ Number(audit, Denied(id)) = 0
  <2>1. ASSUME NEW i \in DOMAIN audit
        PROVE  audit[i] \notin Allowed(id) /\ audit[i] \notin Denied(id)
    <3>1. audit \in Seq(Entries)
      BY DEF TypeOK, Entries
    <3>2. audit[i] \in Entries
      BY <3>1
    <3> QED BY <3>2 DEF Entries, Allowed, Denied
  <2>2. Number(audit, Allowed(id)) = 0
    BY <2>1, NumberNone
  <2>3. Number(audit, Denied(id)) = 0
    BY <2>1, NumberNone
  <2> QED BY <2>2, <2>3
<1>2. Number(ledger, Passed(id)) = 0 /\ Number(ledger, Refused(id)) = 0
  <2>1. ASSUME NEW i \in DOMAIN ledger
        PROVE  ledger[i] \notin Passed(id) /\ ledger[i] \notin Refused(id)
    <3>1. ledger \in Seq(Rows)
      BY DEF TypeOK, Rows
    <3>2. ledger[i] \in Rows
      BY <3>1
    <3> QED BY <3>2 DEF Rows, Passed, Refused, NoPacket
  <2>2. Number(ledger, Passed(id)) = 0
    BY <2>1, NumberNone
  <2>3. Number(ledger, Refused(id)) = 0
    BY <2>1, NumberNone
  <2> QED BY <2>2, <2>3
<1>3. Number(stack', Running(id)) = 0
  BY NumberNone
<1>4. Balanced(id)' <=>
         /\ Number(audit', Allowed(id)) = Number(ledger', Passed(id)) + Number(stack', Running(id))
         /\ Number(audit', Denied(id)) = Number(ledger', Refused(id))
  BY DEF Balanced, Number, Where, Allowed, Denied, Passed, Refused, Running
<1> QED BY <1>1, <1>2, <1>3, <1>4

LEMMA BalancedHandle ==
  ASSUME TypeOK, TypeOK', AllBalanced, Handle
  PROVE  AllBalanced'
<1>1. ~Idle
  BY HandleShape
<1>2. CASE /\ Finish(Top.id, "FAILED", "ALLOW") \/ Finish(Top.id, "SUCCESS", "ALLOW")
           /\ Top.pc # "gate" /\ UNCHANGED <<clock, minted, begun, audit, knollVars>>
  <2>1. minted' = minted /\ audit' = audit /\ PacketIds' = PacketIds /\ Top.id \in PacketIds
    BY <1>1, <1>2, TopIsFrame DEF PacketIds
  <2>2. ASSUME NEW id \in PacketIds PROVE Balanced(id)'
    BY <1>1, <1>2, <2>1, BalancedAfterFinish DEF AllBalanced, Statuses, Verdicts
  <2> QED BY <2>1, <2>2 DEF AllBalanced
<1>3. ASSUME NEW p \in Packets, SendViaApex(p), Top.pc = "handler"
      PROVE  AllBalanced'
  <2>1. minted' = Append(minted, p) /\ ledger' = ledger /\ audit' = audit
    BY <1>3 DEF SendViaApex
  <2>2. PacketIds' = PacketIds \cup {Len(minted) + 1} /\ Len(minted) \in Nat
    BY <2>1 DEF PacketIds, TypeOK
  <2>3. ASSUME NEW id \in PacketIds PROVE Balanced(id)'
    BY <1>1, <1>3, BalancedSent DEF AllBalanced
  <2>4. PICK n \in Nat \ {0} : n = Len(minted) + 1 /\ n \notin PacketIds
    BY <2>2 DEF PacketIds
  <2>5. ASSUME NEW i \in DOMAIN stack' PROVE stack'[i] \notin Running(n)
    <3>1. /\ DOMAIN stack' = 1..(Len(stack) + 1) /\ Len(stack) \in Nat
          /\ stack'[Len(stack) + 1].pc = "gate"
      BY <1>1, <1>3, SendShape, TopIsFrame, LenProperties
    <3>2. ASSUME NEW j \in 1..Len(stack) PROVE stack'[j].id \in PacketIds
      <4>1. stack'[j].id = stack[j].id
        BY <1>1, <1>3, SendShape, RetagShape
      <4> QED BY <4>1, LenProperties DEF TypeOK
    <3>3. i \in 1..Len(stack) \/ i = Len(stack) + 1
      BY <3>1
    <3> QED BY <2>4, <3>1, <3>2, <3>3 DEF Running
  <2>6. Balanced(n)'
    BY <2>1, <2>4, <2>5, BalancedFresh
  <2> QED BY <2>2, <2>3, <2>4, <2>6 DEF AllBalanced
<1> QED BY <1>2, <1>3, HandleShape

LEMMA BalancedEnvironment ==
  ASSUME TypeOK, TypeOK', AllBalanced, Environment
  PROVE  AllBalanced'
<1>1. CASE UNCHANGED <<minted, stack, ledger, audit>>
  <2>1. PacketIds' = PacketIds
    BY <1>1 DEF PacketIds
  <2>2. ASSUME NEW id \in PacketIds PROVE Balanced(id)'
    BY <1>1, <2>2, BalancedElsewhere DEF AllBalanced
  <2> QED BY <2>1, <2>2 DEF AllBalanced
<1>2. ASSUME NEW k \in Nat, NEW token \in Tokens, Call(k, token),
             minted' = minted \/ \E p \in Packets : minted' = Append(minted, p)
      PROVE  AllBalanced'
  <2>1. stack = <<>> /\ ledger' = ledger /\ audit' = audit
    BY <1>2 DEF Call, Idle
  <2>2. DOMAIN stack' = {1} /\ stack'[1].pc = "gate" /\ DOMAIN stack = {}
    BY <1>2, <2>1, CallType
  <2>3. ASSUME NEW id PROVE \A i \in DOMAIN stack' : stack'[i] \notin Running(id)
    BY <2>2 DEF Running
  <2>4. ASSUME NEW id \in PacketIds PROVE Balanced(id)'
    <3>1. Number(stack', Running(id)) = 0
      BY <2>3, NumberNone
    <3>2. Number(stack, Running(id)) = 0
      BY <2>2, NumberNone
    <3> QED BY <2>1, <3>1, <3>2, BalancedElsewhere DEF AllBalanced
  <2>5. ASSUME NEW id \in PacketIds', id \notin PacketIds PROVE Balanced(id)'
    <3>1. id \in Nat \ {0}
      BY <2>5 DEF PacketIds, TypeOK
    <3> QED BY <2>1, <2>3, <2>5, <3>1, BalancedFresh
  <2> QED BY <2>4, <2>5 DEF AllBalanced
<1>3. ASSUME NEW p \in Arrivals, NEW token \in Tokens, Dispatch(p, token)
      PROVE  AllBalanced'
  <2>1. p \in Packets /\ Len(minted) + 1 \in Nat
    BY ArrivalsAssumption DEF TypeOK
  <2> QED BY <1>2, <1>3, <2>1 DEF Dispatch
<1>4. ASSUME NEW id \in DOMAIN minted, NEW token \in Tokens, Redispatch(id, token)
      PROVE  AllBalanced'
  <2>1. id \in Nat
    BY LenProperties DEF TypeOK
  <2> QED BY <1>2, <1>4, <2>1 DEF Redispatch
<1>5. CASE (\E token \in Tokens : Unfreeze(token)) \/ SovereignFreeze \/ Tick
  BY <1>1, <1>5 DEF Unfreeze, SovereignFreeze, Tick
<1> QED BY <1>3, <1>4, <1>5 DEF Environment

\* KNOLL's audit and APEX's ledger tell one story of every packet, whatever is
\* nested, dispatched again, denied, frozen or thrown.
THEOREM AuditAndLedgerAgree == Spec => []AuditMatchesLedger
<1>1. Init => AllBalanced
  BY DEF Init, AllBalanced, PacketIds
<1>2. TypeOK /\ TypeOK' /\ AllBalanced /\ [Next]_vars => AllBalanced'
  <2> SUFFICES ASSUME TypeOK, TypeOK', AllBalanced, [Next]_vars
               PROVE  AllBalanced'
    OBVIOUS
  <2>1. CASE UNCHANGED vars
    <3>1. PacketIds' = PacketIds /\ UNCHANGED <<stack, ledger, audit>>
      BY <2>1 DEF vars, PacketIds
    <3>2. ASSUME NEW id \in PacketIds PROVE Balanced(id)'
      BY <3>1, BalancedElsewhere DEF AllBalanced
    <3> QED BY <3>1, <3>2 DEF AllBalanced
  <2>2. CASE Gate
    <3>1. minted' = minted
      BY <2>2 DEF Gate, RefuseGarbage, RefuseFrozen, DenyTampered, DenyRate, DenyLaw,
             DenyAnomalous, DenyLearned, Deliver, FailUnhandled, Allow, Deny
    <3> QED BY <2>2, <3>1, BalancedGate DEF AllBalanced, PacketIds
  <2>3. CASE Handle
    BY <2>3, BalancedHandle
  <2>4. CASE Environment
    BY <2>4, BalancedEnvironment
  <2> QED BY <2>1, <2>2, <2>3, <2>4 DEF Next
<1>3. TypeOK /\ AllBalanced => AuditMatchesLedger
  BY BalancedIsMatching
<1> QED BY <1>1, <1>2, <1>3, TypeCorrect, PTL DEF Spec

-----------------------------------------------------------------------------
(* The rate limit. *)

\* The audit entries that count against a source's open window.
Recently(src) ==
  [id : {id \in PacketIds : minted[id].source = src}, outcome : {"ALLOWED"},
   at : {t \in Nat : t >= buckets[src].start}]

\* What a source was allowed lies before the end of its window, and what it was
\* allowed within the window is not more than what the window has counted.
RateFor(src) ==
  /\ buckets[src].start <= clock
  /\ \A i \in DOMAIN audit :
       audit[i].outcome = "ALLOWED" /\ minted[audit[i].id].source = src
         => buckets[src].count > 0 /\ audit[i].at < buckets[src].start + RateWindow
  /\ Number(audit, Recently(src)) <= buckets[src].count
  /\ Number(audit, Recently(src)) <= RateLimit
RateInv == \A src \in Roles : RateFor(src)

\* An entry counts if it allowed a packet of the source since the window opened.
LEMMA RecentlyIs ==
  ASSUME TypeOK, NEW src \in Roles, NEW i \in DOMAIN audit
  PROVE  /\ audit[i] \in Entries
         /\ audit[i] \in Recently(src) <=> /\ audit[i].outcome = "ALLOWED"
                                           /\ minted[audit[i].id].source = src
                                           /\ audit[i].at >= buckets[src].start
<1>1. audit \in Seq(Entries)
  BY DEF TypeOK, Entries
<1>2. audit[i] \in Entries
  BY <1>1
<1> QED BY <1>2 DEF Recently, Entries

\* A step that leaves a source's window alone and allows none of its packets.
LEMMA RateElsewhere ==
  ASSUME TypeOK, TypeOK', NEW src \in Roles, RateFor(src), clock' >= clock,
         buckets'[src] = buckets[src],
         \A id \in PacketIds : id \in PacketIds' /\ minted'[id] = minted[id],
         \/ audit' = audit
         \/ \E e \in Entries : /\ audit' = Append(audit, e)
                               /\ e.outcome = "BLOCKED" \/ minted[e.id].source # src
  PROVE  RateFor(src)'
<1>1. /\ audit \in Seq(Entries) /\ Len(audit) \in Nat /\ DOMAIN audit = 1..Len(audit)
      /\ buckets[src] \in [start : Nat, count : Nat] /\ clock \in Nat /\ clock' \in Nat
      /\ RateWindow \in Nat
  BY RateAssumption, LenProperties DEF TypeOK, Entries
<1>2. ASSUME NEW x \in Entries
      PROVE  /\ minted'[x.id] = minted[x.id]
             /\ x \in Recently(src)' <=> x \in Recently(src)
  BY <1>2 DEF Recently, Entries
<1>3. /\ Number(audit', Recently(src)') = Number(audit, Recently(src))
      /\ \A i \in DOMAIN audit' :
           audit'[i].outcome = "ALLOWED" /\ minted'[audit'[i].id].source = src
             => i \in DOMAIN audit /\ audit[i] = audit'[i] /\ minted[audit[i].id].source = src
  <2>1. CASE audit' = audit
    <3>1. \A i \in DOMAIN audit : audit[i] \in Entries
      BY <1>1
    <3>2. Number(audit', Recently(src)') = Number(audit, Recently(src))
      BY <1>2, <2>1, <3>1, NumberSame
    <3> QED BY <1>2, <2>1, <3>1, <3>2
  <2>2. CASE \E e \in Entries : /\ audit' = Append(audit, e)
                                /\ e.outcome = "BLOCKED" \/ minted[e.id].source # src
    <3>1. PICK e \in Entries : /\ audit' = Append(audit, e)
                               /\ e.outcome = "BLOCKED" \/ minted[e.id].source # src
      BY <2>2
    <3>2. /\ audit' \in Seq(Entries) /\ Len(audit') = Len(audit) + 1
          /\ audit'[Len(audit')] = e /\ DOMAIN audit' = 1..(Len(audit) + 1)
          /\ \A i \in 1..Len(audit) : audit'[i] = audit[i] /\ audit[i] \in Entries
      <4>1. audit \in Seq(Entries)
        BY <1>1
      <4> QED BY <3>1, <4>1
    <3>3. e \notin Recently(src)'
      BY <1>2, <3>1 DEF Recently
    <3>4. Number(audit', Recently(src)')
            = Number(audit, Recently(src)) + (IF audit'[Len(audit')] \in Recently(src)' THEN 1 ELSE 0)
      BY <1>1, <1>2, <3>2, NumberLonger
    <3>5. Number(audit, Recently(src)) \in Nat
      BY <1>1, NumberIsNat
    <3>6. Number(audit', Recently(src)') = Number(audit, Recently(src))
      BY <3>2, <3>3, <3>4, <3>5
    <3>7. minted'[e.id] = minted[e.id] /\ (e.outcome = "ALLOWED" => minted[e.id].source # src)
      BY <1>2, <3>1
    <3>8. \A i \in DOMAIN audit' : i \in DOMAIN audit \/ i = Len(audit')
      BY <1>1, <3>2
    <3> QED BY <1>1, <1>2, <3>2, <3>6, <3>7, <3>8
  <2> QED BY <2>1, <2>2
<1>4. RateFor(src)' <=>
        /\ buckets'[src].start <= clock'
        /\ \A i \in DOMAIN audit' :
             audit'[i].outcome = "ALLOWED" /\ minted'[audit'[i].id].source = src
               => buckets'[src].count > 0 /\ audit'[i].at < buckets'[src].start + RateWindow
        /\ Number(audit', Recently(src)') <= buckets'[src].count
        /\ Number(audit', Recently(src)') <= RateLimit
  BY DEF RateFor, Number, Where
<1>5. buckets'[src].start <= clock'
  BY <1>1 DEF RateFor
<1> QED BY <1>3, <1>4, <1>5 DEF RateFor

\* A packet that reached the rate check: its source's window counts it, and
\* KNOLL allows it only when the window was not full.
LEMMA RateHere ==
  ASSUME TypeOK, TypeOK', ~Idle, NEW src \in Roles, src = Packet.source, RateFor(src),
         CheckRate, clock' = clock, minted' = minted, NEW o \in Outcomes,
         audit' = Append(audit, Audited(Top.id, o)),
         o = "ALLOWED" => ~OverLimit(buckets[src])
  PROVE  RateFor(src)'
<1>1. /\ audit \in Seq(Entries) /\ audit' \in Seq(Entries) /\ Len(audit) \in Nat
      /\ Len(audit') = Len(audit) + 1
  <2>1. audit \in Seq(Entries) /\ Audited(Top.id, o) \in Entries
    BY TopIsFrame DEF Audited, Entries, TypeOK
  <2> QED BY <2>1, LenProperties
<1>2. PICK e : e = Audited(Top.id, o)
  OBVIOUS
<1>3. /\ e \in Entries /\ e.outcome = o /\ e.at = clock /\ minted[e.id].source = src
      /\ audit' = Append(audit, e)
  BY <1>2, TopIsFrame DEF Audited, Entries, Packet, TypeOK
<1>4. /\ audit \in Seq(Entries) /\ Len(audit) \in Nat /\ DOMAIN audit = 1..Len(audit)
      /\ audit' \in Seq(Entries) /\ Len(audit') = Len(audit) + 1 /\ audit'[Len(audit')] = e
      /\ DOMAIN audit' = 1..(Len(audit) + 1)
      /\ \A i \in 1..Len(audit) : audit'[i] = audit[i] /\ audit[i] \in Entries
  <2>1. audit \in Seq(Entries)
    BY DEF TypeOK, Entries
  <2> QED BY <1>3, <2>1
<1>5. PICK b \in [start : Nat, count : Nat] : b = buckets[src]
  BY DEF TypeOK
<1>6. PICK c \in [start : Nat, count : Nat] : c = NextBucket(b) /\ c = buckets'[src]
  BY <1>5, CheckRateType DEF CheckRate, TypeOK
<1>7. clock \in Nat /\ RateWindow \in Nat \ {0} /\ RateLimit \in Nat \ {0}
  BY RateAssumption DEF TypeOK
<1>8. /\ b.start <= clock
      /\ \A i \in DOMAIN audit :
           audit[i].outcome = "ALLOWED" /\ minted[audit[i].id].source = src
             => b.count > 0 /\ audit[i].at < b.start + RateWindow
      /\ Number(audit, Recently(src)) <= b.count /\ Number(audit, Recently(src)) <= RateLimit
      /\ Number(audit, Recently(src)) \in Nat
  BY <1>1, <1>4, <1>5, NumberIsNat DEF RateFor
<1>9. RateFor(src)' <=>
        /\ c.start <= clock
        /\ \A i \in DOMAIN audit' :
             audit'[i].outcome = "ALLOWED" /\ minted[audit'[i].id].source = src
               => c.count > 0 /\ audit'[i].at < c.start + RateWindow
        /\ Number(audit', Recently(src)') <= c.count
        /\ Number(audit', Recently(src)') <= RateLimit
  BY <1>6 DEF RateFor, Number, Where
<1>10. ASSUME NEW x \in Entries
       PROVE  /\ x \in Recently(src)' <=> x.outcome = "ALLOWED" /\ minted[x.id].source = src /\ x.at >= c.start
              /\ x \in Recently(src) <=> x.outcome = "ALLOWED" /\ minted[x.id].source = src /\ x.at >= b.start
              /\ x.at \in Nat
  BY <1>5, <1>6, <1>10 DEF Recently, Entries, PacketIds
<1>11. \A i \in DOMAIN audit' : i \in DOMAIN audit \/ i = Len(audit')
  BY <1>4
<1>12. CASE WindowOpen(b)
  <2>1. c.start = b.start /\ c.count = b.count + 1 /\ b.count > 0 /\ clock < b.start + RateWindow
    BY <1>5, <1>6, <1>12 DEF NextBucket, WindowOpen
  <2>2. Number(audit', Recently(src)')
          = Number(audit, Recently(src)) + (IF audit'[Len(audit')] \in Recently(src)' THEN 1 ELSE 0)
    <3>1. \A i \in 1..Len(audit) : audit[i] \in Recently(src)' <=> audit[i] \in Recently(src)
      BY <1>4, <1>10, <2>1
    <3>2. Number(audit', Recently(src)')
            = Number(audit, Recently(src)) + (IF e \in Recently(src)' THEN 1 ELSE 0)
      BY <1>1, <1>3, <3>1, NumberGrown
    <3> QED BY <1>4, <3>2
  <2>3. e \in Recently(src)' => o = "ALLOWED"
    BY <1>3, <1>10
  <2>4. o = "ALLOWED" => b.count + 1 <= RateLimit
    BY <1>5, <1>7, <1>12 DEF OverLimit
  <2>5. /\ Number(audit', Recently(src)') <= c.count
        /\ Number(audit', Recently(src)') <= RateLimit
    BY <1>4, <1>5, <1>7, <1>8, <2>1, <2>2, <2>3, <2>4
  <2>6. ASSUME NEW i \in DOMAIN audit', audit'[i].outcome = "ALLOWED", minted[audit'[i].id].source = src
        PROVE  c.count > 0 /\ audit'[i].at < c.start + RateWindow
    <3>1. c.count > 0
      BY <1>5, <2>1
    <3>2. CASE i \in DOMAIN audit
      BY <1>4, <1>8, <2>1, <2>6, <3>1, <3>2
    <3>3. CASE i = Len(audit')
      BY <1>3, <1>4, <2>1, <3>1, <3>3
    <3> QED BY <1>11, <3>2, <3>3
  <2> QED BY <1>8, <1>9, <2>1, <2>5, <2>6
<1>13. CASE ~WindowOpen(b)
  <2>1. c = [start |-> clock, count |-> 1] /\ (b.count = 0 \/ clock >= b.start + RateWindow)
    BY <1>5, <1>6, <1>7, <1>13 DEF NextBucket, WindowOpen
  <2>2. ASSUME NEW i \in 1..Len(audit)
        PROVE  /\ audit'[i] \notin Recently(src)'
               /\ audit'[i].outcome = "ALLOWED" /\ minted[audit'[i].id].source = src
                    => audit'[i].at < clock + RateWindow
    <3>1. audit'[i] = audit[i] /\ audit[i] \in Entries /\ i \in DOMAIN audit /\ audit[i].at \in Nat
      BY <1>4, <1>10
    <3>2. audit[i].outcome = "ALLOWED" /\ minted[audit[i].id].source = src => audit[i].at < clock
      BY <1>5, <1>7, <1>8, <2>1, <3>1
    <3> QED BY <1>7, <1>10, <2>1, <3>1, <3>2
  <2>3. Number(audit, {}) = 0
    BY NumberNone
  <2>4. Number(audit', Recently(src)')
          = Number(audit, {}) + (IF audit'[Len(audit')] \in Recently(src)' THEN 1 ELSE 0)
    <3>1. \A i \in 1..Len(audit) : audit[i] \in Recently(src)' <=> audit[i] \in {}
      BY <1>4, <2>2
    <3>2. Number(audit', Recently(src)')
            = Number(audit, {}) + (IF e \in Recently(src)' THEN 1 ELSE 0)
      BY <1>1, <1>3, <3>1, NumberGrown
    <3> QED BY <1>4, <3>2
  <2>5. /\ Number(audit', Recently(src)') <= 1 /\ Number(audit', Recently(src)') <= RateLimit
    BY <1>7, <2>3, <2>4
  <2>6. ASSUME NEW i \in DOMAIN audit', audit'[i].outcome = "ALLOWED", minted[audit'[i].id].source = src
        PROVE  audit'[i].at < clock + RateWindow
    <3>1. CASE i \in DOMAIN audit
      BY <1>4, <2>2, <2>6, <3>1
    <3>2. CASE i = Len(audit')
      BY <1>3, <1>4, <1>7, <3>2
    <3> QED BY <1>11, <3>1, <3>2
  <2> QED BY <1>7, <1>9, <2>1, <2>5, <2>6
<1> QED BY <1>12, <1>13

\* The gate's steps, for the source whose window they open or count in and for
\* every other source.
LEMMA RateChecked ==
  ASSUME TypeOK, TypeOK', ~Idle, RateInv, CheckRate, clock' = clock, minted' = minted,
         NEW o \in Outcomes, audit' = Append(audit, Audited(Top.id, o)),
         o = "ALLOWED" => ~OverLimit(buckets[Packet.source])
  PROVE  RateInv'
<1> SUFFICES ASSUME NEW src \in Roles PROVE RateFor(src)'
  BY DEF RateInv
<1>1. RateFor(src)
  BY DEF RateInv
<1>2. CASE src = Packet.source
  BY <1>1, <1>2, RateHere
<1>3. CASE src # Packet.source
  <2>1. buckets'[src] = buckets[src]
    BY <1>3 DEF CheckRate, TypeOK
  <2>2. Audited(Top.id, o) \in Entries /\ minted[Audited(Top.id, o).id].source # src
    BY <1>3, TopIsFrame DEF Audited, Entries, Packet, TypeOK
  <2>3. \A id \in PacketIds : id \in PacketIds' /\ minted'[id] = minted[id]
    BY DEF PacketIds
  <2>4. clock' >= clock
    BY DEF TypeOK
  <2> QED BY <1>1, <2>1, <2>2, <2>3, <2>4, RateElsewhere
<1> QED BY <1>2, <1>3

LEMMA RateUnchecked ==
  ASSUME TypeOK, TypeOK', RateInv, buckets' = buckets, clock' >= clock,
         \A id \in PacketIds : id \in PacketIds' /\ minted'[id] = minted[id],
         \/ audit' = audit
         \/ \E e \in Entries : audit' = Append(audit, e) /\ e.outcome = "BLOCKED"
  PROVE  RateInv'
BY RateElsewhere DEF RateInv

LEMMA RateStep ==
  ASSUME TypeOK, TypeOK', RateInv, [Next]_vars
  PROVE  RateInv'
<1> DEFINE Kept == \A id \in PacketIds : id \in PacketIds' /\ minted'[id] = minted[id]
<1>1. minted' = minted => Kept
  BY DEF PacketIds
<1>2. \A p \in Packets : minted' = Append(minted, p) => Kept
  BY MintShape
<1>3. clock' = clock => clock' >= clock
  BY DEF TypeOK
<1> HIDE DEF Kept
<1>4. CASE UNCHANGED vars
  BY <1>1, <1>3, <1>4, RateUnchecked DEF vars, knollVars, Kept
<1>5. CASE Gate
  <2>1. ~Idle /\ minted' = minted /\ clock' = clock
    BY <1>5 DEF Gate, AtGate, RefuseGarbage, RefuseFrozen, DenyTampered, DenyRate, DenyLaw,
           DenyAnomalous, DenyLearned, Deliver, FailUnhandled, Allow, Lawful, WithinRate,
           Intercepted, Deny
  <2>2. CASE RefuseGarbage \/ RefuseFrozen
    <3>1. audit' = audit /\ buckets' = buckets
      BY <2>2 DEF RefuseGarbage, RefuseFrozen, knollVars
    <3> QED BY <1>1, <1>3, <2>1, <3>1, RateUnchecked DEF Kept
  <2>3. CASE DenyTampered
    <3>1. audit' = Append(audit, Audited(Top.id, "BLOCKED")) /\ buckets' = buckets
      BY <2>3 DEF DenyTampered, Deny, knollVars
    <3>2. Audited(Top.id, "BLOCKED") \in Entries /\ Audited(Top.id, "BLOCKED").outcome = "BLOCKED"
      BY <2>1, TopIsFrame DEF Audited, Entries, Outcomes, TypeOK
    <3> QED BY <1>1, <1>3, <2>1, <3>1, <3>2, RateUnchecked DEF Kept
  <2>4. CASE DenyRate \/ DenyLaw \/ DenyAnomalous \/ DenyLearned
    <3>1. CheckRate /\ audit' = Append(audit, Audited(Top.id, "BLOCKED"))
      BY <2>4 DEF DenyRate, DenyLaw, DenyAnomalous, DenyLearned, Deny
    <3> QED BY <2>1, <3>1, RateChecked DEF Outcomes
  <2>5. CASE Deliver \/ FailUnhandled
    <3>1. /\ CheckRate /\ audit' = Append(audit, Audited(Top.id, "ALLOWED"))
          /\ ~OverLimit(buckets[Packet.source])
      BY <2>5 DEF Deliver, FailUnhandled, Allow, Lawful, WithinRate
    <3> QED BY <2>1, <3>1, RateChecked DEF Outcomes
  <2> QED BY <1>5, <2>2, <2>3, <2>4, <2>5 DEF Gate
<1>6. CASE Handle
  <2>1. /\ audit' = audit /\ buckets' = buckets /\ clock' = clock
        /\ minted' = minted \/ \E p \in Packets : minted' = Append(minted, p)
    BY <1>6, HandleShape DEF SendViaApex, knollVars
  <2> QED BY <1>1, <1>2, <1>3, <2>1, RateUnchecked DEF Kept
<1>7. CASE Environment
  <2>1. audit' = audit /\ buckets' = buckets
    BY <1>7 DEF Environment, Dispatch, Redispatch, Call, Unfreeze, SovereignFreeze, Tick, knollVars
  <2>2. clock' >= clock
    BY <1>3, <1>7 DEF Environment, Dispatch, Redispatch, Call, Unfreeze, SovereignFreeze, Tick, TypeOK
  <2>3. minted' = minted \/ \E p \in Packets : minted' = Append(minted, p)
    BY <1>7, ArrivalsAssumption
       DEF Environment, Dispatch, Redispatch, Unfreeze, SovereignFreeze, Tick
  <2> QED BY <1>1, <1>2, <2>1, <2>2, <2>3, RateUnchecked DEF Kept
<1> QED BY <1>4, <1>5, <1>6, <1>7 DEF Next

\* In an open window KNOLL allows a source no more packets than the limit.
THEOREM RateIsBounded == Spec => []RateBound
<1>1. Init => RateInv
  <2> SUFFICES ASSUME Init, NEW src \in Roles PROVE RateFor(src)
    BY DEF RateInv
  <2>1. audit = <<>> /\ DOMAIN audit = {} /\ clock = 0 /\ buckets[src] = [start |-> 0, count |-> 0]
    BY DEF Init, NoBucket
  <2>2. Number(audit, Recently(src)) = 0
    BY <2>1, NumberNone
  <2> QED BY <2>1, <2>2, RateAssumption DEF RateFor
<1>2. TypeOK /\ TypeOK' /\ RateInv /\ [Next]_vars => RateInv'
  BY RateStep
<1>3. TypeOK /\ RateInv => RateBound
  <2> SUFFICES ASSUME TypeOK, RateInv, NEW src \in Roles
               PROVE  Count(audit, LAMBDA a : /\ a.outcome = "ALLOWED"
                                              /\ minted[a.id].source = src
                                              /\ a.at >= buckets[src].start) <= RateLimit
    BY DEF RateBound
  <2>1. Where(audit, Recently(src))
          = {i \in DOMAIN audit : /\ audit[i].outcome = "ALLOWED"
                                  /\ minted[audit[i].id].source = src
                                  /\ audit[i].at >= buckets[src].start}
    BY RecentlyIs DEF Where
  <2>2. Number(audit, Recently(src)) <= RateLimit
    BY DEF RateInv, RateFor
  <2> QED BY <2>1, <2>2 DEF Count, Number
<1> QED BY <1>1, <1>2, <1>3, TypeCorrect, PTL DEF Spec

-----------------------------------------------------------------------------
(* The quarantine. *)

Anomaly == "BEHAVIORAL_SCORE"

LEMMA AnomaliesBounds ==
  ASSUME TypeOK, NEW n \in 0..Len(ledger)
  PROVE  /\ Anomalies(n) \in Nat /\ Anomalies(n) <= Anomalies(Len(ledger))
         /\ n > 0 /\ ledger[n].verdict = Anomaly => Anomalies(n) > 0
<1> DEFINE A(m) == {i \in 1..m : ledger[i].verdict = Anomaly}
<1>1. Len(ledger) \in Nat
  BY LenProperties DEF TypeOK
<1>2. \A m \in Nat : A(m) \in SUBSET (1..m) /\ IsFiniteSet(1..m)
  BY FS_Interval
<1>3. \A m \in Nat : IsFiniteSet(A(m)) /\ Cardinality(A(m)) \in Nat
  BY <1>2, FS_Subset, FS_CardinalityType
<1>4. A(n) \in SUBSET A(Len(ledger))
  BY <1>1
<1>5. n > 0 /\ ledger[n].verdict = Anomaly => n \in A(n)
  OBVIOUS
<1>6. \A m : Anomalies(m) = Cardinality(A(m))
  BY DEF Anomalies, Anomaly
<1> HIDE DEF A
<1>7. Cardinality(A(n)) <= Cardinality(A(Len(ledger)))
  BY <1>1, <1>3, <1>4, FS_Subset
<1>8. n \in A(n) => Cardinality(A(n)) > 0
  <2>1. n \in Nat /\ IsFiniteSet(A(n)) /\ Cardinality(A(n)) \in Nat
    BY <1>1, <1>3
  <2>2. Cardinality(A(n)) = 0 => A(n) = {}
    BY <2>1, FS_EmptySet
  <2> QED BY <2>1, <2>2
<1> QED BY <1>1, <1>3, <1>5, <1>6, <1>7, <1>8

\* One row more: the earlier rows count as before.
LEMMA AnomaliesAppended ==
  ASSUME TypeOK, NEW row \in Rows, ledger' = Append(ledger, row)
  PROVE  /\ Len(ledger) \in Nat /\ Len(ledger') = Len(ledger) + 1
         /\ ledger'[Len(ledger) + 1] = row
         /\ \A i \in 1..Len(ledger) : ledger'[i] = ledger[i]
         /\ \A n \in 0..Len(ledger) : Anomalies(n)' = Anomalies(n)
         /\ Anomalies(Len(ledger))' = Anomalies(Len(ledger)) + (IF row.verdict = Anomaly THEN 1 ELSE 0)
<1>1. ledger \in Seq(Rows)
  BY DEF TypeOK, Rows
<1>2. /\ Len(ledger) \in Nat /\ Len(ledger') = Len(ledger) + 1
      /\ ledger'[Len(ledger) + 1] = row
      /\ \A i \in 1..Len(ledger) : ledger'[i] = ledger[i]
  BY <1>1
<1>3. ASSUME NEW n \in 0..Len(ledger)
      PROVE  {i \in 1..n : ledger'[i].verdict = Anomaly} = {i \in 1..n : ledger[i].verdict = Anomaly}
  BY <1>2
<1>4. \A n \in 0..Len(ledger) : Anomalies(n)' = Anomalies(n)
  BY <1>3 DEF Anomalies, Anomaly
<1>5. PICK k \in Nat : k = Len(ledger)
  BY <1>2
<1> DEFINE A == {i \in 1..k : ledger[i].verdict = Anomaly}
           B == {i \in 1..(k + 1) : ledger'[i].verdict = Anomaly}
<1>6. Anomalies(Len(ledger)) = Cardinality(A) /\ Anomalies(Len(ledger))' = Cardinality(B)
  BY <1>2, <1>5 DEF Anomalies, Anomaly
<1>7. A \in SUBSET (1..k) /\ IsFiniteSet(1..k) /\ k + 1 \notin A
  BY FS_Interval
<1>8. IsFiniteSet(A) /\ Cardinality(A) \in Nat
  BY <1>7, FS_Subset, FS_CardinalityType
<1>9. \A i \in 1..(k + 1) : i \in 1..k \/ i = k + 1
  OBVIOUS
<1>10. 1..k \subseteq 1..(k + 1) /\ k + 1 \in 1..(k + 1)
  OBVIOUS
<1>11. B = IF row.verdict = Anomaly THEN A \cup {k + 1} ELSE A
  BY <1>2, <1>5, <1>9, <1>10
<1> HIDE DEF A, B
<1>12. Cardinality(B) = Cardinality(A) + (IF row.verdict = Anomaly THEN 1 ELSE 0)
  <2>1. CASE row.verdict = Anomaly
    <3>1. B = A \cup {k + 1} /\ k + 1 \notin A
      BY <1>7, <1>11, <2>1
    <3>2. Cardinality(B) = Cardinality(A) + 1
      BY <1>8, <3>1, FS_AddElement
    <3> QED BY <2>1, <3>2
  <2>2. CASE row.verdict # Anomaly
    BY <1>8, <1>11, <2>2
  <2> QED BY <2>1, <2>2
<1> QED BY <1>2, <1>4, <1>6, <1>12

\* A row that is not an anomaly, or no row, and the quarantine as it was.
LEMMA CulpritKept ==
  ASSUME TypeOK, TypeOK', CulpritQuarantined, quarantine' = quarantine,
         \/ ledger' = ledger
         \/ \E row \in Rows : ledger' = Append(ledger, row) /\ row.verdict # Anomaly,
         cause' # NoPacket => frozen' /\ frozen /\ cause' = cause
  PROVE  CulpritQuarantined'
<1>1. cause' # NoPacket => frozen' /\ \E i \in DOMAIN quarantine' : quarantine'[i] = cause'
  BY DEF CulpritQuarantined
<1>2. CASE ledger' = ledger
  <2>1. \A n : Anomalies(n)' = Anomalies(n)
    BY <1>2 DEF Anomalies
  <2>2. Anomalies(Len(ledger))' = Anomalies(Len(ledger))
    BY <1>2 DEF Anomalies
  <2> QED BY <1>1, <1>2, <2>1, <2>2 DEF CulpritQuarantined
<1>3. CASE \E row \in Rows : ledger' = Append(ledger, row) /\ row.verdict # Anomaly
  <2>1. PICK row \in Rows : ledger' = Append(ledger, row) /\ row.verdict # Anomaly
    BY <1>3
  <2>2. Len(quarantine') = Anomalies(Len(ledger))'
    <3>1. Len(ledger) \in 0..Len(ledger) /\ Len(ledger) \in Nat
      BY LenProperties DEF TypeOK
    <3>2. Anomalies(Len(ledger)) \in Nat
      BY <3>1, AnomaliesBounds
    <3>3. Anomalies(Len(ledger))' = Anomalies(Len(ledger)) + 0
      BY <2>1, AnomaliesAppended
    <3> QED BY <3>2, <3>3 DEF CulpritQuarantined
  <2>3. ASSUME NEW i \in DOMAIN ledger', ledger'[i].verdict = Anomaly
        PROVE  quarantine'[Anomalies(i)'] = ledger'[i].id
    <3>1. DOMAIN ledger' = 1..Len(ledger') /\ DOMAIN ledger = 1..Len(ledger)
      BY LenProperties DEF TypeOK
    <3>2. i \in 1..Len(ledger) /\ i \in 0..Len(ledger) /\ ledger'[i] = ledger[i]
      <4>1. /\ Len(ledger) \in Nat /\ Len(ledger') = Len(ledger) + 1
            /\ ledger'[Len(ledger) + 1] = row
            /\ \A j \in 1..Len(ledger) : ledger'[j] = ledger[j]
        BY <2>1, AnomaliesAppended
      <4>2. i \in 1..Len(ledger) \/ i = Len(ledger) + 1
        BY <3>1, <4>1
      <4> QED BY <2>1, <2>3, <4>1, <4>2
    <3>3. Anomalies(i)' = Anomalies(i)
      BY <2>1, <3>2, AnomaliesAppended
    <3> QED BY <2>3, <3>1, <3>2, <3>3 DEF CulpritQuarantined, Anomaly
  <2> QED BY <1>1, <2>2, <2>3 DEF CulpritQuarantined, Anomaly
<1> QED BY <1>2, <1>3

LEMMA CulpritAdded ==
  ASSUME TypeOK, TypeOK', CulpritQuarantined, DenyAnomalous
  PROVE  CulpritQuarantined'
<1>1. /\ ~Idle /\ Top.id \in PacketIds
      /\ ledger' = Append(ledger, Row(Top.id, "BLOCKED", Anomaly))
      /\ quarantine' = Append(quarantine, Top.id) /\ frozen'
      /\ (cause' = cause /\ frozen) \/ cause' = Top.id
  <2>1. ~Idle
    BY DEF DenyAnomalous, Lawful, WithinRate, Intercepted, AtGate
  <2> QED BY <2>1, TopIsFrame DEF DenyAnomalous, Deny, Finish, TriggerFreeze, QuarantinePacket, Anomaly
<1>2. PICK row \in Rows : row = Row(Top.id, "BLOCKED", Anomaly)
  BY <1>1 DEF Row, Rows, Statuses, Verdicts, Anomaly
<1>3. row.id = Top.id /\ row.verdict = Anomaly
  BY <1>2 DEF Row
<1>4. PICK m \in Nat : m = Len(quarantine)
  BY LenProperties DEF TypeOK
<1>5. /\ DOMAIN quarantine = 1..m /\ DOMAIN quarantine' = 1..(m + 1) /\ Len(quarantine') = m + 1
      /\ quarantine'[m + 1] = Top.id /\ \A i \in 1..m : quarantine'[i] = quarantine[i]
  <2>1. quarantine \in Seq(PacketIds)
    BY DEF TypeOK
  <2> QED BY <1>1, <1>4, <2>1
<1>6. \E i \in DOMAIN quarantine' : quarantine'[i] = cause' \/ cause' = NoPacket
  <2>1. CASE cause' = Top.id
    <3>1. m + 1 \in 1..(m + 1)
      OBVIOUS
    <3> QED BY <1>5, <2>1, <3>1
  <2>2. CASE cause' = cause /\ cause # NoPacket
    <3>1. PICK i \in 1..m : quarantine[i] = cause
      BY <1>5, <2>2 DEF CulpritQuarantined
    <3>2. i \in 1..(m + 1)
      OBVIOUS
    <3> QED BY <1>5, <2>2, <3>1, <3>2
  <2>3. CASE cause' = cause /\ cause = NoPacket
    <3>1. m + 1 \in 1..(m + 1)
      OBVIOUS
    <3> QED BY <1>5, <2>3, <3>1
  <2> QED BY <1>1, <2>1, <2>2, <2>3
<1>7. /\ Len(ledger) \in Nat /\ Len(ledger') = Len(ledger) + 1 /\ ledger'[Len(ledger) + 1] = row
      /\ \A i \in 1..Len(ledger) : ledger'[i] = ledger[i]
      /\ \A n \in 0..Len(ledger) : Anomalies(n)' = Anomalies(n)
      /\ Anomalies(Len(ledger))' = Anomalies(Len(ledger)) + 1
  BY <1>1, <1>2, <1>3, AnomaliesAppended
<1>8. Len(quarantine') = Anomalies(Len(ledger))' /\ Anomalies(Len(ledger)) = m
  BY <1>4, <1>5, <1>7 DEF CulpritQuarantined
<1>9. ASSUME NEW i \in DOMAIN ledger', ledger'[i].verdict = Anomaly
      PROVE  quarantine'[Anomalies(i)'] = ledger'[i].id
  <2>1. DOMAIN ledger' = 1..Len(ledger') /\ DOMAIN ledger = 1..Len(ledger)
    BY LenProperties DEF TypeOK
  <2>2. CASE i = Len(ledger) + 1
    <3>1. Anomalies(i)' = Anomalies(Len(ledger))'
      BY <1>7, <2>2
    <3> QED BY <1>3, <1>5, <1>7, <1>8, <2>2, <3>1
  <2>3. CASE i \in 1..Len(ledger)
    <3>1. i \in 0..Len(ledger) /\ i > 0 /\ ledger'[i] = ledger[i] /\ Anomalies(i)' = Anomalies(i)
      BY <1>7, <2>3
    <3>2. Anomalies(i) \in 1..m
      BY <1>4, <1>8, <1>9, <3>1, AnomaliesBounds
    <3>3. quarantine[Anomalies(i)] = ledger[i].id
      BY <1>9, <2>1, <2>3, <3>1 DEF CulpritQuarantined, Anomaly
    <3> QED BY <1>5, <3>1, <3>2, <3>3
  <2> QED BY <1>7, <1>9, <2>1, <2>2, <2>3
<1> QED BY <1>1, <1>6, <1>8, <1>9 DEF CulpritQuarantined, Anomaly

\* The freeze points at the packet that tripped it, and the quarantine holds
\* the anomalous denials of the ledger, in their order, and nothing else.
THEOREM QuarantineIsTheAnomalies == Spec => []CulpritQuarantined
<1>1. Init => CulpritQuarantined
  <2> SUFFICES ASSUME Init PROVE CulpritQuarantined
    OBVIOUS
  <2>1. ledger = <<>> /\ DOMAIN ledger = {} /\ Len(ledger) = 0 /\ Len(quarantine) = 0 /\ cause = NoPacket
    BY DEF Init
  <2>2. {i \in 1..0 : ledger[i].verdict = Anomaly} = {}
    OBVIOUS
  <2>3. Anomalies(Len(ledger)) = 0
    BY <2>1, <2>2, FS_EmptySet DEF Anomalies, Anomaly
  <2> QED BY <2>1, <2>3 DEF CulpritQuarantined
<1>2. TypeOK /\ TypeOK' /\ CulpritQuarantined /\ [Next]_vars => CulpritQuarantined'
  <2> SUFFICES ASSUME TypeOK, TypeOK', CulpritQuarantined, [Next]_vars
               PROVE  CulpritQuarantined'
    OBVIOUS
  <2>1. cause # NoPacket => frozen
    BY DEF CulpritQuarantined
  <2>2. CASE UNCHANGED <<ledger, quarantine, cause, frozen>>
    BY <2>1, <2>2, CulpritKept
  <2>3. ASSUME ~Idle, NEW id \in PacketIds \cup {NoPacket}, NEW st \in Statuses, NEW v \in Verdicts,
               Finish(id, st, v), v # Anomaly, UNCHANGED <<quarantine, cause, frozen>>
        PROVE  CulpritQuarantined'
    <3>1. Row(id, st, v) \in Rows /\ Row(id, st, v).verdict # Anomaly
      BY <2>3 DEF Row, Rows
    <3> QED BY <2>1, <2>3, <3>1, CulpritKept DEF Finish
  <2>4. CASE UNCHANGED vars
    BY <2>2, <2>4 DEF vars, knollVars
  <2>5. CASE Gate
    <3>1. ~Idle
      BY <2>5 DEF Gate, AtGate, RefuseGarbage, RefuseFrozen, DenyTampered, DenyRate, DenyLaw,
             DenyAnomalous, DenyLearned, Deliver, FailUnhandled, Allow, Lawful, WithinRate,
             Intercepted
    <3>2. Top.id \in PacketIds
      BY <3>1, TopIsFrame
    <3>3. CASE RefuseGarbage \/ RefuseFrozen
      BY <2>3, <3>1, <3>2, <3>3 DEF RefuseGarbage, RefuseFrozen, knollVars, Statuses, Verdicts, Anomaly
    <3>4. CASE DenyTampered \/ DenyRate \/ DenyLaw \/ DenyLearned
      BY <2>3, <3>1, <3>2, <3>4
         DEF DenyTampered, DenyRate, DenyLaw, DenyLearned, Deny, knollVars, Statuses, Verdicts, Anomaly
    <3>5. CASE DenyAnomalous
      BY <3>5, CulpritAdded
    <3>6. CASE Deliver
      BY <2>2, <3>6 DEF Deliver, Allow
    <3>7. CASE FailUnhandled
      BY <2>3, <3>1, <3>2, <3>7 DEF FailUnhandled, Allow, Statuses, Verdicts, Anomaly
    <3> QED BY <2>5, <3>3, <3>4, <3>5, <3>6, <3>7 DEF Gate
  <2>6. CASE Handle
    <3>1. ~Idle /\ Top.id \in PacketIds
      BY <2>6, HandleShape, TopIsFrame
    <3>2. CASE \E p \in Packets : SendViaApex(p)
      BY <2>2, <3>2 DEF SendViaApex, knollVars
    <3>3. CASE /\ Finish(Top.id, "FAILED", "ALLOW") \/ Finish(Top.id, "SUCCESS", "ALLOW")
               /\ UNCHANGED knollVars
      BY <2>3, <3>1, <3>3 DEF knollVars, Statuses, Verdicts, Anomaly
    <3>4. UNCHANGED <<clock, minted, begun, audit, knollVars>> => UNCHANGED knollVars
      OBVIOUS
    <3> QED BY <2>6, <3>2, <3>3, <3>4, HandleShape
  <2>7. CASE Environment
    <3>1. CASE (\E p \in Arrivals, token \in Tokens : Dispatch(p, token))
               \/ (\E id \in DOMAIN minted, token \in Tokens : Redispatch(id, token)) \/ Tick
      BY <2>2, <3>1 DEF Dispatch, Redispatch, Call, Tick, knollVars
    <3>2. CASE \E token \in Tokens : Unfreeze(token)
      BY <3>2, CulpritKept DEF Unfreeze, ClearFreeze
    <3>3. CASE SovereignFreeze
      BY <2>1, <3>3, CulpritKept DEF SovereignFreeze, TriggerFreeze
    <3> QED BY <2>7, <3>1, <3>2, <3>3 DEF Environment
  <2> QED BY <2>4, <2>5, <2>6, <2>7 DEF Next
<1> QED BY <1>1, <1>2, TypeCorrect, PTL DEF Spec
=============================================================================
