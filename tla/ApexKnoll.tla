------------------------------ MODULE ApexKnoll ------------------------------
(***************************************************************************)
(* The core of the backbone: APEX's gated dispatch (apex/router.ts), the   *)
(* KNOLL gate it must pass (knoll/validator.ts, scoring.ts, freeze.ts) and *)
(* the handlers that dispatch again from inside a dispatch                 *)
(* (apex/orchestrator.ts forward, dream/engine.ts, vision/engine.ts).      *)
(*                                                                         *)
(* Everything here is synchronous, so a dispatch and the dispatches nested *)
(* in it run to completion before anything else happens: "stack" is the    *)
(* JavaScript call stack of dispatches, its last element the one running.  *)
(* Callers, overrides and health probes act only when it is empty; the     *)
(* clock may advance at any time.                                          *)
(***************************************************************************)
EXTENDS VirtualLaws, Sequences, FiniteSets

CONSTANTS
  Arrivals,        \* the packets callers may dispatch, internal = FALSE
  ReportContents,  \* content scores of the results DREAM and VISION report
  Handlers,        \* the roles with a registered handler
  Tokens,          \* what a caller may present as hollowayToken
  Recognized,      \* the tokens isHollowayToken accepts
  NoToken,         \* no hollowayToken argument
  RateLimit, RateWindow,            \* Knoll.checkRate
  ScoreWindow, RateSoftCap,         \* BehavioralScorer.observeRate
  Threshold, FlagThreshold,         \* deny and flag scores, in thousandths
  LearnedEnforce,  \* whether a learned scorer is installed in enforce mode
  MaxClock,        \* bound: the clock stops there
  MaxRows          \* bound: no new caller dispatch once the ledger is as long

ASSUME ArrivalsAssumption == Arrivals \subseteq {p \in Packets : ~p.internal}
ASSUME HandlersAssumption == Handlers \subseteq AgentRoles /\ "APEX" \in Handlers
ASSUME TokensAssumption ==
  Recognized \subseteq Tokens /\ NoToken \in Tokens \ Recognized
ASSUME ContentsAssumption == ReportContents \subseteq Nat
ASSUME NumbersAssumption ==
  /\ {ScoreWindow, MaxClock, MaxRows} \subseteq Nat
  /\ RateSoftCap \in Nat \ {0}
  /\ Threshold \in Nat /\ FlagThreshold \in Nat /\ FlagThreshold < Threshold
  /\ LearnedEnforce \in BOOLEAN
\* Nothing overrides Knoll's 100 packets in 1000 ms.  A limit of 0 would still
\* let the first packet of every window in.
ASSUME RateAssumption == {RateLimit, RateWindow} \subseteq Nat \ {0}

VARIABLES
  clock,
  minted,       \* every packet there is; a packetId is an index of this
  stack,        \* the dispatches in progress, innermost last
  begun,        \* how many dispatches were started (history)
  ledger,       \* BillingLedger rows
  audit,        \* SecurityAuditLog entries
  frozen, cause,    \* SystemFreezeController.frozen and .packetId
  quarantine,   \* packetIds of the quarantine records
  buckets,      \* Knoll.buckets: fixed rate window per source
  windows,      \* BehavioralScorer.windows: when each source was seen
  reputation    \* BehavioralScorer.reputation per source, in thousandths

knollVars == <<frozen, cause, quarantine, buckets, windows, reputation>>
vars == <<clock, minted, stack, begun, ledger, audit, knollVars>>

NoPacket == 0       \* packetId null of the freeze, 'unknown-packet' of a row
NoBucket == [start |-> 0, count |-> 0]

Outcomes == {"ALLOWED", "BLOCKED"}
Statuses == {"SUCCESS", "BLOCKED", "FAILED"}
\* What a ledger row's knollSignature says of the verdict.
Verdicts == {"STRUCTURE", "SYSTEM_FREEZE", "HASH_INTEGRITY", "RATE_LIMIT",
             "LAW", "BEHAVIORAL_SCORE", "LEARNED_BEHAVIORAL_SCORE", "ALLOW"}

Frames == [id : Nat, token : Tokens, pc : {"gate", "handler", "return"}]
Row(id, status, verdict) == [id |-> id, status |-> status, verdict |-> verdict]
Audited(id, outcome) == [id |-> id, outcome |-> outcome, at |-> clock]

Idle == stack = <<>>
Top == stack[Len(stack)]
Rest == SubSeq(stack, 1, Len(stack) - 1)
Packet == minted[Top.id]
Retag(pc) == [stack EXCEPT ![Len(stack)].pc = pc]

\* The dispatch on top of the stack returns, having written its ledger row.
Finish(id, status, verdict) ==
  /\ ledger' = Append(ledger, Row(id, status, verdict))
  /\ stack' = Rest

Init ==
  /\ clock = 0
  /\ minted = <<>> /\ stack = <<>> /\ begun = 0
  /\ ledger = <<>> /\ audit = <<>>
  /\ frozen = FALSE /\ cause = NoPacket /\ quarantine = <<>>
  /\ buckets = [r \in Roles |-> NoBucket]
  /\ windows = [r \in Roles |-> {}]
  /\ reputation = [r \in Roles |-> 0]

-----------------------------------------------------------------------------
(* What a caller of APEX does. *)

Call(id, token) ==
  /\ Idle /\ Len(ledger) < MaxRows
  /\ stack' = <<[id |-> id, token |-> token, pc |-> "gate"]>>
  /\ begun' = begun + 1
  /\ UNCHANGED <<clock, ledger, audit, knollVars>>

\* A packet arrives for the first time.
Dispatch(p, token) ==
  /\ minted' = Append(minted, p)
  /\ Call(Len(minted) + 1, token)

\* The caller still holds the packet and dispatches it again: a task queue
\* redelivering it, a client retrying.
Redispatch(id, token) ==
  /\ ~minted[id].internal
  /\ Call(id, token)
  /\ UNCHANGED minted

-----------------------------------------------------------------------------
(* The gate, one action per way out of gatedDispatch and intercept. *)

AtGate == ~Idle /\ Top.pc = "gate"

\* Step 1: not a RoutingPacket; logged under 'unknown-packet', KNOLL not asked.
RefuseGarbage ==
  /\ AtGate /\ ~IsRoutingPacket(Packet)
  /\ Finish(NoPacket, "BLOCKED", "STRUCTURE")
  /\ UNCHANGED <<clock, minted, begun, audit, knollVars>>

\* Step 1b: frozen and no recognized override; KNOLL not asked.
WaitForThaw ==   \* mutant of RefuseFrozen: wait for the freeze to be lifted
  /\ AtGate /\ IsRoutingPacket(Packet)
  /\ frozen /\ Top.token \notin Recognized
  /\ UNCHANGED vars
RefuseFrozen ==
  /\ AtGate /\ IsRoutingPacket(Packet)
  /\ frozen /\ Top.token \notin Recognized
  /\ Finish(Top.id, "BLOCKED", "SYSTEM_FREEZE")
  /\ UNCHANGED <<clock, minted, begun, audit, knollVars>>

TrustNested ==   \* mutant of Intercepted: the freeze stops outer dispatches only
  /\ AtGate /\ IsRoutingPacket(Packet)
  /\ frozen => Top.token \in Recognized \/ Len(stack) > 1
Intercepted ==
  /\ AtGate /\ IsRoutingPacket(Packet)
  /\ frozen => Top.token \in Recognized

\* KNOLL says no: an audit record, then the router's row.
Deny(verdict) ==
  /\ audit' = Append(audit, Audited(Top.id, "BLOCKED"))
  /\ Finish(Top.id, "BLOCKED", verdict)
  /\ UNCHANGED <<clock, minted, begun>>

DenyTampered ==
  /\ Intercepted /\ ~HashMatches(Packet)
  /\ Deny("HASH_INTEGRITY")
  /\ UNCHANGED knollVars

WindowOpen(b) == b.count > 0 /\ clock < b.start + RateWindow
OneOver(b) == WindowOpen(b) /\ b.count > RateLimit   \* mutant of OverLimit
OverLimit(b) == WindowOpen(b) /\ b.count + 1 > RateLimit
NextBucket(b) ==
  IF WindowOpen(b) THEN [b EXCEPT !.count = b.count + 1]
                   ELSE [start |-> clock, count |-> 1]
CheckRate ==
  buckets' = [buckets EXCEPT ![Packet.source] = NextBucket(@)]

DenyRateUnaudited ==   \* mutant of DenyRate: returns before the audit record
  /\ Intercepted /\ HashMatches(Packet)
  /\ OverLimit(buckets[Packet.source])
  /\ CheckRate
  /\ Finish(Top.id, "BLOCKED", "RATE_LIMIT")
  /\ UNCHANGED <<clock, minted, begun, audit, frozen, cause, quarantine,
                 windows, reputation>>
DenyRate ==
  /\ Intercepted /\ HashMatches(Packet)
  /\ OverLimit(buckets[Packet.source])
  /\ CheckRate
  /\ Deny("RATE_LIMIT")
  /\ UNCHANGED <<frozen, cause, quarantine, windows, reputation>>

WithinRate ==
  Intercepted /\ HashMatches(Packet) /\ ~OverLimit(buckets[Packet.source])

DenyLaw ==
  /\ WithinRate /\ ~VirtualLawsHold(Packet, NoTenant)
  /\ CheckRate
  /\ Deny("LAW")
  /\ UNCHANGED <<frozen, cause, quarantine, windows, reputation>>

LawfulOutside ==   \* mutant of Lawful: packets minted inside are trusted
  WithinRate /\ (Len(stack) = 1 => VirtualLawsHold(Packet, NoTenant))
Lawful == WithinRate /\ VirtualLawsHold(Packet, NoTenant)

\* BehavioralScorer.score: the packet's own content, its endpoints, how often
\* its source was seen in the sliding window (weight 0.1) and the source's
\* reputation (weight 0.1).
AtMost(n, bound) == IF n > bound THEN bound ELSE n
Recent(src) ==
  {o \in windows[src] : o.at + ScoreWindow > clock} \cup {[nth |-> begun, at |-> clock]}
Score(p) ==
  p.content + EndpointRisk(p.source, p.destination)
    + (100 * AtMost(Cardinality(Recent(p.source)), RateSoftCap)) \div RateSoftCap
    + reputation[p.source] \div 10
Anomalous(p) == Score(p) >= Threshold
Flagged(p) == ~Anomalous(p) /\ Score(p) >= FlagThreshold

NextReputation(r) ==
  IF Anomalous(Packet) THEN AtMost(r + 250, 1000)
  ELSE IF Flagged(Packet) THEN AtMost(r + 50, 1000)
  ELSE IF r >= 20 THEN r - 20 ELSE 0

ObserveScore ==
  LET src == Packet.source IN
  /\ windows' = [windows EXCEPT ![src] = Recent(src)]
  /\ reputation' = [reputation EXCEPT ![src] = NextReputation(@)]

\* triggerFreeze keeps the first cause; the packet is quarantined either way.
LastTriggerWins(id) == frozen' = TRUE /\ cause' = id   \* mutant of TriggerFreeze
TriggerFreeze(id) ==
  /\ frozen' = TRUE
  /\ cause' = IF frozen THEN cause ELSE id
QuarantineFirst(id) ==   \* mutant of QuarantinePacket: only the culprit
  quarantine' = IF frozen THEN quarantine ELSE Append(quarantine, id)
QuarantinePacket(id) == quarantine' = Append(quarantine, id)

DenyAnomalous ==
  /\ Lawful /\ Anomalous(Packet)
  /\ CheckRate /\ ObserveScore
  /\ TriggerFreeze(Top.id) /\ QuarantinePacket(Top.id)
  /\ Deny("BEHAVIORAL_SCORE")

\* The learned scorer may only add a denial, and only in enforce mode; what it
\* has learned is not modelled, so it may deny any packet that came this far.
DenyLearned ==
  /\ LearnedEnforce
  /\ Lawful /\ ~Anomalous(Packet)
  /\ CheckRate /\ ObserveScore
  /\ Deny("LEARNED_BEHAVIORAL_SCORE")
  /\ UNCHANGED <<frozen, cause, quarantine>>

Allow ==
  /\ Lawful /\ ~Anomalous(Packet)
  /\ CheckRate /\ ObserveScore
  /\ audit' = Append(audit, Audited(Top.id, "ALLOWED"))
  /\ UNCHANGED <<clock, minted, begun, frozen, cause, quarantine>>

\* Step 3 with a handler: the handler starts running.
Deliver ==
  /\ Allow /\ Packet.destination \in Handlers
  /\ stack' = Retag("handler")
  /\ UNCHANGED ledger

\* Step 3 without one.
FailUnhandled ==
  /\ Allow /\ Packet.destination \notin Handlers
  /\ Finish(Top.id, "FAILED", "ALLOW")

-----------------------------------------------------------------------------
(* The handlers. *)

InHandler == ~Idle /\ Top.pc = "handler"

\* sendViaApex from inside the running handler: createPacket, then dispatch
\* with no override token.  The handler resumes when that dispatch returns.
SendViaApex(p) ==
  /\ minted' = Append(minted, p)
  /\ stack' = Append(Retag("return"),
                      [id |-> Len(minted) + 1, token |-> NoToken, pc |-> "gate"])
  /\ begun' = begun + 1
  /\ UNCHANGED <<clock, ledger, audit, knollVars>>

Forwards(p) == p.destination = "APEX" /\ p.suggested \in {"DREAM", "VISION"}
Reports(p) == p.destination \in {"DREAM", "VISION"}

\* APEX's handler passes intent and data on to the suggested destination; the
\* header's tenant is not carried over.
Forward ==
  /\ InHandler /\ Forwards(Packet) /\ Packet.body # "emptyIntent"
  /\ SendViaApex([Packet EXCEPT !.source = "APEX", !.destination = Packet.suggested,
                                 !.tenant = NoTenant, !.internal = TRUE])

\* DREAM and VISION do their work and report to HOPE.  What the result looks
\* like to LAW 6 and to the scorer is up to the work.
ReportThroughApex(body, content) ==   \* mutant of Report: back the way it came
  /\ InHandler /\ Reports(Packet)
  /\ SendViaApex([Packet EXCEPT !.source = Packet.destination, !.destination = "APEX",
                                 !.body = body, !.content = content])
Report(body, content) ==
  /\ InHandler /\ Reports(Packet)
  /\ SendViaApex([source |-> Packet.destination, destination |-> "HOPE",
                   body |-> body, duty |-> NoDuty, suggested |-> NoRole,
                   tenant |-> NoTenant, content |-> content, internal |-> TRUE])

\* createPacket refuses an empty intent; a peer's handler may throw anything.
HandlerThrows ==
  /\ InHandler
  /\ \/ Forwards(Packet) /\ Packet.body = "emptyIntent"
     \/ Packet.destination # "APEX"
  /\ Finish(Top.id, "FAILED", "ALLOW")
  /\ UNCHANGED <<clock, minted, begun, audit, knollVars>>

\* Step 4: the handler returned, whatever became of what it sent.
Succeed ==
  /\ ~Idle
  /\ \/ Top.pc = "return"
     \/ Top.pc = "handler" /\ ~Forwards(Packet) /\ ~Reports(Packet)
  /\ Finish(Top.id, "SUCCESS", "ALLOW")
  /\ UNCHANGED <<clock, minted, begun, audit, knollVars>>

-----------------------------------------------------------------------------
(* The sovereign's overrides, and time. *)

ClearFreeze == frozen' = FALSE /\ cause' = NoPacket

Unfreeze(token) ==
  /\ Idle /\ frozen /\ token \in Recognized
  /\ ClearFreeze
  /\ UNCHANGED <<clock, minted, stack, begun, ledger, audit,
                 quarantine, buckets, windows, reputation>>

\* applySovereignFreezeOverride with a verified FREEZE token: no packet id.
SovereignFreeze ==
  /\ Idle
  /\ TriggerFreeze(NoPacket)
  /\ UNCHANGED <<clock, minted, stack, begun, ledger, audit,
                 quarantine, buckets, windows, reputation>>

Tick ==
  /\ clock < MaxClock
  /\ clock' = clock + 1
  /\ UNCHANGED <<minted, stack, begun, ledger, audit, knollVars>>

Gate == \/ RefuseGarbage \/ RefuseFrozen
        \/ DenyTampered \/ DenyRate \/ DenyLaw \/ DenyAnomalous \/ DenyLearned
        \/ Deliver \/ FailUnhandled

Handle == \/ Forward
          \/ \E body \in {"clean", "malicious"}, content \in ReportContents :
                Report(body, content)
          \/ HandlerThrows \/ Succeed

Environment ==
  \/ \E p \in Arrivals, token \in Tokens : Dispatch(p, token)
  \/ \E id \in DOMAIN minted, token \in Tokens : Redispatch(id, token)
  \/ \E token \in Tokens : Unfreeze(token)
  \/ SovereignFreeze
  \/ Tick

Next == Gate \/ Handle \/ Environment

Spec == Init /\ [][Next]_vars

\* A running dispatch is never abandoned: the thread executes it to its end.
FairSpec == Spec /\ WF_vars(Gate \/ Handle)

-----------------------------------------------------------------------------
(* Properties. *)

PacketIds == 1..Len(minted)
TypeOK ==
  /\ clock \in Nat /\ begun \in Nat
  /\ minted \in Seq(Packets)
  /\ stack \in Seq(Frames)
  /\ \A i \in DOMAIN stack : stack[i].id \in PacketIds
  /\ ledger \in Seq([id : PacketIds \cup {NoPacket}, status : Statuses, verdict : Verdicts])
  /\ audit \in Seq([id : PacketIds, outcome : Outcomes, at : Nat])
  /\ frozen \in BOOLEAN /\ cause \in PacketIds \cup {NoPacket}
  /\ quarantine \in Seq(PacketIds)
  /\ buckets \in [Roles -> [start : Nat, count : Nat]]
  /\ windows \in [Roles -> SUBSET [nth : Nat, at : Nat]]
  /\ reputation \in [Roles -> Nat]

Delivered(f) == f.pc # "gate"
Dest(f) == minted[f.id].destination

\* What the gate adds up to, however deep a dispatch is nested: a handler runs
\* only on an intact packet that KNOLL did not originate, DREAM and VISION are
\* reached from APEX alone (vision/engine.ts "VISION only ever receives packets
\* from APEX"), and a triad role is asked for no duty but its own.
DeliveredIsLawful ==
  \A i \in DOMAIN stack : Delivered(stack[i]) =>
    LET p == minted[stack[i].id] IN
      /\ p.body \in {"clean", "emptyIntent"}
      /\ p.source # "KNOLL" /\ p.destination \in Handlers
      /\ p.destination \in {"DREAM", "VISION"} => p.source = "APEX"
      /\ p.destination \in PrimaryTriad => p.duty \in {NoDuty, RoleDuty[p.destination]}

\* The chain of handlers inside one dispatch is at most APEX, one of DREAM and
\* VISION, HOPE: the simulation and action layers never run inside each other,
\* even through APEX, and the recursion of sendViaApex is bounded.
LayersNeverNest ==
  /\ Len(stack) <= 3
  /\ \A i, j \in DOMAIN stack :
       Delivered(stack[i]) /\ Delivered(stack[j])
         /\ {Dest(stack[i]), Dest(stack[j])} \subseteq {"DREAM", "VISION"}
       => i = j

\* "Always: write a ledger entry": every dispatch, nested or not, leaves exactly
\* one row by the time it returns, on every way out of gatedDispatch.
OneRowPerDispatch == Len(ledger) + Len(stack) = begun

Count(seq, Test(_)) == Cardinality({i \in DOMAIN seq : Test(seq[i])})

\* KNOLL's audit and APEX's ledger tell one story of every packet: as many
\* ALLOWED verdicts as rows that say it was delivered or failed after the gate
\* plus deliveries still running, and as many BLOCKED verdicts as rows KNOLL
\* refused.  A freeze refusal and garbage reach no audit.
AuditMatchesLedger ==
  \A id \in PacketIds :
    /\ Count(audit, LAMBDA a : a.id = id /\ a.outcome = "ALLOWED")
         = Count(ledger, LAMBDA r : r.id = id /\ r.status # "BLOCKED")
           + Count(stack, LAMBDA f : f.id = id /\ Delivered(f))
    /\ Count(audit, LAMBDA a : a.id = id /\ a.outcome = "BLOCKED")
         = Count(ledger, LAMBDA r : r.id = id /\ r.status = "BLOCKED"
                                      /\ r.verdict # "SYSTEM_FREEZE")

\* The freeze always points at the packet that tripped it, that packet is in
\* quarantine, and the quarantine lists, in order, every anomalous denial the
\* ledger has: also those that an override let in while already frozen.
Anomalies(n) == Cardinality({i \in 1..n : ledger[i].verdict = "BEHAVIORAL_SCORE"})
CulpritQuarantined ==
  /\ cause # NoPacket => frozen /\ \E i \in DOMAIN quarantine : quarantine[i] = cause
  /\ Len(quarantine) = Anomalies(Len(ledger))
  /\ \A i \in DOMAIN ledger :
       ledger[i].verdict = "BEHAVIORAL_SCORE" => quarantine[Anomalies(i)] = ledger[i].id

\* checkRate: since a source's window opened, KNOLL allowed at most RateLimit
\* of its packets, denials and nested dispatches in between notwithstanding.
RateBound ==
  \A src \in Roles :
    Count(audit, LAMBDA a : /\ a.outcome = "ALLOWED"
                            /\ minted[a.id].source = src
                            /\ a.at >= buckets[src].start) <= RateLimit

\* While frozen, no handler is entered except for the outermost dispatch of a
\* caller that presented a recognized override; the override is not inherited
\* by what that handler sends (router.ts step 1b, orchestrator.ts sendViaApex).
NoDeliveryWhileFrozen ==
  [][frozen =>
       \A i \in DOMAIN stack' :
         Delivered(stack'[i]) /\ (i \in DOMAIN stack => ~Delivered(stack[i]))
           => i = 1 /\ stack'[i].token \in Recognized]_vars

\* "The FIRST trigger wins": while the freeze lasts its recorded cause does not
\* change, no running dispatch can lift it, and lifting it empties nothing
\* out of quarantine (freeze.ts triggerFreeze, unfreeze).
FreezeHeld ==
  [][frozen => IF frozen' THEN cause' = cause
                          ELSE Idle /\ quarantine' = quarantine]_vars

\* Every dispatch returns, with all the dispatches nested in it: no chain of
\* handlers and denials leaves the thread inside the backbone.
EveryDispatchReturns == ~Idle ~> Idle

\* freeze.ts: "the quarantined packet can never re-enter routing".
QuarantineNeverRouted ==
  \A i \in DOMAIN stack, j \in DOMAIN quarantine :
    stack[i].id = quarantine[j] => ~Delivered(stack[i])
=============================================================================
