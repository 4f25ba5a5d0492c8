------------------------------ MODULE DeepHealth ------------------------------
(***************************************************************************)
(* The deep health check (gateway/deep_health.ts): one probe for each      *)
(* configured dependency, all at once, each raced against a timer, while   *)
(* the dependencies break, hang and recover.                               *)
(***************************************************************************)
EXTENDS FiniteSets

CONSTANTS
  Checks,       \* the checks in flight
  Dependencies  \* what is configured: Postgres, Redis and the providers

VARIABLES
  check,    \* [Checks -> its probes, or NoCheck]
  working   \* the dependencies that answer as they should

healthVars == <<check, working>>

\* waiting: probes not settled; bad: those that failed; broken, history: what
\* has not worked at any moment since the check began.
NoCheck == [on |-> FALSE, waiting |-> {}, bad |-> {}, broken |-> {}]

HealthInit == check = [k \in Checks |-> NoCheck] /\ working = Dependencies

\* runDeepHealthChecks starts every probe before it awaits any.
StartCheck(k) ==
  /\ ~check[k].on
  /\ check' = [check EXCEPT ![k] = [on |-> TRUE, waiting |-> Dependencies, bad |-> {},
                                   broken |-> Dependencies \ working]]
  /\ UNCHANGED working

Settle(k, d, bad) ==
  /\ d \in check[k].waiting
  /\ check' = [check EXCEPT ![k].waiting = @ \ {d}, ![k].bad = @ \cup bad]
  /\ UNCHANGED working

ProbeAnswers(k, d) == d \in working /\ Settle(k, d, {})
\* boundedCheck: what the probe throws is a check that failed.
ThrowIsFine(k, d) == d \notin working /\ Settle(k, d, {})   \* mutant of ProbeThrows
ProbeThrows(k, d) == d \notin working /\ Settle(k, d, {d})

\* withTimeout: a probe that hangs has failed when its timer ends.
TimerEnds(k, d) == Settle(k, d, {d})

\* The answer, 200 or 503, goes out when every probe is settled.
Healthy(k) == check[k].bad = {}
Settled(k) == check[k].on /\ check[k].waiting = {}
AnswerCheck(k) ==
  /\ Settled(k)
  /\ check' = [check EXCEPT ![k] = NoCheck]
  /\ UNCHANGED working

Breaks(d) == d \in working /\ working' = working \ {d} /\ UNCHANGED check
Recovers(d) ==
  /\ d \notin working /\ working' = working \cup {d}
  /\ check' = [k \in Checks |-> [check[k] EXCEPT !.broken = @ \ {d}]]

Advance(k) ==
  \/ AnswerCheck(k)
  \/ \E d \in Dependencies : ProbeAnswers(k, d) \/ TimerEnds(k, d)

HealthNext ==
  \/ \E k \in Checks : StartCheck(k) \/ Advance(k) \/ \E d \in Dependencies : ProbeThrows(k, d)
  \/ \E d \in Dependencies : Breaks(d) \/ Recovers(d)

\* A probe that has not answered has a timer that will end.
HealthFair == \A k \in Checks : WF_healthVars(Advance(k))
HealthSpec == HealthInit /\ [][HealthNext]_healthVars /\ HealthFair

-----------------------------------------------------------------------------
(* Properties. *)

HealthTypeOK ==
  /\ working \subseteq Dependencies
  /\ check \in [Checks -> [on : BOOLEAN, waiting : SUBSET Dependencies,
                           bad : SUBSET Dependencies, broken : SUBSET Dependencies]]

\* The check calls the system healthy only if each configured dependency worked
\* at some moment since it began, whichever probes hang, throw or come late
\* (deep_health.ts: "True only when every CONFIGURED, non-skipped dependency
\* reported ok").
HealthIsHonest == \A k \in Checks : Settled(k) /\ Healthy(k) => check[k].broken = {}

\* The check is answered even when a dependency never answers its probe.
HealthAnswers == \A k \in Checks : check[k].on ~> ~check[k].on
=============================================================================
