# A verification project for the HDV Foundation backbone

TLA+ modules that model the parts of this repository whose correctness depends
on the order in which things happen, the TLC runs that check them on small
instances, and theorems about them that TLAPS checks for every value of their
constants. `PROJECT.json` is the index: the components, what each run checks,
the source lines each definition stands for, the hazards the properties are
for, and the theorems.

## 1. The system

One Node process (`gateway/cli.ts`) hosts almost everything. Handlers are
synchronous unless they `await`; nothing else can interleave with them. So the
models have four sources of interleaving, and only these:

* an `await` in a handler (Stripe, Redis, Postgres, Kafka, a language model);
* a callback that re-enters the component that called it (a dispatch inside a
  handler of a dispatch, a publish inside a delivery);
* other processes: workers that share Redis or post to the gateway, Stripe's
  webhooks, a crash and a restart;
* the thread pool of a Colab server (Python), the one place with real threads.

### Parts, state, operations

| Part | State it keeps | Operations | What is hard, and what makes it correct |
|---|---|---|---|
| APEX (`apex/`) | handler table, ledger | dispatch, forward, consume the bus | Re-entrant dispatch. One ledger row per dispatch; layers never nest; a dispatch returns. |
| KNOLL (`knoll/`) | freeze, quarantine, rate buckets, score windows, reputation, audit and its hash chain | intercept, unfreeze, probe, verify | Freeze in the middle of a dispatch tree. Only lawful packets delivered; the freeze holds and names its first cause; rate bound; audit agrees with ledger; the learned scorer only adds. |
| Holloway (`holloway/`) | acting and former Primes, directives, ledger | direct, countermand, succeed, override | Tokens that outlive a role. An override was live when it was accepted; the ledger tells the history. |
| Bus (`persistence/kafka_stub.ts`, `kafka_real.ts`) | logs, groups, cursors, in-flight | publish, subscribe, ack, nack, close | Re-entrancy, replay, an ack that is not what commits. Nothing lost, order per partition, no stall. |
| Task queue (`persistence/redis_router_stub.ts`) | ready list, in flight | enqueue, dequeue, ack, nack, clear | Order by class with tasks handed back. |
| Store (`persistence/prisma_repos.ts`) | ten projections, write queue | read, write, flush, hydrate | Failures, crashes, shutdown. The database follows memory in order; a clean exit lost nothing; a restart answers alike. |
| Accounts (`auth/`) | users, sessions | signup, login, logout, resolve | Two writes without a transaction; sessions that end between requests. |
| Leases (`nodes/lease.ts`) | entry per slice | claim, renew, release | Expiry racing a renewal, crashed holders, GET then DEL. One holder; stale holders fenced; dead holders freed. |
| Node fleet (`nodes/`), DREAM (`dream/`) | managers, nodes, activations, energy | activate, materialise, idle, simulate, schedule | Long sequences of legal calls; what a simulation leaves behind. |
| Creator payouts (`creator/`) | profile with Stripe's ids and a cached status | apply, verify, pay, webhook | Awaits, late and repeated webhooks. Pay only the verified creator; the cache never invents a verification. |
| Gateway (`gateway/`) | rate-limit buckets, flags | HTTP routes, worker reports, health | Guard order, an await between deciding and dispatching, lost answers. |
| Billing (`billing/`), tenancy (`tenancy/`) | allowance accounts, meter, checkout sessions, catalog | consume, meter, change tier, check out, settle, resolve | A cap and a tier that move under the spending; three files that must agree on the model and the bill. |
| VISION (`vision/`), marketplace, workflow | sandbox sessions, slots, monitor, registry | create, start, run a tool, stop, register, run a task | A slot given back on every way out; nothing unvetted runs. |
| HOPE (`hope/`), companion (`companion/`) | archive, reflections, memories | interpret, remember, forget, take a turn | A memory read before an await and written after it; a container kept past a forget. |
| Waiting list (`market/`) | capped list | sign up | Repeated and refused half-way. |
| Providers (`providers/`), serving | one call | request, stream | A timer, a signal and a body cut anywhere. |
| Observability (`observability/`) | counters, ring of spans | observe, read | A sink that throws; what is counted against the ledger. |
| Colab workers (`colab/*.py`) | files, pipelines | batch, draw, report | Killed at any moment; threads that evict what others load. |

### How they interact

HOPE, the HTTP routes, the bus consumer and the workers' reports all enter APEX
by `router.dispatch`. APEX asks KNOLL, then calls the destination's handler,
which may send again through APEX (`sendViaApex`) before it returns: a call
stack of dispatches. KNOLL's anomaly score may trip the freeze from the inside
of such a stack; a sovereign token lifts it. Ledger, audit, accounts, sessions
and memories are written to a projection and queued for Postgres by one write
queue. Workers take slices through leases and report by HTTP over a network that
loses answers. Creators' payouts talk to Stripe and to the profile store only.
Observers (meter, metrics, tracer) are called with every dispatch's result.

## 2. Modules

| Module | Models | Uses |
|---|---|---|
| `VirtualLaws` | the laws, the duty table and the schema check (`knoll/laws.ts`, `config/duty.ts`, `config/routing_schema.ts`) | |
| `ApexKnoll` | the dispatch stack, the gate and the handlers (`apex/`, `knoll/`) | `VirtualLaws` |
| `LearnedGate` | KNOLL with and without the learned scorer on the same packets, and the evaluation board | |
| `AuditChain` | the audit log, its hash chain, the active router's probes | |
| `Sovereignty` | the sovereign layer and the designated ledger | |
| `KafkaStub` | the in-memory bus and APEX's consumer on it | |
| `KafkaReal` | the kafkajs queue over an external model of broker and client | |
| `TaskQueue` | the priority queue | |
| `SliceLock` | what a lease promises: a lock with numbered tenures | |
| `NodeLease` | the in-memory lease | refines `SliceLock` |
| `RedisLease` | the Redis lease, a command at a time | |
| `WriteThrough` | the write-through store, the accounts, the ledger's mirror and the gateway's life | |
| `Projections` | each of the ten repositories: memory against its Postgres table over restarts | |
| `Fleet` | managers, nodes, activations, their durable mirror, and DREAM's walk over them | |
| `DreamScheduler` | the energy meter and the scheduler of background simulations | |
| `Sandbox` | sandbox sessions, the manager's cap, the monitor, the engine, the containers | |
| `SafeArithmetic` | the calculator: a shunting yard against a reference grammar | |
| `Vetting` | the marketplace's signed tools and the workflow guard | |
| `CreatorPayout` | verification, payouts and webhooks against Stripe | |
| `Billing` | price book, allowance accounts, meter, checkout stub and their gateway handlers | |
| `Tenancy` | entitlement, model resolution, endpoint and bill | |
| `FrontDoor` | the guards of every request: key, rate windows, sweep | |
| `Routes` | the routes of accounts and creators | |
| `Companion` | turns, streams, pictures and scenes across a provider's await; personas and credits | |
| `Intake` | utterances and workers' reports across awaits, a lossy network and a freeze | |
| `DeepHealth` | the deep health check: probes racing their timers | |
| `Waitlist` | the waiting list | |
| `ProviderCall` | one call of a client, with its timer, the caller's signal and a body cut anywhere | |
| `HopeMemory` | the intent archive, the Reflected Hopes and the intel exception | |
| `Meters` | metrics, spans, fan-out and the reads of them | |
| `Pregenerate` | the batch of portraits that may be killed | |
| `PortraitServer` | the portrait server's pipelines under threads | |
| `Mesh` | the parts within the mesh side by side, and what they promise together | `Sovereignty`, `AuditChain`, `Fleet`, `Sandbox`, `SafeArithmetic`, `DreamScheduler`, `TaskQueue`, `KafkaStub`, `Meters`, `Vetting`, `LearnedGate` |
| `Gateway` | the parts behind the HTTP gateway side by side, and what they promise together | `FrontDoor`, `Routes`, `Companion`, `Intake`, `DeepHealth`, `Waitlist`, `ProviderCall`, `HopeMemory` |
| `Durable` | what has to outlive a crash and the Colab workers, side by side, and what they promise together | `NodeLease`, `RedisLease`, `WriteThrough`, `Projections`, `KafkaReal`, `Pregenerate`, `PortraitServer` |
| `MCApexKnoll`, `MCMesh`, `MCMoney`, `MCGateway` | the instances for TLC | the modules |
| `...Proofs` | theorems (section 5) | the modules they are about, `TLAPS` |

`Mesh`, `MCMoney`, `Durable` and `Gateway` share one form. Their components have no
state in common, so the variable `part`, chosen at the start, says which of them
the behaviour moves; the others stay as they began. The states of such a
run are the union of the components' own, not their product, and each
component's fairness is stated for the behaviours that move it. Components that
do interact are in one module: the gate and its handlers and laws, the bus and
its consumer, the accounts and the write queue, the fleet and DREAM, the engine
and the sandboxes, the meter and the accounts it charges, the worker's job and
the gateway it posts to, both KNOLLs on one history of packets.

### VirtualLaws and ApexKnoll

A packet is a record of what the gate can tell apart: its roles, its duty, its
tenant, a content score, a body that is clean, malicious, tampered with, not a
packet at all, or empty. `stack` is JavaScript's call stack of dispatches; its
top is at the gate, in its handler, or waiting to return. Each way out of
`gatedDispatch` is an action (`RefuseGarbage`, `RefuseFrozen`, `DenyTampered`,
`DenyRate`, `DenyLaw`, `DenyAnomalous`, `DenyLearned`, `FailUnhandled`,
`Deliver`) whose guard repeats the order of the checks. `Forward`, `Report`,
`HandlerThrows` and `Succeed` are what a handler does next. Callers dispatch,
dispatch again what they still hold, present override tokens and lift the
freeze only when the stack is empty, since all of it is one synchronous call.
The features' weighted sum is kept in thousandths, with the code's thresholds
and reputation steps. Here the learned scorer may deny any packet that reaches
it in enforce mode; its own state is `LearnedGate`'s.

The nested packet carries neither the outer one's tenant nor its override; the
cross-tenant law compares with a context the router never passes, and is
modelled as just that. A packet may name a role that no agent has (`STRANGER`),
which the second law refuses.

A handler that trips the freeze may still return well: the router looks at the
freeze before it calls the handler and enters the row after it. So no property
says that a frozen mesh enters no success; `NoDeliveryWhileFrozen` says what does
hold, that no handler is *entered* on a frozen mesh without an override.

### LearnedGate

The code claims that the learned scorer is "additive only": it may deny more,
never less. Both scorers remember their sources, so this is a claim about
histories, not packets. `gate` and `plain` are KNOLL's state with and without
the learned scorer, fed the same cases of the evaluation board; `learned` is the
learned scorer's own memory, `model` its weights, of which training is a choice.
`BoardIsHonest` says that the two gates remember the same throughout, that the
scorer only adds denials and only when it enforces, and that the board's verdict
and percentiles are those of its cases. It is one of the three conjuncts of
`RecordsAreTrue`.

### AuditChain and Sovereignty

A hash is the content it was computed from. Entries are recorded by verdicts and
probes, the chain is rebuilt, and somebody edits, drops and exchanges entries in
between; `detectTamper` must tell any difference from what was sealed last.
`Sovereignty` keeps the acting and former Primes, the directives with their
state, signed tokens in anybody's hands, and the ledger as a sequence.

### KafkaStub, KafkaReal, TaskQueue

`KafkaStub` calls handlers before its methods return, and a handler may call any
method. `stack` holds a frame per `publish` that fans out, per `subscribe` that
hands over a backlog, per `deliverNew` loop with the cursor it read, and per
handler. A message is its partition and offset. The history variables `seen`,
`committed` and `dropped` say what became of each message in each group.

A handler may throw, and no loop of the bus catches (`kafka_stub.ts:202`, `:276`,
and the fan-out at `:154`): `HandlerThrows` drops every frame up to a handler whose
own code catches, or all of them, and records in `aborted` the groups and
partitions whose hand-over was cut off. Messages then wait although a subscription
could take them, until a later publish or subscribe begins the hand-over again;
`NoStall` names that exception and allows no other. A subscription whose `subscribe`
threw is registered and its caller has no handle on it; the model lets it be closed
like any other, which the properties do not rely on.

`KafkaReal` models broker and client from how `kafka_real.ts` uses them
(external): sends that fail or land late, commits on the client's own timer,
retries of a handler that throws, a rebalance, a crash. A group has no committed
offset until a message was handled and the client's timer has run. Until then each
start and each rebalance (`Resume`) puts it at the beginning of the topic if its
consumer asked for a replay (`Replaying`), and otherwise at the end as it is then:
`since` is where it last began so. `NothingForgotten` says where a message is after
all that: in the topic, on its way, or a send of it failed; what a group has
committed, counted from where it began, its handlers have dealt with, or it met a
subscription that was closing; what was handed back is on its way or in the topic
where the group has not taken it. A group that does not ask for a replay and dies
before its first commit passes over what was sent meanwhile; the property says that
this is the only way past a message (`since[g] # 0` needs such a consumer). APEX's
own consumer asks for the replay (`orchestrator.ts:190`).

### SliceLock, NodeLease, RedisLease

`NodeLease` has one action per outcome of claim, renew and release, and keeps
both sides: the map's entry, and the claim each worker was handed and believes
in. Time is counted down (`left`) instead of compared with a clock, so no clock
bound is needed. `RedisLease` splits each call at its awaits; `network` chooses
whether commands take time. On a late network a worker's idea of its expiry is
later than the server's, and `RedisNoDoubleClaim` is stated for the prompt one
only. `RedisTtls` are positive: Redis refuses a time to live of 0, to which a
fraction of a millisecond is rounded.

### WriteThrough and Projections

In `WriteThrough` each table is a set of rows in `db` and in `mem`; a queued
write carries the projections it left (`after`), which is what lets `Mirror` and
the proof speak of intermediate databases. `RunWrite` executes the head of the
queue: it is applied, refused because its key is taken, or fails for a reason of
its own, possibly after it was applied. `Boot`, `Shutdown`, `FlushReturns`,
`ExitClean`, `FlushThrows` and `Crash` are the process. A companion's memory may
be written while the process flushes, because the turn that saves it is not
awaited by the HTTP server.

`Projections` is about what the ten repositories differ in; one behaviour is one
repository (`kind`). Its database always takes the write; the question is what a
process that hydrates from it answers: other columns written by Postgres itself,
second keys that are rebuilt, upserts under another id, rows in another order.

### Fleet, DreamScheduler, Sandbox, SafeArithmetic, Vetting

`Fleet` is `ManagerMatrix` and its nodes with every legal call, and two users:
callers of the matrix, and DREAM, which walks a tree of outcomes and must leave
the fleet as it found it (`DreamEndsClean`). An idled manager is returned idle by
the next activation and stays so (`IdleForGood`): the code's behaviour, stated
so that a change to it is noticed. `Sandbox` follows sessions of both kinds, with the container a client
that gave up may have left; `BooksAgree` relates session and monitor,
`SlotsAreHonest` the manager's count and the sessions that hold a slot.
`SafeArithmetic` runs the shunting yard over every list of tokens up to a length
and compares with a grammar by precedence and associativity. `Vetting` puts
registrations, signatures and workflow nodes through their gates in any order.

### CreatorPayout

A request is a slot that remembers what it read before its awaits. Stripe
numbers the accounts and sessions it makes, changes its mind about payouts, and
sends events that stay deliverable for ever. `disturbed` is history: creators
whose account may have been made and forgotten (a failure between making and
saving it, an overlapping request, a second application).

### Billing and Tenancy

Every call of `Billing` is synchronous, so an action is a whole call: an observed
dispatch (`Skip`, `ObserveEphemeral`, `ObserveOther`), a handler of the gateway
(`Read`, `Allowance`, `Checkout`, `Settle`), or time. `accounts` is a function
whose domain grows, because reading a tenant's usage or estimate opens its
account; the meter bills all live traffic to the tenant `hdv_default`, as the
code does. A session may be settled as often as the caller likes, and each time
the tenant's tier is set again and its overrides dropped: settling an older session
that is complete takes the tenant back to that session's tier. Past its time a
session turns "expired" whenever it is settled, a paid one too; `LapseCostsNothing`
says that this leaves the plan, the allowance and the payment as they are. Prices, the cap and the
ledger's costs are small numbers that keep the ratios which the branches of
`estimate` and `consume` compare; `Absent` is a field that a request leaves out.

`Tenancy` keeps no state between calls, so a behaviour is one call for one
choice of plan, keys, cap and request; `RouteIsEntitled` compares the model,
endpoint and bill with what the plan and the keys entitle to, over all of them.

### FrontDoor, Routes, Companion, Intake, DeepHealth, Waitlist, ProviderCall, HopeMemory, Meters

The gateway's requests, split where they share nothing. `FrontDoor` has the
guards in their order and the fixed windows with their sweep; a request that
passes it enters one of the others. `Routes` has sign-up to log-out and the
creator routes behind a session that may expire, be removed or be reaped between
two requests. `Companion` reads before a provider's await and writes after it,
while other turns, claims and log-outs go on (`overlapped` is history). `Intake`
has an utterance held by the enricher and a worker that posts its report again when
no answer came, over a router that may be frozen by others or by the dispatch
itself, whose row may then still be a success. `DeepHealth` races each probe with
its timer. `ProviderCall` has the timer, the caller's signal, the headers and a
body that is cut anywhere, inside a line and inside a character. `HopeMemory`
has memories that share one store and one clock, and intents under a fresh id or
one that the caller names, which replaces whatever is there, another tenant's too;
containers that callers keep past a forget, and consent that is given and withdrawn.
`ReflectedId` is any function: a slug and a hash of 32 bits may give two users one
container, and what one of them collects or forgets is then the other's. `Meters` compares what
the observers counted with the ledger when one of them throws.

### Pregenerate and PortraitServer

`Pregenerate` is the batch job a file operation at a time, with a kill at any
point and a start that finds what the disk kept. `PortraitServer` is one
operation on the pipelines' dictionary per step and thread. A request ends drawn, not
authorised, unavailable (503, for a RuntimeError out of `get_pipeline`), or 500: by
a KeyError of that dictionary or by anything else the library raises, in a load or
while it draws. Whatever threads evict and load, `LikenessIsOwn` says that no
picture is drawn with another's likeness and that a request beside which no other
ran never ends by the KeyError: what fails it then is the library.

## 3. Runs

| Run | Instance | Shows |
|---|---|---|
| `apex_calls` | 10 caller packets, which forward, report or meet each check of the gate; 1 token, learned scorer enforcing, ledger up to 3 rows + the tree | `LayersNeverNest`, `CulpritQuarantined`, `NoDeliveryWhileFrozen`, `FreezeHeld`, `DeliveredIsLawful`, `AuditMatchesLedger`, `RateBound`, `EveryDispatchReturns` |
| `durable_parts` | the leases (3 workers, 2 slices, lease times 0 and 2; Redis: 2 workers, 1 slice, both networks), the store (1 account, 1 companion, 4 writes, faults), the repositories (2 names, 3 saves), kafkajs (2 messages, 2 consumers of which one replays, a topic of 2), the batch (3 cells, one with a scene, 4 starts), the portrait server (2 threads, 2 styles, 2 faces of which one is trained) | `ImplementsLock`, `StaleIsFenced`, `RedisNoDoubleClaim`, `CrashedSlicesFreed`; `Mirror`, `NoOrphanSession`, `CleanExitIsDurable`, `ShutdownEnds`; `RestartAnswersAlike`; `NothingIsLeftUndone` (Kafka and batch); `LikenessIsOwn` |
| `money_parts` | billing (2 tenants, the tiers of the price book, 3 dispatches, 1 checkout session), payouts (2 creators, 2 requests, 3 accounts and verification sessions), tenancy (the 7 models of the catalog, every plan, cap and key) | `MeterAgrees`, `PlanIsPaidFor`, `LapseCostsNothing`, `CapIsFirm`; `PayoutStateIsSound`, `PaidOnlyVerified`; `RouteIsEntitled` |
| `gateway_parts` | the door (2 addresses, 1 tenant, limits of 1), a companion (2 slots, 3 turns, 2 people), intake (1 utterance, 1 worker of 3 attempts), health (2 dependencies), the waiting list (2 emails, capacity 1), a provider's call (6 pieces), routes (2 users, 1 persona, 2 sessions), HOPE (2 memories over one store, 2 tenants, 3 intents; 3 owners of whom 2 share a reflected id) | `LimitsHold`, `CompanionRemembers`, `ReportedOnceUnlessSilent`, `SaysWhatItHeard` (health and stream), `ClaimsAreKept` (waiting list, creators), `HopeKeepsApart`, `EverythingAnswered` |
| `mesh_parts` | the sovereigns (2, 2 directives), the audit chain (3 entries), the fleet (2 managers of 3), sandboxes (3, a cap of 1), the calculator (7 tokens), the scheduler, the task queue (4 tasks of 3 classes), the bus (2 groups, 2 messages, 2 subscriptions, all methods, handlers that throw), the meters (a throwing sink among them), vetting (3 registrations), the learned gate (5 kinds of case, 3 cases) | `SovereigntyIsAccountable`, `RecordsAreTrue` (chain, meters, evaluation board), `DreamIsSound` (fleet, mirror, scheduler), `VisionIsSound` (sandbox, vetting), `ArithmeticIsInfix` (calculator), `TasksKeptInOrder`, `BusIsSound` |
| `apex_quarantine_reentry`, `bus_once`, `lease_redis_delete`, `store_ledger`, `batch_resume`, `provider_timeout`, `billing_overage` | | one finding each (section 4) |

A property of several components is the conjunction of one property each,
defined in `Mesh`, `Durable`, `Gateway` or the `MC` module.

**Why the bounds are enough.** `MaxRows = 3` lets a second tree start after a
first one of three dispatches, so a freeze tripped in one is met by the next;
`RateLimit` and `RateSoftCap` are 2 and the windows 1, so that they are reached,
overrun and, a tick later, reopened. Only the enforcing scorer is run there, which
may deny or let pass at each packet that reaches it; the theorems hold for the
advisory one too. Two groups and two messages show every order of two
deliveries, and one more message could only repeat a loop already entered;
`MaxSubs = 2` gives a partition an owner that closes and one that takes over.
Handlers publish, subscribe, close, nack and throw; an ack from inside a delivery is the
one of APEX's consumer. Three workers on a lease give a stale one, a current one
and a challenger; the second lease time, 0, is what a fraction of a millisecond
becomes. Four writes are a signup (two writes), a login and what a crash cuts off
in a second life. Three accounts and sessions are the smallest number with a
second account for one creator and a session for each of them. Three metered
dispatches overrun the ring of occurrences and meet a cap before, at and after
its limit; one checkout session suffices because sessions do not meet except in
the tier they set, and `PlanIsPaidFor` is proved for any number of them. Three
turns on one companion are two that overlap and one that reads what they left.
Three entries of a chain allow an edit, a drop and an exchange in the middle,
before and behind. Limits of one make every window overrun; a sweep above one
bucket happens. Three sandboxes under a cap of one give a session that is
refused beside one that runs and one of the engine. Seven tokens are three
operators with their operands or a pair of parentheses around one. Six pieces of
a stream are cut inside a frame, between frames and inside a character. Three
cases on the board overrun the rate of 2 and let a learned verdict at one matter
to a later one. Three saves and a restart between any of them show each
repository's insert, update and second key.

**Deadlock.** Every component with bounded calls may stop: with its bounds used
up and nobody in a call there is nothing left to do, so the runs with parts, and
the two of the bus, do not ask for a successor. `apex_calls` does.

**Fairness.** `apex_calls` assumes that the thread executes what it has begun
(`WF` on the steps of a running call), and nothing of callers or time. The leases
assume that time passes and, for Redis, that a live worker's call goes on.
`WriteThrough` assumes that the event loop runs the queue and the continuation
after a flush: a promise chain that Node drives whatever the requests do. At the
gateway a turn that awaits a provider ends (`Finish`), which the client's timer
sees to until the headers have come and which is an assumption about the
provider after that (the finding `provider_timeout`); an utterance goes on when
its enricher has answered or failed (`Hold`, `Submit`); a worker's job goes on
after its timeout (`Work`); and a probe answers or its timer ends (`Advance`).
No liveness property assumes that a caller acts.

## 4. Findings

Seven statements of the repository that the code does not keep, each the one
property of a run that TLC violates:

* `knoll/freeze.ts:122` "the quarantined packet can never re-enter routing": the
  router asks no quarantine, and the scorer's windows have moved on.
* `persistence/kafka_stub.ts:14` "exactly once" within a group: the delivery loop
  keeps its cursor over the handler's call.
* `nodes/lease.ts:84` "compare-and-delete": the Redis release compares and deletes
  in two commands.
* `config/schema.prisma:22` one durable row per routed packet: row ids start at 1
  in every life and are primary keys.
* `billing/pricing.ts:11` "within its included allowance": the estimate compares
  with the tier's allowance of the price book, not with the account's own, which
  the operator may have raised.
* `providers/openai_compatible.ts:39` "Per-request timeout": the timer is cleared
  when the headers arrive, before the body is awaited.
* `colab/09_batch_pregenerate.py:18` "just run it again": a job killed while it
  writes `manifest.json` leaves a torn file, on which every later start fails.

Smaller disagreements met while modelling. The modules follow the code:

* `kafka_real.ts`: a nack's comment carries the delivery count forward, but the
  count of a delivery is always 1; a nack publishes to all groups again; a close
  deletes the group's entry even if a newer consumer owns it. "At-least-once"
  (`:5`) does not hold for a group without a replay before its first commit.
* `kafka_stub.ts`: an exception of a handler reaches whoever published, and leaves
  what the loops had not handed over waiting (`:154`, `:202`, `:276`).
* `apex/router.ts`: the freeze is read at `:159` and SUCCESS entered at `:215`, so a
  mesh that is frozen in between enters a success; `hope/voice.ts:38` then says
  "Done — your request was routed and processed", as it does when a dispatch nested
  in it was blocked.
* `knoll/hashchain.ts`: a changed length is reported at the shorter of the two
  lengths, not at the first divergence. `knoll/scoring.ts`: reputation "slowly
  decays" with clean traffic, but from about 0.14 on a source's ordinary packets
  are flagged because of it, and it climbs.
* `knoll/holloway_bridge.ts`: an unfreeze leaves no record in the designated
  ledger; the recogniser does not look at the token's action.
* `gateway/server.ts` says that creator routes are not exempt from the API key,
  `middleware.ts` exempts them. `colab/worker_job.py` takes a 429 for terminal.
* `nodes/matrix.ts`: `activateManagers` "brings up to N online" and may return an
  idle one; a simulation of depth 0 leaves its manager active.
* `creator/`: a second application loses Stripe's ids; a webhook's "verified" may
  be taken back by a verification that read before it.
* `providers/`: a body that breaks rejects with the transport's error, not the
  client's; a completion of blanks passes the check for an empty one.
* `tenancy/tenant.ts:71`: an own-key tenant whose keys are unusable is uncapped on
  the platform's bill; a key's own model passes by the resolved one and the cap.
* `hope/reflected`: `privacy.ts:7` says the container consults consent before it
  records; only the registry's `collect` does. `segmentation.ts:22` says "different
  userIds never collide", which a slug and a hash of 32 bits (`:29`) do not ensure.
  `hope/memory.ts`: two memories over one store mint equal ids in the same
  millisecond, and an id that the caller names replaces another tenant's intent
  (`:101`, `:229`): "tenant isolation" is kept by what a recall answers, not by
  what a remember replaces.
* `marketplace`: a version registered again keeps its place, so "latest" by name
  is the last new version. `workflow/knoll_guard.ts` refuses the "vision" nodes
  that its bridge makes. `mcp/tools.ts`: a limit of 0.5 returns the whole ledger.
* A logout reaches the database later than the cache: a crash in between brings
  the session back. `RequestLog.packetId` is unique, so a packet that is dispatched
  twice has one durable row.

## 5. Theorems

Seven modules prove, for every value of the constants, the properties below, all
of the safety properties that a passing run checks but one:

| Module | About |
|---|---|
| `ApexKnollProofs` | the dispatch stack and the gate |
| `MeshProofs` | the bus, the sovereigns, the task queue |
| `MeshPartsProofs` | sandboxes, vetting, the fleet with DREAM, the scheduler, the audit chain, the meters, the evaluation board |
| `DurableProofs` | both leases, the portrait server, kafkajs, the batch, the store, the repositories |
| `BillingProofs` | billing, tenancy |
| `CreatorPayoutProofs` | payouts |
| `GatewayProofs` | intake, front door, companion, health, waiting list, routes, HOPE, a provider's stream |

The bounds of the runs are constants like the others: no theorem depends on their
size. The assumptions on constants are those the modules name, which TLC
evaluates on the instances; the ones that carry weight are `RateAssumption` (a
limit and a window of at least one), `LimitsAssumption` (the front door's window
is not empty), `RedisAssumption` (times to live are positive), `SendersAssumption`
(HOPE is not a worker), `PrimesAssumption` (the first Acting Prime is a Prime),
`CatalogAssumption` (no model id is in the catalog twice, which
`config/models.json` keeps and the constructor does not check),
`FleetAssumption` (the fleet is not empty), `SchedulerAssumption` (an idle stretch
is at least one tick, and the threshold does not exceed what three bursts bring),
`BucketsAssumption` (the histogram's bounds ascend), `SinksAssumption` (the meters
and the tracer are among the sinks), `TrafficAssumption` and `LearnedAssumption`
(what is observed has a duration that is a number, not below zero).

**The backbone.** `EveryDispatchBilledOnce` is inductive with the types alone. The
chain of dispatches rests on `ChainInv`: every frame above the outermost one
carries no override token, and its packet is one that the handler of the frame
below may send (a forward or a report). A dispatch tree is therefore APEX, one
layer, HOPE at most (`LayersStayApart`), and a frozen router enters no nested
handler (`FreezeStopsRouting`). `FirstTriggerWins` needs the types only.
`OnlyLawfulDelivered` is proved from the stronger fact that each delivered packet
is a `LawfulPacket`, which `GateMakesLawful` derives from the laws, the hash and
the shape check, and from packets never changing once minted.

**The backbone's counts.** `AuditMatchesLedger`, `RateBound` and
`CulpritQuarantined` count rows of sequences that grow. `Number(s, S)` is how many
elements of `s` are in `S`, and `NumberAppended` is what one more element does to
it; with that the counting needs no recursion. For the audit (`AllBalanced`): of
each packet, the ledger's rows and the running frames that passed the gate are as
many as the audit's entries of the same outcome, so that a handler which is still
running accounts for the difference (`AuditAndLedgerAgree`). For the rate
(`RateInv`): the bucket has counted at least every entry allowed since its window
began, and no entry is later than the window's end, so that a new window begins
with none (`RateIsBounded`). For the quarantine: one entry for each anomalous row
of the ledger, in the same order, and the packet that tripped the freeze is in it
(`QuarantineIsTheAnomalies`).

**The bus.** Handlers re-enter the bus, so the invariant is about the whole stack
of frames, however deep. What a group has not been given of a partition is seen
to by a frame (`CaredFor`): a publish that has not reached the group yet, a
subscribe with a backlog, or a delivery loop that stands at the cursor. And
`OrderAt`: what a group was given of a partition is a prefix of it, and no loop
and no cursor is ahead of that. A loop whose cursor is stale may deliver again
(the finding `bus_once`) but can leave nothing out. When a handler throws, what the
frames that are dropped had cared for is in `aborted` (`ThrowStack`), so that each
waiting message has a frame or an exception to its account (`BusSound`).

**The sovereigns.** Who acted and who were Former Primes at a record is defined
from the records before it alone. `SovereignInv` says what `LedgerTellsHistory`
says with singletons for counts (`Told`), and that every record of a directive
names one there is, without which a new directive could find records of its own.
Five lemmas say what appended records leave as it was; then each action adds one
succession, one countermand, the flags of one directive, or an override under a
role that is live now (`SovereigntyAccounts`).

**The task queue.** `QueueInv` says that each waiting task has a last ticket and
that the list is in the order of urgency and ticket. The stable sort of the code
is stated as what it leaves, an arrangement of the same positions in which none
stands before a more urgent one and equals keep their order; that an insertion
then keeps the order needs no recursion (`QueueKeepsOrder`).

**The lease.** `LeaseInv` is the types with two facts. `ClaimsMatch`: a claim that its worker does not see as expired is
the lease's own entry, with the same time left; that gives `ExclusiveSlices`.
`TokensIssued`: no worker knows a token above the key's counter; with it
`StaleIsFenced` is inductive (`TokensFenceStaleHolders`), and each step is one of
`SliceLock` or a stutter (`LeaseIsALock`).

**The Redis lease.** Between two commands of one method any other worker's command
may come, so `RedisInv` says what each worker's last answer still tells it.
`Prompt`: on a prompt network, what a worker was answered by GET or SET is true
until its next command, since a key changes hands only by its expiry, which takes
time; and an unexpired claim is covered by the key. That gives
`RedisExcludes`, and `PromptReleaseIsOwn`: the finding `lease_redis_delete` needs
time to pass between GET and DEL.

**The portrait server.** `SlotsInv`: whatever is resident under a key has that
key's weights. `AloneInv` follows a request from its check to its picture while no
other thread has run, and says that such a request has not ended by a KeyError;
`OneInv` follows the whole dictionary while requests have not overlapped. Together
they give `LikenessKept`.

**The kafkajs queue.** `NothingForgotten` and the types are nearly inductive.
`Subscriptions` adds that the adapter knows a group only by a consumer made for it
(which is why `ConsumerAssumption` keeps "", the group of a consumer that nobody has
made yet, out of `Groups`) and that a group began past the start only through a
consumer that does not replay (`Begun`). A step that loses no send, keeps the topic
and moves no group keeps the rest (`ForgetsKept`); those that do move one, a
delivery and the starts and rebalances that `Resume` a group, have their own
arguments.

**The batch.** A file that is being written is torn and was never made whole, what
was made is whole for good, and the manifest in memory has the portrait of every
cell behind the job's. A kill empties the third and leaves the first two to the
next start, which finds a torn file and skips it: that is why nothing is made
twice, and also why `ResumesAfterCrash` fails. `NothingIsLeft` states both for the
composed specification, whose other parts leave this state alone.

**Behind the gateway.** `ReportsInv` counts, for each worker's job, what has been
entered and what may still be: an attempt that ended without an answer accounts
for one success, the one in progress for another (`ReportsAreCounted`).
`DoorInv` splits what a bucket let through at the start of its window: `Before`
and `Since` each fit under the limit, hence no window of that length holds more
than twice it (`LimitsAreKept`); the sweep removes only ended buckets.
`CompanionInv` relates what a turn read before the provider's await to what is
stored when it writes (`CompanionsRemember`), and a persona's uses to its credits.
HOPE's archive, containers and exception are three invariants. `ArchiveInv`: the
store holds what was last remembered under each id, whoever chose the id, and a
memory's counter is ahead of every id it minted. A recall is any ranking of what it considers, cut at
k, since the comparison of ids among equals decides nothing here; `FoundIs` says
what such a cut holds and leaves out, and `RankingExists` that there is one, by
the least counterexample (`RecallAnswers`). `ReflectedInv`: what
was collected of a user is in the one container of its reflected id, is no later
than the last observation taken, and later than the last forget of anyone with that
id; nothing is assumed of `ReflectedId`. `ExceptionInv`: what is enabled is what the log last enabled, with only
uses after it. Together they are `HopeKeepsApart` (`HopeKeeps`).
`HealthInv` follows each probe to the report (`HealthyIsTrue`), `ListInv` the list
under its capacity (`PlacesKept`), and `RouteInv` the owners of profiles, personas
and sessions through expiry and reaping (`CreatorsKeep`); the last two together
are `ClaimsKept`.

**The store.** `StoreInv` strengthens `Mirror` by four facts: in a life of the process,
a write failed exactly if an error is waiting to be told (`FailuresTold`); behind
what a flush awaits there are only late memories (`OnlyLateBehind`); every store
on the way from Postgres to the projections has its sessions' accounts
(`NoOrphansAhead`), which is what a crash may cut at any point; and a queue does
not outlive its process (`NothingOutlives`). `Linked(q, from, to)` states that a
queue leads from one store to another, and lemmas say what executing its head
and appending to its tail does to that.

**Billing.** `IInv` is `TypeOK`, `MeterAgrees` and `PlanIsPaidFor` together, which
are inductive. Two lemmas about the operators carry the argument:
`ConsumedKeeps`, what a use adds to an account, and `AdjustedKeeps`, that a
change of plan touches neither money nor log; `MeterKeeps` and `ReplaceKeeps` are
then the two ways an account is put back. `CapHolds` follows step by step, since
only the meter spends and it asks the cap that is still in force afterwards.
`LapsesCostNothing` needs one more invariant, `SessionsInTime`: a session is told
expired only after its time, and paid only when its tier costs something, so that
settling it again changes neither (`MarkedAgain`).

**The repositories.** `ProjInv` compares memory with what Postgres *will* hold. `Left`
is the rows there are when a given write's turn comes: those the table or an
earlier write brought and no write in between took away. Unless a queued write is
`Doomed` to be refused, memory answers as the rows left when the queue has run
(`Agrees`), which at an empty queue is what the next process answers. That no
write but the request log's is ever doomed needs what each repository's caller
sees to: ids above all earlier ones (`Numbered`), keys and second keys once
(`Keyed`, `TableIs`, `IndexIs`), and, where reads are ordered by time, times that
rise (`Timed`). `Fits` states those once, and one lemma for each kind of write says
what it does to all of them (`ProcessesAnswerAlike`).

**Sandboxes and vetting.** `SandboxInv` has a part for each of the three that keep
books. `Books`: every session and its rollup agree. `Slots`: the manager's live set
is its sessions that have not stopped, at most the cap. `Engine`: who has the
engine's one task, and that a session of its own without a task was stopped or its
call threw; a report therefore leaves nothing behind (`SandboxIsSound`). For the
marketplace, `Catalogue` says what the list has to do with the history of accepted
registrations: each entry is the last one accepted under its key, and entries stand
in the order in which their keys were *first* accepted, which is the smaller
disagreement about "latest" in section 4 (`VisionVets`).

**The fleet and DREAM.** `MirrorIsTrue` and `DreamEndsClean` need to know where the
walk is. `Walk` relates the stack of loop counters to the cursor: a level begins
where the finished siblings above it end, each of them worth a whole subtree. So
the cursor stays within the size of the tree, and reaches it when the walk returns.
Every node up to the cursor and none behind it is materialised, manager by manager
(`Occupied`), so the walk throws only when the tree has more outcomes than the fleet
has nodes, and its teardown misses no manager. `TreeSize` is a recursive function:
that one exists with the values its equation gives is proved by the least
counterexample (`SizesExist`). An idled manager has nobody active and never again has
(`FleetIsSound`). For the scheduler (`SchedulerInv`): full bursts at one instant
decay by nothing, so each leaves 20 more than it found and the third reaches any
threshold up to 60; and there are never more quiet ticks in a row than the count of
ticks, which starts again when one is due (`DreamHears`).

**The audit chain.** `ChainInv`: every link is `JoinedUp` to the one before it and to
the content that was sealed. Recomputing the hashes then goes wrong at the first
position whose content is not what was sealed, and not before: `HashesFollow` and
`BrokenIs` say so by positions (`ChainTells`). That a hash tells its content is what
the model says of SHA-256.

**The meters.** `MeterInv` states every counter as the `Number` of booked rows of a
kind since the last reset. `RingIs` says which span a cell of the wrapping ring
holds, `SpawnsAre` that pruning drops only what no window will count again. The
cumulative buckets are a sum, kept as a function of partial sums (`Sums`) that
`SumsAgree` compares position by position. A sink that throws disturbs none of them,
since the observers are called each in a `try` of its own (`MetersTell`).

**The board.** `LearnedInv` is that the two gates are equal and every result only
`Adds` a denial. The board's percentiles go through a ranking of its times:
`RankIs` finds the value at a rank by counting what is quicker, `PercentileIs` what
lies between two ranks, and `MedianHalves` that half the cases lie on either side
(`BoardTellsTrue`).

**A provider's stream.** Whatever pieces the body arrives in, the parser's buffer is
what came after the last newline (`Holds`) and what it has yielded are the deltas
of the complete lines before that, in their order (`Yields`); it has stopped exactly
if one of them says so (`Reads`). All are about positions in what has arrived, so
that wherever it is cut there is only one piece more (`StreamsAreWhole`).

**The compositions.** A step of `Mesh`, `Gateway` or `Durable` is a step of one part
and leaves the others as they are; so it is a step or a stutter of each
(`PartsStep` and the like), and each part's invariant is kept by the whole. That
gives the safety properties of the three runs for the specifications those runs
check, not only for the parts: `MeshHolds`, `VisionHolds`, `RecordsHold`,
`DreamHolds`, `GatewayHolds`, `GatewayIsHonest`, `DurableHolds`, `NothingIsLeft`.

**Forms chosen for the proofs.** Counts and sums are cardinalities, or recursive
functions whose partial results have a name, because the provers cannot unfold a fold
over a sequence; a sorted list is read by rank; a line of a stream, and a tree of
outcomes, by position. Where the order of the code decides between two cases that
overlap it is an IF, since CASE leaves open which arm is taken.

**Tenancy.** A behaviour is one call, so the argument is about the operators.
`ResolveIs` says what the catalog answers in each case: the first of the entries
with an id, the nearest to a size, the largest. That such an entry exists is an
induction, taken from the library's theorem that numbers are well founded
(`LeastNumber`: a nonempty set of naturals has a least member).
`WideningKeeps`: what a plan may have, the next one up may (`RoutesAreEntitled`).

**Payouts.** `IInv` adds four facts to the types and `CacheHonest`. `ProfilesOwn`
and `RequestsSound` say that an id on file or in a request was made for that
creator, and what a payout may rely on at each point of its two retrievals: a
passed identity check means verified at Stripe now, since Stripe takes no
verification back, and a passed account check means enabled at some moment of
this request. `OnlyVerifiedArePaid` follows at the last point. `EventsTrue`: a
"verified" among the webhooks was true when sent and still is, so a late or
repeated one does no harm (`HonestStep`). `AccountsKnown`: the accounts of an
undisturbed creator are the one on file or the one a request in flight holds, and
while there is none on file only one request is at it; that each step keeps this
is `KnownStep`, and `KnownIsOne` makes `AccountReused` of it. `Grown` says once
what Stripe never forgets, and lemmas about it carry all that is owned or true
over Stripe's own steps.

**Not proved**, and checked by TLC only:

* Liveness under fairness, which the prover has no rules for:
  `EveryDispatchReturns`, `CrashedSlicesFreed`, `ShutdownEnds`,
  `EverythingAnswered`.
* `ArithmeticIsInfix`: the calculator's shunting yard is a fold over tokens of any
  number and the grammar it is compared with is recursive, so their agreement is an
  induction over data; TLC compares them on all lists of up to seven tokens.

## 6. What is abstracted or left out

* Floating point: the scorers' features and weights are integers in thousandths, a
  probability is compared by its logit; costs and energies are small integers; the
  entropy bridge and the mathematics of node specialisation are left out.
* Identifiers: packet ids are positions in `minted`; hashes are what they were
  computed from; a signature is what it covers and whose key made it; a password
  is right or wrong.
* `WriteThrough`'s four tables stand for the ten, whose differences are
  `Projections`'.
* Models of the world outside `src/` (Stripe, Redis, Postgres, the Kafka broker
  and client, containers, providers, the network) are marked external in the map
  and do only what the code's use of them lets happen.
* Anything that only formats, logs or renders.

**Not modelled**, with the reason in `PROJECT.json`: APEX's cost model and the
progression gates (pure functions that nothing else depends on), the payout stub
(always succeeds), HOPE's user interface (rendering), the persona matrix (offline
numerical work), the published packages, deployment files, demos and site. Of
parts that are `partly` modelled, the note says what is left: training and the
entropy bridge of KNOLL, the mathematics of nodes, the wording of DREAM's
scenarios, VISION's tools as such, HOPE's keyword matching and voice, the
gateway's headers, parsing and websocket console, direct uses of the billing
store, adapters and factories of the providers, the workflow's model-choosing
router, the MCP façade, fixtures and report of the evaluation board, notebooks
and the servers that only wrap a model.

## 7. What comes next

1. An abstract task queue that `KafkaStub`, `KafkaReal` and `TaskQueue` refine as
   far as each does.
2. `Companion` over `WriteThrough` in one instance, for memories that are saved
   while the process flushes.
3. A proof of the calculator, with the value of a list of tokens defined by spans of
   positions instead of by recursion.
