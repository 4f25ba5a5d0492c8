-------------------------------- MODULE Meters --------------------------------
(***************************************************************************)
(* What is counted of the traffic, and what is read of it.  Every dispatch *)
(* is one row of APEX's ledger and one event for the router's observers:   *)
(* the metrics (observability/metrics.ts), the ring of trace spans         *)
(* (trace.ts), fanned out by combineObservers.  The reads are the          *)
(* gateway's (GET /v1/ledger, /v1/audit, /v1/metrics) and the MCP tool     *)
(* hdv_usage (mcp/tools.ts); both keep the last results sent to HOPE.      *)
(***************************************************************************)
EXTENDS Naturals, Sequences, SequencesExt, FiniteSetsExt

CONSTANTS
  Sinks,        \* the observers, in the order they are called
  Bounds,       \* LATENCY_BUCKETS_MS: increasing bounds
  Traffic,      \* the dispatches there are: destination, verdict, cost, latency
  Window,       \* activeWindowMs
  Capacity,     \* spans the ring retains
  KeptResults,  \* results to HOPE that are kept (200 in the code)
  ReadMost,     \* the most entries a read returns (500, 100 for the tool)
  ReadDefault,  \* entries of a read that names no limit
  MaxEvents, MaxInstant   \* bounds of the run

ASSUME CapacityAssumption == Capacity \in Nat \ {0} /\ KeptResults \in Nat /\ Window \in Nat
ASSUME SinksAssumption ==
  Sinks \in Seq({"metrics", "tracer", "throwing"}) /\ {"metrics", "tracer"} \subseteq {Sinks[i] : i \in DOMAIN Sinks}
ASSUME BucketsAssumption ==
  Bounds \in Seq(Nat) /\ \A i, j \in DOMAIN Bounds : i < j => Bounds[i] < Bounds[j]
ASSUME ReadAssumption == ReadMost \in Nat \ {0} /\ ReadDefault \in 1..ReadMost

VARIABLES
  booked,    \* APEX's ledger: every dispatch, with the time it was observed at
  counts,    \* the verdict counters and the cost
  byDest, denies,    \* destination, deny reason -> packets
  buckets,   \* one counter per bound, and the overflow's
  spawns,    \* when the ephemeral agents were spawned, of late
  ring, head, filled,   \* PacketTracer
  results,   \* hopeResults
  resetAt, clearedAt,     \* history: ledger length at the last reset and clear
  instant

meterVars == <<booked, counts, byDest, denies, buckets, spawns, ring, head, filled,
               results, resetAt, clearedAt, instant>>

Destinations == {"HOPE", "DREAM"}
Reasons == {"LAW_3", "HASH_INTEGRITY"}
Verdicts == {"SUCCESS", "FAILED"} \cup Reasons   \* or BLOCKED, with the reason
EphemeralSet == {"DREAM"}

ASSUME TrafficAssumption ==
  Traffic \subseteq [dest : Destinations, verdict : Verdicts, cost : Nat, took : Nat]

Zero == [total |-> 0, routed |-> 0, blocked |-> 0, failed |-> 0, cost |-> 0]
NoSpan == "empty"

-----------------------------------------------------------------------------
(* MetricsCollector.observe *)

CountIn(c, e) ==
  [total |-> c.total + 1,
   routed |-> c.routed + (IF e.verdict = "SUCCESS" THEN 1 ELSE 0),
   blocked |-> c.blocked + (IF e.verdict \in Reasons THEN 1 ELSE 0),
   failed |-> c.failed + (IF e.verdict = "FAILED" THEN 1 ELSE 0),
   cost |-> c.cost + e.cost]
\* The first bound that is no less, or the overflow.
BucketOf(took) ==
  LET fits == {i \in DOMAIN Bounds : took <= Bounds[i]}
  IN  IF fits = {} THEN Len(Bounds) + 1 ELSE Min(fits)
From(times, kept) == IF kept = {} THEN <<>> ELSE SubSeq(times, Min(kept), Len(times))
PruneFresh(times) == From(times, {i \in DOMAIN times : instant < times[i] + Window})  \* mutant of Prune: the window's edge
Prune(times) == From(times, {i \in DOMAIN times : instant <= times[i] + Window})
Observe(e) ==
  /\ counts' = CountIn(counts, e)
  /\ byDest' = [byDest EXCEPT ![e.dest] = @ + 1]
  /\ denies' = IF e.verdict \in Reasons THEN [denies EXCEPT ![e.verdict] = @ + 1] ELSE denies
  /\ buckets' = [buckets EXCEPT ![BucketOf(e.took)] = @ + 1]
  /\ spawns' = IF e.verdict = "SUCCESS" /\ e.dest \in EphemeralSet
               THEN Prune(Append(spawns, instant)) ELSE spawns

\* PacketTracer.record and spans.
TraceRecord(e) ==
  /\ ring' = [ring EXCEPT ![head] = e]
  /\ head' = (head + 1) % Capacity
  /\ filled' = IF filled < Capacity THEN filled + 1 ELSE filled
Spans ==
  IF filled < Capacity THEN [i \in 1..filled |-> ring[i - 1]]
  ELSE [i \in 1..Capacity |-> ring[(head + i - 1) % Capacity]]

\* combineObservers: an observer that throws never starves the others.
Starved(sink) ==   \* mutant of Called: the first that throws ends the loop
  \E i \in DOMAIN Sinks : Sinks[i] = sink /\ \A j \in 1..i : Sinks[j] # "throwing"
Called(sink) == \E i \in DOMAIN Sinks : Sinks[i] = sink

\* One dispatch: its handler has run, its ledger row is written, it is observed.
Dispatched(e) ==
  /\ Len(booked) < MaxEvents
  /\ booked' = Append(booked, [event |-> e, at |-> instant])
  /\ results' = IF e.dest = "HOPE" /\ e.verdict = "SUCCESS" /\ results < KeptResults
                THEN results + 1 ELSE results
  /\ \/ Called("metrics") /\ Observe(e)
     \/ ~Called("metrics") /\ UNCHANGED <<counts, byDest, denies, buckets, spawns>>
  /\ \/ Called("tracer") /\ TraceRecord(e)
     \/ ~Called("tracer") /\ UNCHANGED <<ring, head, filled>>
  /\ UNCHANGED <<resetAt, clearedAt, instant>>

\* reset and clear, between tests and on demand.
Reset ==
  /\ resetAt < Len(booked) /\ resetAt' = Len(booked)
  /\ counts' = Zero /\ byDest' = [d \in Destinations |-> 0] /\ denies' = [r \in Reasons |-> 0]
  /\ buckets' = [i \in 1..Len(Bounds) + 1 |-> 0] /\ spawns' = <<>>
  /\ UNCHANGED <<booked, ring, head, filled, results, clearedAt, instant>>
ClearTrace ==
  /\ clearedAt < Len(booked) /\ clearedAt' = Len(booked)
  /\ ring' = [i \in 0..Capacity - 1 |-> NoSpan] /\ head' = 0 /\ filled' = 0
  /\ UNCHANGED <<booked, counts, byDest, denies, buckets, spawns, results, resetAt, instant>>
Elapse ==
  /\ instant < MaxInstant /\ instant' = instant + 1
  /\ UNCHANGED <<booked, counts, byDest, denies, buckets, spawns, ring, head, filled,
                 results, resetAt, clearedAt>>

-----------------------------------------------------------------------------
(* Reads.  A limit is counted in halves, as a query string may; 0 is none. *)

Limits == 0..(2 * ReadMost + 2)
ClampLimit(limit) ==
  IF limit = 0 THEN ReadDefault
  ELSE IF limit \div 2 < ReadMost THEN limit \div 2 ELSE ReadMost
\* Array.slice(-n), of which slice(-0) is the whole array.
Tail0(seq, n) == IF n = 0 \/ n >= Len(seq) THEN seq ELSE SubSeq(seq, Len(seq) - n + 1, Len(seq))
Page(limit) == Tail0(booked, ClampLimit(limit))
Recent(n) == Tail0(Spans, n)

Summed(f, n) ==
  LET upto[k \in 0..n] == IF k = 0 THEN 0 ELSE upto[k - 1] + f[k] IN upto[n]
CostOf(seq) == Summed([i \in DOMAIN seq |-> seq[i].event.cost], Len(seq))
\* histogram(): the samples at or below a bound.
AtMost(i) == Summed(buckets, i)
ActiveSpawns == Len(Prune(spawns))
Snapshot ==
  [packets |-> counts, perDestination |-> byDest, denyReasons |-> denies,
   atMost |-> [i \in DOMAIN Bounds |-> AtMost(i)], active |-> ActiveSpawns]

MeterInit ==
  /\ booked = <<>> /\ counts = Zero
  /\ byDest = [d \in Destinations |-> 0] /\ denies = [r \in Reasons |-> 0]
  /\ buckets = [i \in 1..Len(Bounds) + 1 |-> 0] /\ spawns = <<>>
  /\ ring = [i \in 0..Capacity - 1 |-> NoSpan] /\ head = 0 /\ filled = 0
  /\ results = 0 /\ resetAt = 0 /\ clearedAt = 0 /\ instant = 0
MeterNext ==
  \/ \E e \in Traffic : Dispatched(e)
  \/ Reset \/ ClearTrace \/ Elapse

-----------------------------------------------------------------------------
(* Properties. *)

Since(from) == SubSeq(booked, from + 1, Len(booked))
HowMany(seq, Test(_)) == Cardinality({i \in DOMAIN seq : Test(seq[i])})

\* The meters and the books agree: over the dispatches since the last reset the
\* counters split the ledger's rows by verdict, destination and reason, bill the same
\* cost, and the histogram's cumulative buckets and the active gauge count what the
\* rows say; whichever other observer throws.
MetricsMatchLedger ==
  LET seen == Since(resetAt)
      told == Snapshot
  IN  /\ told.packets.total = Len(seen)
      /\ told.packets.routed + told.packets.blocked + told.packets.failed = Len(seen)
      /\ told.packets.cost = CostOf(seen)
      /\ \A d \in Destinations :
           told.perDestination[d] = HowMany(seen, LAMBDA row : row.event.dest = d)
      /\ \A r \in Reasons :
           told.denyReasons[r] = HowMany(seen, LAMBDA row : row.event.verdict = r)
      /\ \A i \in DOMAIN Bounds :
           told.atMost[i] = HowMany(seen, LAMBDA row : row.event.took <= Bounds[i])
      /\ told.active = HowMany(seen, LAMBDA row : /\ row.event.verdict = "SUCCESS"
                                                 /\ row.event.dest \in EphemeralSet
                                                 /\ row.at + Window >= instant)

\* The ring holds the last Capacity events since it was cleared, oldest first, however
\* often it has wrapped; and a read of the spans is a suffix of it.
TraceIsTail ==
  LET traced == Since(clearedAt)
      kept == IF Len(traced) < Capacity THEN Len(traced) ELSE Capacity
  IN  /\ Spans = [i \in 1..kept |-> traced[Len(traced) - kept + i].event]
      /\ \A n \in 1..Capacity : IsSuffix(Recent(n), Spans)

\* mcp/tools.ts: "Max ledger entries to return (default 25, max 100)", and the gateway's
\* cap of 500.  A read of a whole limit, or of none, returns no more, and the newest;
\* half an entry is the exception that Tail0 has, and returns them all.
PagesAreBounded ==
  \A limit \in Limits \ {1} :
    Len(Page(limit)) <= ReadMost /\ IsSuffix(Page(limit), booked)

MetersAgree == MetricsMatchLedger /\ TraceIsTail /\ PagesAreBounded
=============================================================================
