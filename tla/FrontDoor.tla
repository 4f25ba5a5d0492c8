------------------------------- MODULE FrontDoor -------------------------------
(***************************************************************************)
(* The gateway's guards (gateway/middleware.ts): every request is counted  *)
(* in the fixed window of its address, a password guess in a second one, a *)
(* product request in its tenant's, and then its key is looked at.         *)
(***************************************************************************)
EXTENDS Integers, FiniteSets

CONSTANTS
  Addresses, Tenants,
  AddressLimit, AuthLimit, TenantLimit,  \* requests per window; 0 disables
  Window,      \* the windows' length
  SweepAbove,  \* buckets a limiter keeps before it drops ended ones: 10,000
  KeyRequired, \* an API key is configured
  MaxClock,    \* bound: time
  MaxCount     \* bound: requests counted in one bucket

ASSUME LimitsAssumption ==
  AddressLimit \in Nat /\ AuthLimit \in Nat /\ TenantLimit \in Nat /\ Window \in Nat \ {0}

VARIABLES
  clock,
  buckets,   \* [Limiters -> [Keys -> count and resetAt]]; NoBucket is an absent entry
  passed,    \* history: [Limiters -> [Keys -> the hits allowed within the last Window]]
  answer,    \* how the guards left the last request: "in", "limited" or "unauthorized"
  refused    \* history: the hits the last request was refused for

doorVars == <<clock, buckets, passed, answer, refused>>

Limiters == {"address", "auth", "tenant"}
Limit == [address |-> AddressLimit, auth |-> AuthLimit, tenant |-> TenantLimit]
Keys == Addresses \cup Tenants
NoBucket == [count |-> 0, resetAt |-> 0]

DoorInit ==
  /\ clock = 0
  /\ buckets = [l \in Limiters |-> [k \in Keys |-> NoBucket]]
  /\ passed = [l \in Limiters |-> [k \in Keys |-> {}]]
  /\ answer = "in" /\ refused = {}

-----------------------------------------------------------------------------
(* RateLimiter.hit, on one limiter's buckets b at time t. *)

Current(bucket, t) == IF t >= bucket.resetAt THEN [count |-> 0, resetAt |-> t + Window] ELSE bucket

Sweep(b, t) == [k \in Keys |-> IF t >= b[k].resetAt THEN NoBucket ELSE b[k]]
Bounded(b, t) == IF Cardinality({k \in Keys : b[k] # NoBucket}) > SweepAbove THEN Sweep(b, t) ELSE b

Counted(b, k, t) == [b EXCEPT ![k] = [Current(b[k], t) EXCEPT !.count = @ + 1]]
OffByOne(l, b, k, t) == Limit[l] = 0 \/ Current(b[k], t).count <= Limit[l]   \* mutant of Allowed
Allowed(l, b, k, t) == Limit[l] = 0 \/ Current(b[k], t).count < Limit[l]
HitBuckets(l, b, k, t) == IF Limit[l] = 0 THEN b ELSE Bounded(Counted(b, k, t), t)

-----------------------------------------------------------------------------
(* GatewayMiddleware.guard. *)

Paths == {"public", "credential", "product", "exempt", "protected"}
KeyMissing(path, keyed) == KeyRequired /\ path = "protected" /\ ~keyed

\* The limiters a request meets, in order; the first that refuses it ends it.
Met(path, a, t) ==
  CASE path = "public" -> <<>>
    [] path = "credential" -> <<<<"address", a>>, <<"auth", a>>>>
    [] path = "product" -> <<<<"address", a>>, <<"tenant", t>>>>
    [] OTHER -> <<<<"address", a>>>>
Hits(met) == {i \in DOMAIN met : \A j \in 1..(i - 1) : Allowed(met[j][1], buckets[met[j][1]], met[j][2], clock)}

\* A hit is told by its time and its number among those of that time.
NewHit(hits) == <<clock, Cardinality({h \in hits : h[1] = clock})>>
Recent(hits, t) == {h \in hits : h[1] + Window > t}

Guard(path, a, t, keyed) ==
  LET met == Met(path, a, t)
      hits == {met[i] : i \in Hits(met)}
      Hit(l, k) == <<l, k>> \in hits
      Pass(l, k) == Hit(l, k) /\ Allowed(l, buckets[l], k, clock)
  IN
  /\ \A h \in hits : Limit[h[1]] # 0 => Current(buckets[h[1]][h[2]], clock).count < MaxCount
  /\ buckets' = [l \in Limiters |->
       IF \E k \in Keys : Hit(l, k)
         THEN HitBuckets(l, buckets[l], CHOOSE k \in Keys : Hit(l, k), clock) ELSE buckets[l]]
  /\ passed' = [l \in Limiters |-> [k \in Keys |->
       IF Pass(l, k) THEN passed[l][k] \cup {NewHit(passed[l][k])} ELSE passed[l][k]]]
  /\ refused' = {h \in hits : ~Allowed(h[1], buckets[h[1]], h[2], clock)}
  /\ answer' = IF refused' # {} THEN "limited" ELSE IF KeyMissing(path, keyed) THEN "unauthorized" ELSE "in"
  /\ UNCHANGED clock

Tick ==
  /\ clock < MaxClock /\ clock' = clock + 1
  /\ answer' = "in" /\ refused' = {}
  /\ passed' = [l \in Limiters |-> [k \in Keys |-> Recent(passed[l][k], clock')]]
  /\ UNCHANGED buckets

DoorNext ==
  \/ Tick
  \/ \E path \in Paths, a \in Addresses, t \in Tenants, keyed \in BOOLEAN : Guard(path, a, t, keyed)

DoorSpec == DoorInit /\ [][DoorNext]_doorVars

-----------------------------------------------------------------------------
(* Properties. *)

DoorTypeOK ==
  /\ clock \in 0..MaxClock
  /\ buckets \in [Limiters -> [Keys -> [count : Nat, resetAt : Nat]]]
  /\ answer \in {"in", "limited", "unauthorized"} /\ refused \subseteq Limiters \X Keys

\* In any stretch of time as long as a window, however it lies across the edges
\* of the windows and whatever was swept, an address or a tenant gets no more
\* than twice its limit through; and a hit is refused only when the limit really
\* was used up within the last window (RateLimiter.hit and sweep).
LimitsHold ==
  /\ \A l \in Limiters, k \in Keys : Limit[l] # 0 => Cardinality(passed[l][k]) <= 2 * Limit[l]
  /\ \A h \in refused : Cardinality(passed[h[1]][h[2]]) >= Limit[h[1]]
=============================================================================
