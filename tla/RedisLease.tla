------------------------------ MODULE RedisLease ------------------------------
(***************************************************************************)
(* The Redis-backed node-slice lease (nodes/lease.ts, RedisLeaseStub).     *)
(* Each method awaits one Redis command after another; a command takes     *)
(* effect on the server some time after it was sent, and the worker goes   *)
(* on some time after that, so time and other workers' commands come in    *)
(* between.  Times are distances to expiry, as in NodeLease.               *)
(***************************************************************************)
EXTENDS Naturals

CONSTANTS
  Slices, RedisWorkers,
  NoValue,    \* what GET answers for a key that is not there
  RedisTtls,  \* what normalizeTtl makes of the ttlMs in use
  Networks    \* of {"prompt", "late"}: do commands take no time, or any time

\* Times to live under a millisecond, which become 0, are left out: PX refuses 0.
ASSUME RedisAssumption ==
  Slices # {} /\ NoValue \notin RedisWorkers /\ RedisTtls \subseteq Nat \ {0}

VARIABLES
  value, left,   \* the server: who is stored under a key, its time to live
                 \* (0 with a value: the key has no TTL)
  pc,            \* the command each worker waits for
  call,          \* [key, ttl] of the call in progress
  redisClaims,   \* per worker and key: time until expiresAt of its last claim
  redisCrashed,  \* workers that have died
  network        \* what the network of this behaviour is like

redisVars == <<value, left, pc, call, redisClaims, redisCrashed, network>>

\* "granted" and "refused": the last command was answered, the result is not
\* computed yet.
Steps == {"idle", "claimSet", "claimGet", "claimExpire", "renewGet", "renewExpire",
          "releaseGet", "releaseDel", "granted", "refused"}

RedisInit ==
  /\ value = [k \in Slices |-> NoValue] /\ left = [k \in Slices |-> 0]
  /\ pc = [w \in RedisWorkers |-> "idle"]
  /\ call = [w \in RedisWorkers |-> [key |-> CHOOSE k \in Slices : TRUE, ttl |-> 0]]
  /\ redisClaims = [w \in RedisWorkers |-> [k \in Slices |-> 0]]
  /\ redisCrashed = {}
  /\ network \in Networks

Key(w) == call[w].key
Awaits(w, step) == pc[w] = step
\* What a worker sent before it died may still reach the server; nothing follows.
Goto(w, step) == pc' = [pc EXCEPT ![w] = IF w \in redisCrashed THEN "idle" ELSE step]

\* A worker calls claim, renew or release; one that releases a slice does not
\* run it any more.
StartCall(w, step, k, ttl) ==
  /\ Awaits(w, "idle") /\ w \notin redisCrashed
  /\ Goto(w, step)
  /\ call' = [call EXCEPT ![w] = [key |-> k, ttl |-> ttl]]
  /\ redisClaims' = IF step = "releaseGet" THEN [redisClaims EXCEPT ![w][k] = 0] ELSE redisClaims
  /\ UNCHANGED <<value, left, redisCrashed, network>>

-----------------------------------------------------------------------------
(* The commands, as the server executes them. *)

SetWithoutTtl(w) ==   \* mutant of SetNxPx: the TTL is left to a later command
  /\ Awaits(w, "claimSet")
  /\ IF value[Key(w)] = NoValue
     THEN value' = [value EXCEPT ![Key(w)] = w] /\ Goto(w, "granted")
     ELSE UNCHANGED value /\ Goto(w, "claimGet")
  /\ UNCHANGED <<left, call, redisClaims, redisCrashed, network>>
SetNxPx(w) ==
  /\ Awaits(w, "claimSet")
  /\ IF value[Key(w)] = NoValue
     THEN /\ value' = [value EXCEPT ![Key(w)] = w]
          /\ left' = [left EXCEPT ![Key(w)] = call[w].ttl]
          /\ Goto(w, "granted")
     ELSE Goto(w, "claimGet") /\ UNCHANGED <<value, left>>
  /\ UNCHANGED <<call, redisClaims, redisCrashed, network>>

\* GET, and the comparison with the worker's own name that follows it.
GetUncompared(w, from, to) ==   \* mutant of Get: any holder will do
  /\ Awaits(w, from)
  /\ Goto(w, IF value[Key(w)] # NoValue THEN to ELSE "refused")
  /\ UNCHANGED <<value, left, call, redisClaims, redisCrashed, network>>
Get(w, from, to) ==
  /\ Awaits(w, from)
  /\ Goto(w, IF value[Key(w)] = w THEN to ELSE "refused")
  /\ UNCHANGED <<value, left, call, redisClaims, redisCrashed, network>>

Extend(w) ==
  left' = [left EXCEPT ![Key(w)] = IF value[Key(w)] = NoValue THEN 0 ELSE call[w].ttl]

\* PEXPIRE: claim does not look at the answer, renew does.
ClaimExpire(w) ==
  /\ Awaits(w, "claimExpire")
  /\ Extend(w) /\ Goto(w, "granted")
  /\ UNCHANGED <<value, call, redisClaims, redisCrashed, network>>

RenewExpire(w) ==
  /\ Awaits(w, "renewExpire")
  /\ Extend(w) /\ Goto(w, IF value[Key(w)] = NoValue THEN "refused" ELSE "granted")
  /\ UNCHANGED <<value, call, redisClaims, redisCrashed, network>>

Delete(w) ==
  /\ Awaits(w, "releaseDel")
  /\ value' = [value EXCEPT ![Key(w)] = NoValue]
  /\ left' = [left EXCEPT ![Key(w)] = 0]
  /\ Goto(w, "refused")
  /\ UNCHANGED <<call, redisClaims, redisCrashed, network>>

\* claimFor: expiresAt counts from when the worker goes on.
Return(w) ==
  /\ pc[w] \in {"granted", "refused"} /\ w \notin redisCrashed
  /\ redisClaims' = [redisClaims EXCEPT ![w][Key(w)] = IF pc[w] = "granted" THEN call[w].ttl ELSE 0]
  /\ Goto(w, "idle")
  /\ UNCHANGED <<value, left, call, redisCrashed, network>>

RedisCrash(w) ==
  /\ w \notin redisCrashed
  /\ redisCrashed' = redisCrashed \cup {w}
  /\ redisClaims' = [redisClaims EXCEPT ![w] = [k \in Slices |-> 0]]
  /\ \/ pc' = [pc EXCEPT ![w] = "idle"]
     \/ network = "late" /\ pc[w] \notin {"granted", "refused"} /\ UNCHANGED pc
  /\ UNCHANGED <<value, left, call, network>>

Nearer(t) == IF t = 0 THEN 0 ELSE t - 1
RedisTick ==
  /\ network = "prompt" => \A w \in RedisWorkers : pc[w] = "idle"
  /\ left' = [k \in Slices |-> Nearer(left[k])]
  /\ value' = [k \in Slices |-> IF left[k] = 1 THEN NoValue ELSE value[k]]
  /\ redisClaims' = [w \in RedisWorkers |-> [k \in Slices |-> Nearer(redisClaims[w][k])]]
  /\ UNCHANGED <<pc, call, redisCrashed, network>>

Command(w) ==
  \/ SetNxPx(w)
  \/ Get(w, "claimGet", "claimExpire") \/ ClaimExpire(w)
  \/ Get(w, "renewGet", "renewExpire") \/ RenewExpire(w)
  \/ Get(w, "releaseGet", "releaseDel") \/ Delete(w)
  \/ Return(w)

RedisNext ==
  \/ \E w \in RedisWorkers :
       \/ \E k \in Slices :
            \/ \E ttl \in RedisTtls :
                 StartCall(w, "claimSet", k, ttl) \/ StartCall(w, "renewGet", k, ttl)
            \/ StartCall(w, "releaseGet", k, 0)
       \/ Command(w)
       \/ RedisCrash(w)
  \/ RedisTick

RedisSpec == RedisInit /\ [][RedisNext]_redisVars

\* Time passes, and a call that was made goes on while its worker lives; what a
\* dead worker sent may get lost.
RedisFairSpec ==
  /\ RedisSpec /\ WF_redisVars(RedisTick)
  /\ \A w \in RedisWorkers : WF_redisVars(w \notin redisCrashed /\ Command(w))

-----------------------------------------------------------------------------
(* Properties. *)

RedisTypeOK ==
  /\ value \in [Slices -> RedisWorkers \cup {NoValue}] /\ left \in [Slices -> Nat]
  /\ pc \in [RedisWorkers -> Steps]
  /\ call \in [RedisWorkers -> [key : Slices, ttl : Nat]]
  /\ redisClaims \in [RedisWorkers -> [Slices -> Nat]]
  /\ redisCrashed \in SUBSET RedisWorkers /\ network \in Networks
  /\ \A k \in Slices : left[k] > 0 => value[k] # NoValue

\* "Two workers can never run the same node": no two workers have a claim on a
\* slice that neither of them sees as expired.  It takes a prompt network:
\* claimFor counts expiresAt from the answer, and DEL does not look at the value.
RedisNoDoubleClaim ==
  network = "prompt" => \A k \in Slices, v, w \in RedisWorkers :
    redisClaims[v][k] > 0 /\ redisClaims[w][k] > 0 => v = w

\* release: "Release key iff holder holds it (compare-and-delete)".  A key goes
\* from a live worker to nobody by its own release or by time, never by another
\* worker's call.
RedisReleasesOwnOnly ==
  [][\A w \in RedisWorkers, k \in Slices :
       pc[w] = "releaseDel" /\ pc'[w] # "releaseDel" /\ Key(w) = k
         => value[k] \in {w, NoValue}]_redisVars

\* "Redis's own PX TTL reclaims a crashed holder's slice".  What a prompt network
\* does, a late one may do as well.
RedisSliceFreed ==
  \A w \in RedisWorkers, k \in Slices : network = "late" /\ w \in redisCrashed ~> value[k] # w
=============================================================================
