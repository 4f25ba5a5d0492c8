------------------------------ MODULE NodeLease ------------------------------
(***************************************************************************)
(* The in-memory node-slice lease (nodes/lease.ts, InMemoryNodeSliceLease) *)
(* and the workers that use it: each keeps the last claim it was given.    *)
(* Every method runs to completion in one step.  Times are relative: an    *)
(* entry or a claim is its distance to expiresAt, 0 when it has passed, so *)
(* an expired entry and a deleted one are the same, as they are to every   *)
(* method (liveEntry).                                                     *)
(***************************************************************************)
EXTENDS Naturals

CONSTANTS
  Keys, Holders, Nobody,
  Ttls,       \* what normalizeTtl makes of the ttlMs in use; 0.5 becomes 0
  MaxToken    \* bound: tokens handed out for one key

ASSUME HoldersAssumption == Nobody \notin Holders
ASSUME TtlsAssumption == Ttls \subseteq Nat
ASSUME MaxTokenAssumption == MaxToken \in Nat

VARIABLES
  entries,   \* the map: [holder, left, token] per key
  tokens,    \* the highest fencing token handed out per key
  claims,    \* per worker and key: the claim it was last given
  crashed    \* workers that have died

vars == <<entries, tokens, claims, crashed>>

NoEntry == [holder |-> Nobody, left |-> 0, token |-> 0]
NoClaim == [left |-> 0, token |-> 0]

Live(k) == entries[k].left > 0
HeldBy(k, h) == Live(k) /\ entries[k].holder = h

Init ==
  /\ entries = [k \in Keys |-> NoEntry]
  /\ tokens = [k \in Keys |-> 0]
  /\ claims = [h \in Holders |-> [k \in Keys |-> NoClaim]]
  /\ crashed = {}

-----------------------------------------------------------------------------
GrantNextToken(h, k, token, ttl) ==   \* mutant of Grant: the worker gets the next one
  /\ entries' = [entries EXCEPT ![k] = [holder |-> h, left |-> ttl, token |-> token]]
  /\ claims' = [claims EXCEPT ![h][k] = [left |-> ttl, token |-> token + 1]]
  /\ UNCHANGED crashed
\* The worker is told what the lease now holds for it.
Grant(h, k, token, ttl) ==
  /\ entries' = [entries EXCEPT ![k] = [holder |-> h, left |-> ttl, token |-> token]]
  /\ claims' = [claims EXCEPT ![h][k] = [left |-> ttl, token |-> token]]
  /\ UNCHANGED crashed

\* claim of a free or expired key: ACQUIRED under a new token.
AcquireOldToken(h, k, ttl) ==   \* mutant of Acquire: the key's token is reused
  /\ h \notin crashed /\ ~Live(k) /\ tokens[k] < MaxToken
  /\ tokens' = [tokens EXCEPT ![k] = IF tokens[k] = 0 THEN 1 ELSE tokens[k]]
  /\ Grant(h, k, tokens'[k], ttl)
Acquire(h, k, ttl) ==
  /\ h \notin crashed /\ ~Live(k) /\ tokens[k] < MaxToken
  /\ tokens' = [tokens EXCEPT ![k] = tokens[k] + 1]
  /\ Grant(h, k, tokens'[k], ttl)

\* claim by the holder itself, and renew: RENEWED, the token stays.
Reclaim(h, k, ttl) ==
  /\ h \notin crashed /\ HeldBy(k, h)
  /\ Grant(h, k, entries[k].token, ttl)
  /\ UNCHANGED tokens

\* claim or release while somebody else holds the key, renew or release when
\* it lapsed: the worker learns that it does not hold the slice.
Refuse(h, k) ==
  /\ h \notin crashed /\ ~HeldBy(k, h)
  /\ claims' = [claims EXCEPT ![h][k] = NoClaim]
  /\ UNCHANGED <<entries, tokens, crashed>>

Release(h, k) ==
  /\ h \notin crashed /\ HeldBy(k, h)
  /\ entries' = [entries EXCEPT ![k] = NoEntry]
  /\ claims' = [claims EXCEPT ![h][k] = NoClaim]
  /\ UNCHANGED <<tokens, crashed>>

Crash(h) ==
  /\ h \notin crashed
  /\ crashed' = crashed \cup {h}
  /\ claims' = [claims EXCEPT ![h] = [k \in Keys |-> NoClaim]]
  /\ UNCHANGED <<entries, tokens>>

Sooner(left) == IF left = 0 THEN 0 ELSE left - 1
Aged(e) == [e EXCEPT !.left = Sooner(e.left)]

Tick ==
  /\ entries' = [k \in Keys |-> Aged(entries[k])]
  /\ claims' = [h \in Holders |-> [k \in Keys |-> Aged(claims[h][k])]]
  /\ UNCHANGED <<tokens, crashed>>

Next ==
  \/ \E h \in Holders, k \in Keys :
       \/ \E ttl \in Ttls : Acquire(h, k, ttl) \/ Reclaim(h, k, ttl)
       \/ Refuse(h, k) \/ Release(h, k)
  \/ \E h \in Holders : Crash(h)
  \/ Tick

Spec == Init /\ [][Next]_vars

\* Time passes, whatever the workers do.
FairSpec == Spec /\ WF_vars(Tick)

-----------------------------------------------------------------------------
(* Properties. *)

TypeOK ==
  /\ entries \in [Keys -> [holder : Holders \cup {Nobody}, left : Nat, token : Nat]]
  /\ tokens \in [Keys -> Nat]
  /\ claims \in [Holders -> [Keys -> [left : Nat, token : Nat]]]
  /\ crashed \in SUBSET Holders
  /\ \A k \in Keys : Live(k) => entries[k].holder \in Holders

\* "Two workers can never run the same node": no two workers have a claim on a
\* slice that neither of them sees as expired.
NoDoubleClaim ==
  \A k \in Keys, g, h \in Holders :
    claims[g][k].left > 0 /\ claims[h][k].left > 0 => g = h

\* "A stale holder that wakes up after its lease expired can be detected": the
\* token of a claim that lapsed is smaller than the token of whoever holds the
\* slice now, and the latest tenure has the largest token given out.
StaleIsFenced ==
  \A k \in Keys : Live(k) =>
    /\ entries[k].token = tokens[k]
    /\ \A h \in Holders : entries[k].holder # h => claims[h][k].token < entries[k].token

\* The lease gives each slice at most one owner at a time, takes it from nobody
\* and numbers the tenures.
Owner == [k \in Keys |-> IF Live(k) THEN entries[k].holder ELSE Nobody]
Lock == INSTANCE SliceLock WITH owner <- Owner, epoch <- tokens
ImplementsLock == Lock!Spec

\* "A crashed worker's slice is re-claimable without a human in the loop".
CrashedSliceFreed ==
  \A h \in Holders, k \in Keys : h \in crashed ~> ~HeldBy(k, h)
=============================================================================
