--------------------------- MODULE DurableProofs ---------------------------
(***************************************************************************)
(* Theorems about the parts of Durable: the node-slice leases, in memory   *)
(* and in Redis, for any workers, slices, lease times and network; the     *)
(* durable store, for any accounts, companions and writes, with and        *)
(* without failing database operations; the repositories it is made of,    *)
(* for any keys, marks and times; the portrait server's pipelines, for any *)
(* threads, styles and personas; the task queue over kafkajs, for any      *)
(* groups, consumers and bounds; and the batch, for any number of cells    *)
(* and starts.                                                             *)
(***************************************************************************)
EXTENDS Durable, FiniteSetTheorems, FunctionTheorems, SequenceTheorems, TLAPS

-----------------------------------------------------------------------------
(* The lease in memory. *)

\* A claim a worker does not see as expired is the lease's own entry.
ClaimsMatch ==
  \A k \in Keys, h \in Holders :
    claims[h][k].left > 0 =>
      entries[k].holder = h /\ entries[k].left = claims[h][k].left

\* No worker knows a token the lease did not hand out.
TokensIssued == \A k \in Keys, h \in Holders : claims[h][k].token <= tokens[k]

LeaseInv == TypeOK /\ ClaimsMatch /\ TokensIssued /\ StaleIsFenced

-----------------------------------------------------------------------------
LEMMA NullRecords ==
  NoEntry.left = 0 /\ NoClaim.left = 0 /\ NoClaim.token = 0
BY DEF NoEntry, NoClaim

LEMMA LeaseStarts == Init => LeaseInv
<1> SUFFICES ASSUME Init PROVE LeaseInv
  OBVIOUS
<1> USE DEF Init, NoEntry, NoClaim, Live
<1>1. TypeOK
  BY DEF TypeOK
<1>2. ClaimsMatch /\ TokensIssued
  BY DEF ClaimsMatch, TokensIssued
<1>3. StaleIsFenced
  BY DEF StaleIsFenced
<1> QED BY <1>1, <1>2, <1>3 DEF LeaseInv

\* Whoever is granted a slice was alone with it: the slice was free, or its own.
LEMMA GrantKeeps ==
  ASSUME LeaseInv, NEW h \in Holders, NEW k \in Keys, NEW ttl \in Ttls, NEW token \in Nat,
         Grant(h, k, token, ttl),
         Live(k) => entries[k].holder = h,
         tokens' \in [Keys -> Nat],
         token = tokens'[k],
         \A j \in Keys \ {k} : tokens'[j] = tokens[j],
         tokens[k] <= tokens'[k],
         \A g \in Holders \ {h} : claims[g][k].token < token
  PROVE  LeaseInv'
<1> ttl \in Nat
  BY TtlsAssumption
<1>1. TypeOK'
  BY DEF LeaseInv, TypeOK, Grant, Live
<1>2. ClaimsMatch'
  <2> SUFFICES ASSUME NEW j \in Keys, NEW g \in Holders, claims'[g][j].left > 0
               PROVE  entries'[j].holder = g /\ entries'[j].left = claims'[g][j].left
    BY DEF ClaimsMatch
  <2>1. CASE j # k
    BY <2>1 DEF LeaseInv, TypeOK, ClaimsMatch, Grant
  <2>2. CASE j = k /\ g = h
    BY <2>2 DEF LeaseInv, TypeOK, Grant
  <2>3. CASE j = k /\ g # h
    <3>1. claims'[g][j] = claims[g][k]
      BY <2>3 DEF LeaseInv, TypeOK, Grant
    <3>2. entries[k].holder = g /\ Live(k)
      BY <3>1 DEF LeaseInv, ClaimsMatch, Live
    <3> QED BY <3>2, <2>3
  <2> QED BY <2>1, <2>2, <2>3
<1>3. TokensIssued'
  <2> SUFFICES ASSUME NEW j \in Keys, NEW g \in Holders
               PROVE  claims'[g][j].token <= tokens'[j]
    BY DEF TokensIssued
  <2>1. CASE j = k /\ g = h
    BY <2>1 DEF LeaseInv, TypeOK, Grant
  <2>2. CASE ~(j = k /\ g = h)
    <3>1. claims'[g][j] = claims[g][j]
      BY <2>2 DEF LeaseInv, TypeOK, Grant
    <3>2. claims[g][j].token \in Nat /\ tokens[j] \in Nat /\ tokens'[j] \in Nat
      BY DEF LeaseInv, TypeOK
    <3>3. claims[g][j].token <= tokens[j] /\ tokens[j] <= tokens'[j]
      BY <3>2 DEF LeaseInv, TokensIssued
    <3> QED BY <3>1, <3>2, <3>3
  <2> QED BY <2>1, <2>2
<1>4. StaleIsFenced'
  <2> SUFFICES ASSUME NEW j \in Keys, Live(j)'
               PROVE  /\ entries'[j].token = tokens'[j]
                      /\ \A g \in Holders : entries'[j].holder # g =>
                           claims'[g][j].token < entries'[j].token
    BY DEF StaleIsFenced
  <2>1. CASE j = k
    BY <2>1 DEF LeaseInv, TypeOK, Grant
  <2>2. CASE j # k
    <3>1. entries'[j] = entries[j] /\ \A g \in Holders : claims'[g][j] = claims[g][j]
      BY <2>2 DEF LeaseInv, TypeOK, Grant
    <3> QED BY <2>2, <3>1 DEF LeaseInv, StaleIsFenced, Live
  <2> QED BY <2>1, <2>2
<1> QED BY <1>1, <1>2, <1>3, <1>4 DEF LeaseInv

\* Claims that are dropped and entries that are dropped with them do no harm.
LEMMA ReleaseKeeps ==
  ASSUME LeaseInv, tokens' = tokens, crashed' \in SUBSET Holders,
         entries' \in [Keys -> [holder : Holders \cup {Nobody}, left : Nat, token : Nat]],
         claims' \in [Holders -> [Keys -> [left : Nat, token : Nat]]],
         \A k \in Keys : entries'[k] = entries[k] \/ entries'[k] = NoEntry,
         \A k \in Keys, h \in Holders : claims'[h][k] = claims[h][k] \/ claims'[h][k] = NoClaim,
         \A k \in Keys, h \in Holders :
           entries'[k] # entries[k] => claims'[h][k].left = 0
  PROVE  LeaseInv'
<1>1. TypeOK'
  <2>1. ASSUME NEW k \in Keys, entries'[k].left > 0 PROVE entries'[k].holder \in Holders
    <3>1. entries'[k] = entries[k]
      BY <2>1, NullRecords
    <3> QED BY <2>1, <3>1 DEF LeaseInv, TypeOK, Live
  <2> QED BY <2>1 DEF LeaseInv, TypeOK, Live
<1>2. ClaimsMatch'
  <2> SUFFICES ASSUME NEW k \in Keys, NEW h \in Holders, claims'[h][k].left > 0
               PROVE  entries'[k].holder = h /\ entries'[k].left = claims'[h][k].left
    BY DEF ClaimsMatch
  <2>1. entries'[k] = entries[k]
    OBVIOUS
  <2>2. claims'[h][k] = claims[h][k]
    BY NullRecords
  <2> QED BY <2>1, <2>2 DEF LeaseInv, ClaimsMatch
<1>3. TokensIssued'
  <2> SUFFICES ASSUME NEW k \in Keys, NEW h \in Holders
               PROVE  claims'[h][k].token <= tokens[k]
    BY DEF TokensIssued
  <2>1. tokens[k] \in Nat /\ claims[h][k].token <= tokens[k]
    BY DEF LeaseInv, TypeOK, TokensIssued
  <2>2. CASE claims'[h][k] = claims[h][k]
    BY <2>1, <2>2
  <2>3. CASE claims'[h][k] = NoClaim
    BY <2>1, <2>3, NullRecords
  <2> QED BY <2>2, <2>3
<1>4. StaleIsFenced'
  <2> SUFFICES ASSUME NEW k \in Keys, entries'[k].left > 0
               PROVE  /\ entries'[k].token = tokens[k]
                      /\ \A h \in Holders : entries'[k].holder # h =>
                           claims'[h][k].token < entries'[k].token
    BY DEF StaleIsFenced, Live
  <2>1. entries'[k] = entries[k] /\ Live(k)
    BY NullRecords DEF Live
  <2>2. entries[k].token = tokens[k]
    BY <2>1 DEF LeaseInv, StaleIsFenced
  <2>3. ASSUME NEW h \in Holders, entries[k].holder # h
        PROVE  claims'[h][k].token < entries[k].token
    <3>1. claims[h][k].token < entries[k].token
      BY <2>1, <2>3 DEF LeaseInv, StaleIsFenced
    <3>2. CASE claims'[h][k] = claims[h][k]
      BY <3>1, <3>2
    <3>3. CASE claims'[h][k] = NoClaim
      <4>1. claims[h][k].token \in Nat /\ entries[k].token \in Nat
        BY DEF LeaseInv, TypeOK
      <4> QED BY <3>1, <3>3, <4>1, NullRecords
    <3> QED BY <3>2, <3>3
  <2> QED BY <2>1, <2>2, <2>3
<1> QED BY <1>1, <1>2, <1>3, <1>4 DEF LeaseInv

LEMMA TickKeeps == LeaseInv /\ Tick => LeaseInv'
<1> SUFFICES ASSUME LeaseInv, Tick PROVE LeaseInv'
  OBVIOUS
<1>1. ASSUME NEW e \in [holder : Holders \cup {Nobody}, left : Nat, token : Nat]
      PROVE  /\ Aged(e) \in [holder : Holders \cup {Nobody}, left : Nat, token : Nat]
             /\ Aged(e).holder = e.holder /\ Aged(e).token = e.token
             /\ Aged(e).left = Sooner(e.left)
  BY DEF Aged, Sooner
<1>2. ASSUME NEW c \in [left : Nat, token : Nat]
      PROVE  /\ Aged(c) \in [left : Nat, token : Nat]
             /\ Aged(c).token = c.token /\ Aged(c).left = Sooner(c.left)
  BY DEF Aged, Sooner
<1>3. \A n \in Nat : Sooner(n) > 0 => n > 0
  BY DEF Sooner
<1>4. \A k \in Keys :
        /\ entries'[k].holder = entries[k].holder /\ entries'[k].token = entries[k].token
        /\ entries'[k].left = Sooner(entries[k].left)
  BY <1>1 DEF Tick, LeaseInv, TypeOK
<1>5. \A h \in Holders, k \in Keys :
        /\ claims'[h][k].token = claims[h][k].token
        /\ claims'[h][k].left = Sooner(claims[h][k].left)
  BY <1>2 DEF Tick, LeaseInv, TypeOK
<1>6. \A k \in Keys : Live(k)' => Live(k)
  BY <1>3, <1>4 DEF Live, LeaseInv, TypeOK
<1>7. TypeOK'
  <2>1. entries' \in [Keys -> [holder : Holders \cup {Nobody}, left : Nat, token : Nat]]
    BY <1>1 DEF Tick, LeaseInv, TypeOK
  <2>2. claims' \in [Holders -> [Keys -> [left : Nat, token : Nat]]]
    BY <1>2 DEF Tick, LeaseInv, TypeOK
  <2>3. \A k \in Keys : Live(k)' => entries'[k].holder \in Holders
    BY <1>4, <1>6 DEF LeaseInv, TypeOK
  <2> QED BY <2>1, <2>2, <2>3 DEF Tick, LeaseInv, TypeOK
<1>8. ClaimsMatch'
  BY <1>3, <1>4, <1>5 DEF LeaseInv, TypeOK, ClaimsMatch
<1>9. TokensIssued'
  BY <1>5 DEF Tick, LeaseInv, TokensIssued
<1>10. StaleIsFenced'
  BY <1>4, <1>5, <1>6 DEF Tick, LeaseInv, StaleIsFenced
<1> QED BY <1>7, <1>8, <1>9, <1>10 DEF LeaseInv

LEMMA LeaseStep == LeaseInv /\ [Next]_vars => LeaseInv'
<1> SUFFICES ASSUME LeaseInv, [Next]_vars PROVE LeaseInv'
  OBVIOUS
<1>1. ASSUME NEW h \in Holders, NEW k \in Keys, NEW ttl \in Ttls, Acquire(h, k, ttl)
      PROVE  LeaseInv'
  <2>1. tokens[k] \in Nat /\ tokens' \in [Keys -> Nat] /\ tokens'[k] = tokens[k] + 1
        /\ \A j \in Keys \ {k} : tokens'[j] = tokens[j]
    BY <1>1 DEF Acquire, LeaseInv, TypeOK
  <2>2. \A g \in Holders \ {h} : claims[g][k].token < tokens'[k]
    BY <2>1 DEF LeaseInv, TypeOK, TokensIssued
  <2>3. Grant(h, k, tokens'[k], ttl) /\ ~Live(k)
    BY <1>1 DEF Acquire
  <2> QED BY <2>1, <2>2, <2>3, GrantKeeps
<1>2. ASSUME NEW h \in Holders, NEW k \in Keys, NEW ttl \in Ttls, Reclaim(h, k, ttl)
      PROVE  LeaseInv'
  <2>1. Live(k) /\ entries[k].holder = h /\ tokens' = tokens
        /\ Grant(h, k, entries[k].token, ttl)
    BY <1>2 DEF Reclaim, HeldBy
  <2>2. entries[k].token = tokens[k] /\ entries[k].token \in Nat /\ tokens \in [Keys -> Nat]
    BY <2>1 DEF LeaseInv, TypeOK, StaleIsFenced
  <2>3. \A g \in Holders \ {h} : claims[g][k].token < entries[k].token
    BY <2>1 DEF LeaseInv, StaleIsFenced
  <2> QED BY <2>1, <2>2, <2>3, GrantKeeps
<1>3. ASSUME NEW h \in Holders, NEW k \in Keys, Refuse(h, k)
      PROVE  LeaseInv'
  <2>1. claims' \in [Holders -> [Keys -> [left : Nat, token : Nat]]]
        /\ \A j \in Keys, g \in Holders : claims'[g][j] = claims[g][j] \/ claims'[g][j] = NoClaim
    BY <1>3 DEF Refuse, LeaseInv, TypeOK, NoClaim
  <2>2. entries' = entries /\ tokens' = tokens /\ crashed' = crashed
    BY <1>3 DEF Refuse
  <2>3. crashed' \in SUBSET Holders /\
        entries' \in [Keys -> [holder : Holders \cup {Nobody}, left : Nat, token : Nat]]
    BY <2>2 DEF LeaseInv, TypeOK
  <2> QED BY <2>1, <2>2, <2>3, ReleaseKeeps
<1>4. ASSUME NEW h \in Holders, NEW k \in Keys, Release(h, k)
      PROVE  LeaseInv'
  <2>1. claims' \in [Holders -> [Keys -> [left : Nat, token : Nat]]]
        /\ \A j \in Keys, g \in Holders : claims'[g][j] = claims[g][j] \/ claims'[g][j] = NoClaim
    BY <1>4 DEF Release, LeaseInv, TypeOK, NoClaim
  <2>2. entries' \in [Keys -> [holder : Holders \cup {Nobody}, left : Nat, token : Nat]]
        /\ \A j \in Keys : entries'[j] = entries[j] \/ entries'[j] = NoEntry
    BY <1>4 DEF Release, LeaseInv, TypeOK, NoEntry
  <2>3. tokens' = tokens /\ crashed' \in SUBSET Holders
    BY <1>4 DEF Release, LeaseInv, TypeOK
  <2>4. ASSUME NEW j \in Keys, NEW g \in Holders, entries'[j] # entries[j]
        PROVE  claims'[g][j].left = 0
    <3>1. j = k /\ entries[k].holder = h
      BY <1>4, <2>4 DEF Release, HeldBy, LeaseInv, TypeOK
    <3>2. CASE g = h
      <4>1. claims'[h][k] = NoClaim
        BY <1>4 DEF Release, LeaseInv, TypeOK
      <4> QED BY <3>1, <3>2, <4>1, NullRecords
    <3>3. CASE g # h
      <4>1. claims'[g][k] = claims[g][k]
        BY <1>4, <3>3 DEF Release, LeaseInv, TypeOK
      <4>2. claims[g][k].left \in Nat /\ ~(claims[g][k].left > 0)
        BY <3>1, <3>3 DEF LeaseInv, TypeOK, ClaimsMatch
      <4> QED BY <3>1, <4>1, <4>2
    <3> QED BY <3>2, <3>3
  <2> QED BY <2>1, <2>2, <2>3, <2>4, ReleaseKeeps
<1>5. ASSUME NEW h \in Holders, Crash(h)
      PROVE  LeaseInv'
  <2>1. claims' \in [Holders -> [Keys -> [left : Nat, token : Nat]]]
        /\ \A j \in Keys, g \in Holders : claims'[g][j] = claims[g][j] \/ claims'[g][j] = NoClaim
    BY <1>5 DEF Crash, LeaseInv, TypeOK, NoClaim
  <2>2. entries' = entries /\ tokens' = tokens /\ crashed' \in SUBSET Holders
    BY <1>5 DEF Crash, LeaseInv, TypeOK
  <2>3. entries' \in [Keys -> [holder : Holders \cup {Nobody}, left : Nat, token : Nat]]
    BY <2>2 DEF LeaseInv, TypeOK
  <2> QED BY <2>1, <2>2, <2>3, ReleaseKeeps
<1>6. CASE Tick
  BY <1>6, TickKeeps
<1>7. CASE UNCHANGED vars
  BY <1>7 DEF vars, LeaseInv, TypeOK, ClaimsMatch, TokensIssued, StaleIsFenced, Live
<1> QED BY <1>1, <1>2, <1>3, <1>4, <1>5, <1>6, <1>7 DEF Next

THEOREM LeaseInvariant == Spec => []LeaseInv
<1>1. Init => LeaseInv
  BY LeaseStarts
<1>2. LeaseInv /\ [Next]_vars => LeaseInv'
  BY LeaseStep
<1> QED BY <1>1, <1>2, PTL DEF Spec

-----------------------------------------------------------------------------
\* The lease's maps and the workers' claims keep their types (nodes/lease.ts,
\* InMemoryNodeSliceLease); a live entry has a worker as its holder.
THEOREM LeaseTypes == Spec => []TypeOK
BY LeaseInvariant, PTL DEF LeaseInv

\* Two workers never hold unexpired claims on one slice, because an unexpired
\* claim is the lease's own entry (claim, liveEntry).
THEOREM ExclusiveSlices == Spec => []NoDoubleClaim
<1>1. LeaseInv => NoDoubleClaim
  BY DEF LeaseInv, ClaimsMatch, NoDoubleClaim
<1> QED BY <1>1, LeaseInvariant, PTL

\* Whoever holds a slice has a larger fencing token than anybody who lost it
\* (nextToken).
THEOREM TokensFenceStaleHolders == Spec => []StaleIsFenced
BY LeaseInvariant, PTL DEF LeaseInv

-----------------------------------------------------------------------------
LEMMA LockInit == Init => Lock!Init
BY DEF Init, Lock!Init, Owner, Live, NoEntry

LEMMA LockStep == LeaseInv /\ [Next]_vars => [Lock!Next]_<<Owner, tokens>>
<1> SUFFICES ASSUME LeaseInv, [Next]_vars PROVE Lock!Next \/ UNCHANGED <<Owner, tokens>>
  OBVIOUS
<1>1. ASSUME NEW h \in Holders, NEW k \in Keys, NEW ttl \in Ttls, Acquire(h, k, ttl)
      PROVE  Lock!Next
  <2>1. ~Live(k) /\ entries' = [entries EXCEPT ![k] = [holder |-> h, left |-> ttl, token |-> tokens'[k]]]
        /\ tokens' = [tokens EXCEPT ![k] = tokens[k] + 1]
    BY <1>1 DEF Acquire, Grant
  <2>2. Owner[k] = Nobody
    BY <2>1 DEF Owner
  <2>3. Owner' \in {Owner, [Owner EXCEPT ![k] = h]}
    <3>1. CASE ttl > 0
      <4>1. Owner' = [Owner EXCEPT ![k] = h]
        BY <2>1, <3>1 DEF Owner, Live, LeaseInv, TypeOK
      <4> QED BY <4>1
    <3>2. CASE ~(ttl > 0)
      <4>1. Owner' = Owner
        BY <2>1, <3>2 DEF Owner, Live, LeaseInv, TypeOK
      <4> QED BY <4>1
    <3> QED BY <3>1, <3>2
  <2>4. Lock!Take(k, h)
    BY <2>1, <2>2, <2>3 DEF Lock!Take
  <2> QED BY <2>4 DEF Lock!Next
<1>2. ASSUME NEW ks \in SUBSET Keys, tokens' = tokens,
             \A j \in Keys : Owner'[j] = IF j \in ks THEN Nobody ELSE Owner[j]
      PROVE  Lock!Next
  <2>1. Lock!Free(ks)
    BY <1>2 DEF Lock!Free, Owner
  <2> QED BY <2>1 DEF Lock!Next
<1>3. ASSUME NEW h \in Holders, NEW k \in Keys, NEW ttl \in Ttls, Reclaim(h, k, ttl)
      PROVE  Lock!Next \/ UNCHANGED <<Owner, tokens>>
  <2>1. HeldBy(k, h) /\ tokens' = tokens
        /\ entries' = [entries EXCEPT ![k] = [holder |-> h, left |-> ttl, token |-> entries[k].token]]
    BY <1>3 DEF Reclaim, Grant
  <2>2. CASE ttl > 0
    <3>1. Owner' = Owner
      BY <2>1, <2>2 DEF Owner, Live, HeldBy, LeaseInv, TypeOK
    <3> QED BY <2>1, <3>1
  <2>3. CASE ~(ttl > 0)
    <3>1. \A j \in Keys : Owner'[j] = IF j \in {k} THEN Nobody ELSE Owner[j]
      BY <2>1, <2>3 DEF Owner, Live, LeaseInv, TypeOK
    <3> QED BY <1>2, <2>1, <3>1
  <2> QED BY <2>2, <2>3
<1>4. ASSUME NEW h \in Holders, NEW k \in Keys, Release(h, k)
      PROVE  Lock!Next
  <2>1. entries' = [entries EXCEPT ![k] = NoEntry] /\ tokens' = tokens
    BY <1>4 DEF Release
  <2>2. \A j \in Keys : Owner'[j] = IF j \in {k} THEN Nobody ELSE Owner[j]
    BY <2>1, NullRecords DEF Owner, Live, LeaseInv, TypeOK
  <2> QED BY <1>2, <2>1, <2>2
<1>5. CASE Tick
  <2> DEFINE gone == {k \in Keys : Sooner(entries[k].left) = 0}
  <2>1. tokens' = tokens /\ \A k \in Keys : entries'[k].holder = entries[k].holder
                                         /\ entries'[k].left = Sooner(entries[k].left)
    BY <1>5 DEF Tick, Aged, LeaseInv, TypeOK
  <2>2. \A k \in Keys : entries[k].left \in Nat
    BY DEF LeaseInv, TypeOK
  <2>3. \A k \in Keys : Owner'[k] = IF k \in gone THEN Nobody ELSE Owner[k]
    BY <2>1, <2>2 DEF Owner, Live, Sooner
  <2>4. gone \in SUBSET Keys
    OBVIOUS
  <2> HIDE DEF gone
  <2> QED BY <1>2, <2>1, <2>3, <2>4
<1>6. ASSUME UNCHANGED <<entries, tokens>>
      PROVE  UNCHANGED <<Owner, tokens>>
  BY <1>6 DEF Owner, Live
<1>7. ASSUME NEW h \in Holders, Crash(h) \/ \E k \in Keys : Refuse(h, k)
      PROVE  UNCHANGED <<Owner, tokens>>
  BY <1>6, <1>7 DEF Crash, Refuse
<1>8. CASE UNCHANGED vars
  BY <1>6, <1>8 DEF vars
<1> QED BY <1>1, <1>3, <1>4, <1>5, <1>7, <1>8 DEF Next

\* The in-memory lease implements the abstract slice lock: a slice is taken only
\* when it is free, each tenure gets the next token, and only release and time
\* (or a re-claim for no time) free it.
THEOREM LeaseIsALock == Spec => ImplementsLock
<1>1. Init => Lock!Init
  BY LockInit
<1>2. LeaseInv /\ [Next]_vars => [Lock!Next]_<<Owner, tokens>>
  BY LockStep
<1> QED BY <1>1, <1>2, LeaseInvariant, PTL DEF Spec, ImplementsLock, Lock!Spec

-----------------------------------------------------------------------------
(* The lease in Redis. *)

\* The steps of a call that sets a time to live.
Leasing == {"claimSet", "claimGet", "claimExpire", "renewGet", "renewExpire", "granted"}

CallsHaveTtl == \A w \in RedisWorkers : pc[w] \in Leasing => call[w].ttl \in RedisTtls
KeysExpire == \A k \in Slices : value[k] # NoValue => left[k] > 0
DeadAreSilent == \A w \in redisCrashed :
  (network = "prompt" => pc[w] = "idle") /\ \A k \in Slices : redisClaims[w][k] = 0

\* On a prompt network what a worker read stays true until its next command.
\* A claim is covered by the time to live, except while its own worker is about
\* to replace it by a shorter one.
Answered(w) ==
  /\ pc[w] \in {"claimExpire", "renewExpire", "releaseDel", "granted"} => value[Key(w)] = w
  /\ pc[w] = "granted" => left[Key(w)] = call[w].ttl
  /\ pc[w] \in {"releaseGet", "releaseDel"} => redisClaims[w][Key(w)] = 0
Covered(w, k) ==
  redisClaims[w][k] > 0 =>
    /\ value[k] = w
    /\ left[k] >= redisClaims[w][k] \/ (pc[w] = "granted" /\ Key(w) = k)
Prompt == network = "prompt" => \A w \in RedisWorkers : Answered(w) /\ \A k \in Slices : Covered(w, k)

RedisInv == RedisTypeOK /\ CallsHaveTtl /\ KeysExpire /\ DeadAreSilent /\ Prompt

-----------------------------------------------------------------------------
LEMMA InitRedisInv ==
  ASSUME RedisInit
  PROVE  RedisInv
<1>1. PICK first \in Slices : first = CHOOSE k \in Slices : TRUE
  BY RedisAssumption
<1>2. RedisTypeOK
  <2>1. call = [w \in RedisWorkers |-> [key |-> first, ttl |-> 0]]
    BY <1>1 DEF RedisInit
  <2>2. call \in [RedisWorkers -> [key : Slices, ttl : Nat]]
    BY <2>1
  <2>3. /\ value \in [Slices -> RedisWorkers \cup {NoValue}] /\ left \in [Slices -> Nat]
        /\ \A k \in Slices : ~(left[k] > 0)
    BY DEF RedisInit
  <2>4. pc \in [RedisWorkers -> Steps] /\ redisClaims \in [RedisWorkers -> [Slices -> Nat]]
    BY DEF RedisInit, Steps
  <2> QED BY <2>2, <2>3, <2>4 DEF RedisInit, RedisTypeOK
<1>3. CallsHaveTtl /\ KeysExpire /\ DeadAreSilent
  BY DEF RedisInit, CallsHaveTtl, KeysExpire, DeadAreSilent, Leasing
<1>4. Prompt
  BY DEF RedisInit, Prompt, Answered, Covered
<1> QED BY <1>2, <1>3, <1>4 DEF RedisInv

\* Where a step leads: to the step named, or nowhere if the worker is dead, and
\* then only on a late network.
LEMMA GotoShape ==
  ASSUME RedisInv, NEW w \in RedisWorkers, NEW step \in Steps, Goto(w, step),
         pc[w] # "idle" \/ w \notin redisCrashed
  PROVE  /\ pc' \in [RedisWorkers -> Steps]
         /\ \A v \in RedisWorkers \ {w} : pc'[v] = pc[v]
         /\ pc'[w] = step \/ (pc'[w] = "idle" /\ w \in redisCrashed)
         /\ network = "prompt" => w \notin redisCrashed /\ pc'[w] = step
         /\ w \in redisCrashed => pc'[w] = "idle"
BY DEF RedisInv, RedisTypeOK, Goto, DeadAreSilent, Steps

LEMMA StartInv ==
  ASSUME RedisInv, NEW w \in RedisWorkers, NEW k \in Slices, NEW ttl \in Nat,
         NEW step \in {"claimSet", "renewGet", "releaseGet"},
         step # "releaseGet" => ttl \in RedisTtls,
         StartCall(w, step, k, ttl)
  PROVE  RedisInv'
<1>1. w \notin redisCrashed /\ pc[w] = "idle" /\ UNCHANGED <<value, left, redisCrashed, network>>
  BY DEF StartCall, Awaits
<1>2. /\ pc' \in [RedisWorkers -> Steps] /\ pc'[w] = step
      /\ \A v \in RedisWorkers \ {w} : pc'[v] = pc[v]
  BY <1>1, GotoShape DEF StartCall, Steps
<1>3. /\ call' \in [RedisWorkers -> [key : Slices, ttl : Nat]] /\ call'[w] = [key |-> k, ttl |-> ttl]
      /\ \A v \in RedisWorkers \ {w} : call'[v] = call[v]
  BY DEF StartCall, RedisInv, RedisTypeOK
<1>4. /\ redisClaims' \in [RedisWorkers -> [Slices -> Nat]]
      /\ \A v \in RedisWorkers, j \in Slices : redisClaims'[v][j] = redisClaims[v][j] \/ redisClaims'[v][j] = 0
      /\ step = "releaseGet" => redisClaims'[w][k] = 0
      /\ \A v \in RedisWorkers \ {w} : redisClaims'[v] = redisClaims[v]
  BY DEF StartCall, RedisInv, RedisTypeOK
<1>5. RedisTypeOK'
  BY <1>1, <1>2, <1>3, <1>4 DEF RedisInv, RedisTypeOK
<1>6. CallsHaveTtl' /\ KeysExpire'
  BY <1>1, <1>2, <1>3 DEF RedisInv, CallsHaveTtl, KeysExpire, Leasing
<1>7. DeadAreSilent'
  BY <1>1, <1>2, <1>4 DEF RedisInv, DeadAreSilent, RedisTypeOK
<1>8. Prompt'
  <2> SUFFICES ASSUME network = "prompt", NEW v \in RedisWorkers
               PROVE  Answered(v)' /\ \A j \in Slices : Covered(v, j)'
    BY <1>1 DEF Prompt
  <2>1. Answered(v) /\ \A j \in Slices : Covered(v, j)
    BY DEF RedisInv, Prompt
  <2>2. CASE v = w
    <3>1. Answered(v)'
      BY <1>2, <1>3, <1>4, <2>2 DEF Answered, Key
    <3>2. \A j \in Slices : Covered(v, j)'
      BY <1>1, <1>2, <1>4, <2>1, <2>2 DEF Covered
    <3> QED BY <3>1, <3>2
  <2>3. CASE v # w
    BY <1>1, <1>2, <1>3, <1>4, <2>1, <2>3 DEF Answered, Covered, Key
  <2> QED BY <2>2, <2>3
<1> QED BY <1>5, <1>6, <1>7, <1>8 DEF RedisInv

\* A command of a worker that changes at most the server's entry of the key it
\* is about: what it must respect so that everybody's claims stay covered.
LEMMA CommandInv ==
  ASSUME RedisInv, NEW w \in RedisWorkers, pc[w] # "idle", NEW step \in Steps, Goto(w, step),
         UNCHANGED <<call, redisClaims, redisCrashed, network>>,
         value' \in [Slices -> RedisWorkers \cup {NoValue}], left' \in [Slices -> Nat],
         \A k \in Slices \ {Key(w)} : value'[k] = value[k] /\ left'[k] = left[k],
         value'[Key(w)] # NoValue <=> left'[Key(w)] > 0,
         step \in Leasing => pc[w] \in Leasing,
         network = "prompt" =>
           /\ \/ value[Key(w)] \in {w, NoValue}
              \/ value' = value /\ left' = left
           /\ value'[Key(w)] # value[Key(w)] => value[Key(w)] = NoValue \/ redisClaims[w][Key(w)] = 0
           /\ step \in {"claimExpire", "renewExpire", "releaseDel", "granted"} => value'[Key(w)] = w
           /\ step = "granted" => left'[Key(w)] = call[w].ttl
           /\ step \in {"releaseGet", "releaseDel"} => redisClaims[w][Key(w)] = 0
           /\ step # "granted" => left'[Key(w)] = left[Key(w)] \/ redisClaims[w][Key(w)] = 0
           /\ pc[w] # "granted"
  PROVE  RedisInv'
<1>1. /\ pc' \in [RedisWorkers -> Steps]
      /\ \A v \in RedisWorkers \ {w} : pc'[v] = pc[v]
      /\ pc'[w] = step \/ (pc'[w] = "idle" /\ w \in redisCrashed)
      /\ network = "prompt" => w \notin redisCrashed /\ pc'[w] = step
      /\ w \in redisCrashed => pc'[w] = "idle"
  BY GotoShape
<1>2. Key(w) \in Slices /\ \A v \in RedisWorkers : Key(v)' = Key(v)
  BY DEF Key, RedisInv, RedisTypeOK
<1>3. RedisTypeOK'
  BY <1>1, <1>2 DEF RedisInv, RedisTypeOK
<1>4. CallsHaveTtl'
  BY <1>1 DEF RedisInv, CallsHaveTtl, Leasing
<1>5. KeysExpire'
  BY <1>2 DEF RedisInv, KeysExpire
<1>6. DeadAreSilent'
  BY <1>1 DEF RedisInv, DeadAreSilent, RedisTypeOK
<1>7. Prompt'
  <2> SUFFICES ASSUME network = "prompt", NEW v \in RedisWorkers
               PROVE  Answered(v)' /\ \A j \in Slices : Covered(v, j)'
    BY DEF Prompt
  <2>1. Answered(v) /\ \A j \in Slices : Covered(v, j)
    BY DEF RedisInv, Prompt
  <2>2. CASE v = w
    <3>1. Answered(v)'
      BY <1>1, <1>2, <2>2 DEF Answered, Key
    <3>2. ASSUME NEW j \in Slices, redisClaims[w][j] > 0
          PROVE  /\ value'[j] = w
                 /\ left'[j] >= redisClaims[w][j] \/ (pc'[w] = "granted" /\ Key(w)' = j)
      <4>1. value[j] = w /\ left[j] >= redisClaims[w][j]
        BY <2>1, <2>2, <3>2 DEF Covered
      <4>2. value'[j] = w
        BY <1>2, <3>2, <4>1, RedisAssumption
      <4>3. CASE j = Key(w) /\ step = "granted"
        BY <1>1, <1>2, <4>2, <4>3
      <4>4. CASE j # Key(w) \/ step # "granted"
        BY <1>2, <3>2, <4>1, <4>2, <4>4
      <4> QED BY <4>3, <4>4
    <3> QED BY <2>2, <3>1, <3>2 DEF Covered
  <2>3. CASE v # w
    <3>1. pc'[v] = pc[v] /\ Key(v)' = Key(v) /\ Key(v) \in Slices
      BY <1>1, <1>2, <2>3 DEF Key, RedisInv, RedisTypeOK
    <3>2. ASSUME NEW j \in Slices, value[j] = v
          PROVE  value'[j] = v /\ left'[j] = left[j]
      BY <1>2, <2>3, <3>2, RedisAssumption
    <3>3. Answered(v)'
      BY <2>1, <3>1, <3>2 DEF Answered
    <3>4. \A j \in Slices : Covered(v, j)'
      BY <2>1, <3>1, <3>2 DEF Covered
    <3> QED BY <3>3, <3>4
  <2> QED BY <2>2, <2>3
<1> QED BY <1>3, <1>4, <1>5, <1>6, <1>7 DEF RedisInv

LEMMA SetInv ==
  ASSUME RedisInv, NEW w \in RedisWorkers, SetNxPx(w)
  PROVE  RedisInv'
<1> DEFINE k == Key(w)
<1>1. pc[w] = "claimSet" /\ pc[w] # "idle" /\ k \in Slices /\ call[w].ttl \in Nat \ {0}
      /\ UNCHANGED <<call, redisClaims, redisCrashed, network>>
  BY RedisAssumption DEF SetNxPx, Awaits, RedisInv, RedisTypeOK, Key, CallsHaveTtl, Leasing
<1>2. CASE value[k] = NoValue
  <2>1. /\ value' = [value EXCEPT ![k] = w] /\ left' = [left EXCEPT ![k] = call[w].ttl]
        /\ Goto(w, "granted")
    BY <1>2 DEF SetNxPx
  <2>2. /\ value' \in [Slices -> RedisWorkers \cup {NoValue}] /\ left' \in [Slices -> Nat]
        /\ value'[k] = w /\ left'[k] = call[w].ttl
        /\ \A j \in Slices \ {k} : value'[j] = value[j] /\ left'[j] = left[j]
    BY <1>1, <2>1 DEF RedisInv, RedisTypeOK
  <2>3. w # NoValue /\ "granted" \in Steps
    BY RedisAssumption DEF Steps
  <2> HIDE DEF k
  <2> QED BY <1>1, <1>2, <2>1, <2>2, <2>3, CommandInv DEF Leasing, k
<1>3. CASE value[k] # NoValue
  <2>1. value' = value /\ left' = left /\ Goto(w, "claimGet") /\ "claimGet" \in Steps
    BY <1>3 DEF SetNxPx, Steps
  <2>2. value[k] # NoValue <=> left[k] > 0
    BY <1>1 DEF RedisInv, RedisTypeOK, KeysExpire
  <2> QED BY <1>1, <2>1, <2>2, CommandInv DEF Leasing, RedisInv, RedisTypeOK
<1> QED BY <1>2, <1>3

LEMMA GetInv ==
  ASSUME RedisInv, NEW w \in RedisWorkers, NEW from, NEW to,
         \/ from = "claimGet" /\ to = "claimExpire"
         \/ from = "renewGet" /\ to = "renewExpire"
         \/ from = "releaseGet" /\ to = "releaseDel",
         Get(w, from, to)
  PROVE  RedisInv'
<1>1. /\ pc[w] = from /\ pc[w] # "idle" /\ pc[w] # "granted" /\ Key(w) \in Slices
      /\ UNCHANGED <<value, left, call, redisClaims, redisCrashed, network>>
  BY DEF Get, Awaits, RedisInv, RedisTypeOK, Key
<1>2. PICK step \in {to, "refused"} : Goto(w, step) /\ (step = to => value[Key(w)] = w)
  BY DEF Get
<1>3. step \in Steps /\ step # "granted" /\ (step \in Leasing => pc[w] \in Leasing)
  BY <1>1, <1>2 DEF Steps, Leasing
<1>4. value[Key(w)] # NoValue <=> left[Key(w)] > 0
  BY <1>1 DEF RedisInv, RedisTypeOK, KeysExpire
<1>5. step \in {"claimExpire", "renewExpire", "releaseDel"} => value[Key(w)] = w
  BY <1>2
<1>6. network = "prompt" => (step \in {"releaseGet", "releaseDel"} => redisClaims[w][Key(w)] = 0)
  BY <1>1, <1>2 DEF RedisInv, Prompt, Answered
<1>7. value \in [Slices -> RedisWorkers \cup {NoValue}] /\ left \in [Slices -> Nat]
  BY DEF RedisInv, RedisTypeOK
<1> QED BY <1>1, <1>2, <1>3, <1>4, <1>5, <1>6, <1>7, CommandInv

LEMMA ExpireInv ==
  ASSUME RedisInv, NEW w \in RedisWorkers, ClaimExpire(w) \/ RenewExpire(w)
  PROVE  RedisInv'
<1> DEFINE k == Key(w)
<1>1. /\ pc[w] \in {"claimExpire", "renewExpire"} /\ k \in Slices /\ call[w].ttl \in Nat \ {0}
      /\ value' = value /\ Extend(w)
      /\ UNCHANGED <<call, redisClaims, redisCrashed, network>>
  BY RedisAssumption DEF ClaimExpire, RenewExpire, Awaits, RedisInv, RedisTypeOK, Key, CallsHaveTtl, Leasing
<1>2. PICK step \in {"granted", "refused"} :
        Goto(w, step) /\ (step = "refused" => value[k] = NoValue)
  BY DEF ClaimExpire, RenewExpire
<1>3. /\ left' \in [Slices -> Nat]
      /\ left'[k] = IF value[k] = NoValue THEN 0 ELSE call[w].ttl
      /\ \A j \in Slices \ {k} : left'[j] = left[j]
  BY <1>1 DEF Extend, RedisInv, RedisTypeOK
<1>4. value \in [Slices -> RedisWorkers \cup {NoValue}] /\ w # NoValue
  BY RedisAssumption DEF RedisInv, RedisTypeOK
<1>5. network = "prompt" => value[k] = w
  BY <1>1 DEF RedisInv, Prompt, Answered
<1>6. /\ step \in Steps /\ pc[w] \in Leasing
      /\ step \notin {"claimExpire", "renewExpire", "releaseDel", "releaseGet"}
  BY <1>1, <1>2 DEF Steps, Leasing
<1>7. value'[k] # NoValue <=> left'[k] > 0
  BY <1>1, <1>3
<1> HIDE DEF k
<1> QED BY <1>1, <1>2, <1>3, <1>4, <1>5, <1>6, <1>7, CommandInv DEF k

LEMMA DeleteInv ==
  ASSUME RedisInv, NEW w \in RedisWorkers, Delete(w)
  PROVE  RedisInv'
<1> DEFINE k == Key(w)
<1>1. /\ pc[w] = "releaseDel" /\ k \in Slices /\ Goto(w, "refused") /\ "refused" \in Steps
      /\ value' = [value EXCEPT ![k] = NoValue] /\ left' = [left EXCEPT ![k] = 0]
      /\ UNCHANGED <<call, redisClaims, redisCrashed, network>>
  BY DEF Delete, Awaits, RedisInv, RedisTypeOK, Key, Steps
<1>2. /\ value' \in [Slices -> RedisWorkers \cup {NoValue}] /\ left' \in [Slices -> Nat]
      /\ value'[k] = NoValue /\ left'[k] = 0
      /\ \A j \in Slices \ {k} : value'[j] = value[j] /\ left'[j] = left[j]
  BY <1>1 DEF RedisInv, RedisTypeOK
<1>3. network = "prompt" => value[k] = w /\ redisClaims[w][k] = 0
  BY <1>1 DEF RedisInv, Prompt, Answered
<1> HIDE DEF k
<1> QED BY <1>1, <1>2, <1>3, CommandInv DEF k, Leasing

LEMMA ReturnInv ==
  ASSUME RedisInv, NEW w \in RedisWorkers, Return(w)
  PROVE  RedisInv'
<1>1. /\ pc[w] \in {"granted", "refused"} /\ w \notin redisCrashed /\ Goto(w, "idle")
      /\ UNCHANGED <<value, left, call, redisCrashed, network>> /\ Key(w) \in Slices
  BY DEF Return, RedisInv, RedisTypeOK, Key
<1>2. /\ pc' \in [RedisWorkers -> Steps] /\ pc'[w] = "idle"
      /\ \A v \in RedisWorkers \ {w} : pc'[v] = pc[v]
  BY <1>1, GotoShape DEF Steps
<1>3. /\ redisClaims' \in [RedisWorkers -> [Slices -> Nat]]
      /\ redisClaims'[w][Key(w)] = IF pc[w] = "granted" THEN call[w].ttl ELSE 0
      /\ \A j \in Slices \ {Key(w)} : redisClaims'[w][j] = redisClaims[w][j]
      /\ \A v \in RedisWorkers \ {w} : redisClaims'[v] = redisClaims[v]
  BY <1>1 DEF Return, RedisInv, RedisTypeOK
<1>4. RedisTypeOK' /\ CallsHaveTtl' /\ KeysExpire'
  BY <1>1, <1>2, <1>3 DEF RedisInv, RedisTypeOK, CallsHaveTtl, KeysExpire, Leasing
<1>5. DeadAreSilent'
  BY <1>1, <1>2, <1>3 DEF RedisInv, DeadAreSilent, RedisTypeOK
<1>6. Prompt'
  <2> SUFFICES ASSUME network = "prompt", NEW v \in RedisWorkers
               PROVE  Answered(v)' /\ \A j \in Slices : Covered(v, j)'
    BY <1>1 DEF Prompt
  <2>1. Answered(v) /\ \A j \in Slices : Covered(v, j)
    BY DEF RedisInv, Prompt
  <2>2. CASE v = w
    <3>1. Answered(v)'
      BY <1>2, <2>2 DEF Answered
    <3>2. ASSUME NEW j \in Slices, redisClaims'[w][j] > 0
          PROVE  value[j] = w /\ left[j] >= redisClaims'[w][j]
      <4>1. CASE j = Key(w)
        <5>1. pc[w] = "granted" /\ redisClaims'[w][j] = call[w].ttl
          BY <1>3, <3>2, <4>1
        <5>2. left[j] \in Nat
          BY DEF RedisInv, RedisTypeOK
        <5> QED BY <2>1, <2>2, <4>1, <5>1, <5>2 DEF Answered
      <4>2. CASE j # Key(w)
        BY <1>3, <2>1, <2>2, <3>2, <4>2 DEF Covered
      <4> QED BY <4>1, <4>2
    <3> QED BY <1>1, <2>2, <3>1, <3>2 DEF Covered
  <2>3. CASE v # w
    BY <1>1, <1>2, <1>3, <2>1, <2>3 DEF Answered, Covered, Key
  <2> QED BY <2>2, <2>3
<1> QED BY <1>4, <1>5, <1>6 DEF RedisInv

LEMMA CrashInv ==
  ASSUME RedisInv, NEW w \in RedisWorkers, RedisCrash(w)
  PROVE  RedisInv'
<1>1. /\ UNCHANGED <<value, left, call, network>> /\ redisCrashed' = redisCrashed \cup {w}
      /\ redisClaims' \in [RedisWorkers -> [Slices -> Nat]]
      /\ \A k \in Slices : redisClaims'[w][k] = 0
      /\ \A v \in RedisWorkers \ {w} : redisClaims'[v] = redisClaims[v]
  BY DEF RedisCrash, RedisInv, RedisTypeOK
<1>2. /\ pc' \in [RedisWorkers -> Steps] /\ pc'[w] \in {"idle", pc[w]}
      /\ network = "prompt" => pc'[w] = "idle"
      /\ \A v \in RedisWorkers \ {w} : pc'[v] = pc[v]
  BY DEF RedisCrash, RedisInv, RedisTypeOK, Steps
<1>3. RedisTypeOK' /\ CallsHaveTtl' /\ KeysExpire'
  BY <1>1, <1>2 DEF RedisInv, RedisTypeOK, CallsHaveTtl, KeysExpire, Leasing
<1>4. DeadAreSilent'
  BY <1>1, <1>2 DEF RedisInv, DeadAreSilent, RedisTypeOK
<1>5. Prompt'
  <2> SUFFICES ASSUME network = "prompt", NEW v \in RedisWorkers
               PROVE  Answered(v)' /\ \A j \in Slices : Covered(v, j)'
    BY <1>1 DEF Prompt
  <2>1. Answered(v) /\ \A j \in Slices : Covered(v, j)
    BY DEF RedisInv, Prompt
  <2>2. CASE v = w
    BY <1>1, <1>2, <2>2 DEF Answered, Covered
  <2>3. CASE v # w
    BY <1>1, <1>2, <2>1, <2>3 DEF Answered, Covered, Key
  <2> QED BY <2>2, <2>3
<1> QED BY <1>3, <1>4, <1>5 DEF RedisInv

LEMMA TickInv ==
  ASSUME RedisInv, RedisTick
  PROVE  RedisInv'
<1>1. /\ UNCHANGED <<pc, call, redisCrashed, network>>
      /\ network = "prompt" => \A w \in RedisWorkers : pc[w] = "idle"
  BY DEF RedisTick
<1>2. ASSUME NEW k \in Slices
      PROVE  /\ left[k] \in Nat /\ left'[k] = Nearer(left[k])
             /\ value'[k] = IF left[k] = 1 THEN NoValue ELSE value[k]
             /\ \A w \in RedisWorkers : redisClaims[w][k] \in Nat /\ redisClaims'[w][k] = Nearer(redisClaims[w][k])
  BY DEF RedisTick, RedisInv, RedisTypeOK
<1>3. RedisTypeOK'
  <2>1. left' \in [Slices -> Nat]
    BY <1>2 DEF RedisTick, Nearer
  <2>2. value' \in [Slices -> RedisWorkers \cup {NoValue}]
    BY <1>2 DEF RedisTick, RedisInv, RedisTypeOK
  <2>3. redisClaims' \in [RedisWorkers -> [Slices -> Nat]]
    BY <1>2 DEF RedisTick, Nearer
  <2>4. \A k \in Slices : left'[k] > 0 => value'[k] # NoValue
    BY <1>2 DEF RedisInv, RedisTypeOK, Nearer
  <2> QED BY <1>1, <2>1, <2>2, <2>3, <2>4 DEF RedisInv, RedisTypeOK
<1>4. CallsHaveTtl' /\ KeysExpire' /\ DeadAreSilent'
  <2>1. KeysExpire'
    BY <1>2 DEF RedisInv, KeysExpire, Nearer
  <2>2. CallsHaveTtl'
    BY <1>1 DEF RedisInv, CallsHaveTtl
  <2>3. DeadAreSilent'
    BY <1>1, <1>2 DEF RedisInv, DeadAreSilent, RedisTypeOK, Nearer
  <2> QED BY <2>1, <2>2, <2>3
<1>5. Prompt'
  <2> SUFFICES ASSUME network = "prompt", NEW w \in RedisWorkers
               PROVE  Answered(w)' /\ \A k \in Slices : Covered(w, k)'
    BY <1>1 DEF Prompt
  <2>1. pc'[w] = "idle" /\ pc[w] = "idle" /\ \A k \in Slices : Covered(w, k)
    BY <1>1 DEF RedisInv, Prompt
  <2> QED BY <1>2, <2>1 DEF Answered, Covered, Nearer
<1> QED BY <1>3, <1>4, <1>5 DEF RedisInv

LEMMA NextInv ==
  ASSUME RedisInv, [RedisNext]_redisVars
  PROVE  RedisInv'
<1>1. CASE UNCHANGED redisVars
  BY <1>1 DEF redisVars, RedisInv, RedisTypeOK, CallsHaveTtl, KeysExpire, DeadAreSilent, Prompt,
              Answered, Covered, Key
<1>2. CASE RedisTick
  BY <1>2, TickInv
<1>3. ASSUME NEW w \in RedisWorkers, RedisCrash(w) \/ Command(w)
      PROVE  RedisInv'
  BY <1>3, CrashInv, SetInv, GetInv, ExpireInv, DeleteInv, ReturnInv DEF Command
<1>4. ASSUME NEW w \in RedisWorkers, NEW k \in Slices,
             \/ \E ttl \in RedisTtls : StartCall(w, "claimSet", k, ttl) \/ StartCall(w, "renewGet", k, ttl)
             \/ StartCall(w, "releaseGet", k, 0)
      PROVE  RedisInv'
  BY <1>4, StartInv, RedisAssumption
<1> QED BY <1>1, <1>2, <1>3, <1>4 DEF RedisNext

LEMMA RedisInvariant == RedisSpec => []RedisInv
<1>1. RedisInit => RedisInv
  BY InitRedisInv
<1>2. RedisInv /\ [RedisNext]_redisVars => RedisInv'
  BY NextInv
<1> QED BY <1>1, <1>2, PTL DEF RedisSpec

-----------------------------------------------------------------------------
LEMMA RedisInvSuffices == RedisInv => RedisNoDoubleClaim
<1>1. ASSUME RedisInv, network = "prompt"
      PROVE  \A w \in RedisWorkers, k \in Slices : redisClaims[w][k] > 0 => value[k] = w
  BY <1>1 DEF RedisInv, Prompt, Covered
<1> QED BY <1>1 DEF RedisNoDoubleClaim

\* On a prompt network no two workers hold an unexpired claim on one slice,
\* although every method sends its commands one by one and other workers'
\* commands come in between.
THEOREM RedisExcludes == RedisSpec => []RedisNoDoubleClaim
BY RedisInvSuffices, RedisInvariant, PTL

\* On a prompt network a release deletes no other worker's lease: what the GET
\* said still holds when the DEL arrives.
THEOREM PromptReleaseIsOwn ==
  RedisSpec => [][network = "prompt" =>
                    \A w \in RedisWorkers, k \in Slices :
                      pc[w] = "releaseDel" /\ pc'[w] # "releaseDel" /\ Key(w) = k
                        => value[k] \in {w, NoValue}]_redisVars
<1>1. RedisInv => (network = "prompt" =>
                     \A w \in RedisWorkers, k \in Slices :
                       pc[w] = "releaseDel" /\ pc'[w] # "releaseDel" /\ Key(w) = k
                         => value[k] \in {w, NoValue})
  BY DEF RedisInv, Prompt, Answered
<1> QED BY <1>1, RedisInvariant, PTL

\* Every variable keeps its type, and a time to live belongs to a value.
THEOREM RedisTypes == RedisSpec => []RedisTypeOK
<1>1. RedisInv => RedisTypeOK
  BY DEF RedisInv
<1> QED BY <1>1, RedisInvariant, PTL

-----------------------------------------------------------------------------
(* The portrait server: one dictionary of pipelines, many threads.         *)

Slots == Styles \X (Faces \cup {NoFace})
ThreadRecords ==
  [at : {"idle", "check", "evict", "load", "read"}, style : Styles, face : Faces \cup {NoFace},
   evict : SUBSET Slots]
PortraitTypeOK ==
  /\ thread \in [Threads -> ThreadRecords] /\ status \in [Threads -> Endings]
  /\ alone \in [Threads -> BOOLEAN] /\ overlapped \in BOOLEAN
  /\ Loaded \subseteq Slots

\* A slot's key tells the weights that every request of it needs.
SlotWeights(key) == [base |-> key[1], lora |-> IF key[2] \in Trained THEN key[2] ELSE key[1]]
SlotsInv == \A key \in Loaded : resident[key] = SlotWeights(key)

\* Of a request beside which no other ran, nobody evicts what it is to evict or to read.
AloneInv == \A t \in Threads :
  /\ status[t] = "KeyError" => ~alone[t]
  /\ alone[t] /\ thread[t].at # "idle" =>
       /\ \A u \in Threads : u # t => thread[u].at = "idle"
       /\ thread[t].at = "evict" => thread[t].evict \subseteq Loaded
       /\ thread[t].at = "read" => KeyOf(t) \in Loaded

\* While requests have not overlapped, what a miss leaves is evicted before the load.
OneInv == ~overlapped =>
  /\ \A t, u \in Busy : t = u
  /\ ~PreloadAll =>
       /\ \A j, k \in Loaded : j = k
       /\ \A t \in Threads : /\ thread[t].at = "evict" => Loaded \subseteq thread[t].evict
                             /\ thread[t].at = "load" => Loaded = {}

PortraitInv == PortraitTypeOK /\ SlotsInv /\ AloneInv /\ OneInv

LEMMA SlotsTell ==
  ASSUME NEW style \in Styles, NEW face \in Faces \cup {NoFace}
  PROVE  /\ CacheKey(style, face) \in Slots
         /\ SlotWeights(CacheKey(style, face)) = Weights(style, face)
BY PortraitAssumption DEF CacheKey, Slots, SlotWeights, Weights

LEMMA PortraitInitial == PortraitInit => PortraitInv
<1> SUFFICES ASSUME PortraitInit  PROVE  PortraitInv
  OBVIOUS
<1>1. Idle \in ThreadRecords /\ Idle.at = "idle"
  BY PortraitAssumption DEF Idle, ThreadRecords
<1>2. Loaded = {} /\ thread = [t \in Threads |-> Idle] /\ status = [t \in Threads |-> "runs"]
      /\ alone = [t \in Threads |-> TRUE] /\ overlapped = FALSE
  BY DEF PortraitInit, Loaded
<1>3. PortraitTypeOK
  BY <1>1, <1>2 DEF PortraitTypeOK, Endings
<1>4. SlotsInv /\ AloneInv /\ OneInv
  BY <1>1, <1>2 DEF SlotsInv, AloneInv, OneInv, Busy
<1> QED BY <1>3, <1>4 DEF PortraitInv

\* A step of a thread that is at work: it moves on or ends.
Moves(t, new, result) ==
  /\ new \in ThreadRecords /\ thread' = [thread EXCEPT ![t] = new]
  /\ result \in Endings /\ status' = [status EXCEPT ![t] = result]
MovesWell(t, new, result) ==
  /\ result = "KeyError" => ~alone[t]
  /\ alone[t] => /\ new.at = "evict" => new.evict \subseteq Loaded'
                 /\ new.at = "read" => CacheKey(new.style, new.face) \in Loaded'
  /\ ~overlapped /\ ~PreloadAll =>
       /\ \A j, k \in Loaded' : j = k
       /\ new.at = "evict" => Loaded' \subseteq new.evict
       /\ new.at = "load" => Loaded' = {}
LEMMA ThreadKeeps ==
  ASSUME PortraitInv, NEW t \in Threads, thread[t].at # "idle", Keep,
         NEW new, NEW result, Moves(t, new, result), MovesWell(t, new, result),
         Loaded' \subseteq Slots, SlotsInv'
  PROVE  PortraitInv'
<1> USE DEF Moves, MovesWell
<1>1. PortraitTypeOK /\ AloneInv /\ OneInv /\ UNCHANGED <<alone, overlapped>>
  BY DEF PortraitInv, Keep
<1>2. /\ \A u \in Threads : thread'[u] = IF u = t THEN new ELSE thread[u]
      /\ \A u \in Threads : status'[u] = IF u = t THEN result ELSE status[u]
  BY <1>1 DEF PortraitTypeOK
<1>3. PortraitTypeOK'
  BY <1>1 DEF PortraitTypeOK
<1>4. KeyOf(t)' = CacheKey(new.style, new.face)
  BY <1>2 DEF KeyOf
<1>5. ASSUME NEW u \in Threads
      PROVE  /\ status'[u] = "KeyError" => ~alone'[u]
             /\ alone'[u] /\ thread'[u].at # "idle" =>
                  /\ \A v \in Threads : v # u => thread'[v].at = "idle"
                  /\ thread'[u].at = "evict" => thread'[u].evict \subseteq Loaded'
                  /\ thread'[u].at = "read" => KeyOf(u)' \in Loaded'
  <2>1. CASE u = t
    BY <1>1, <1>2, <1>4, <2>1 DEF AloneInv
  <2>2. CASE u # t
    BY <1>1, <1>2, <2>2 DEF AloneInv
  <2> QED BY <2>1, <2>2
<1>6. AloneInv'
  BY <1>5 DEF AloneInv
<1>7. ASSUME ~overlapped
      PROVE  \A u \in Threads : thread'[u].at # "idle" => u = t
  <2>1. \A u \in Busy : u = t
    BY <1>1, <1>7 DEF OneInv, Busy
  <2> QED BY <1>2, <2>1 DEF Busy
<1>8. OneInv'
  BY <1>1, <1>2, <1>7 DEF OneInv, Busy
<1> QED BY <1>3, <1>6, <1>8 DEF PortraitInv

LEMMA RequestStep ==
  ASSUME PortraitInv, NEW t \in Threads, NEW style \in Wanted, NEW face \in Faces \cup {NoFace},
         NEW authorized \in BOOLEAN, Request(t, style, face, authorized)
  PROVE  PortraitInv'
<1>1. PortraitTypeOK /\ AloneInv /\ OneInv /\ SlotsInv
  BY DEF PortraitInv
<1>2. PICK new : new = IF authorized THEN [at |-> "check", style |-> Routed(style), face |-> face, evict |-> {}]
                       ELSE Idle
  OBVIOUS
<1>3. new \in ThreadRecords /\ new.at \in {"idle", "check"}
  BY <1>2, PortraitAssumption DEF ThreadRecords, Routed, Idle
<1>4. PICK result \in {"runs", "unauthorized"} : result = IF authorized THEN "runs" ELSE "unauthorized"
  OBVIOUS
<1>5. /\ thread[t].at = "idle" /\ resident' = resident /\ overlapped' = (overlapped \/ Busy # {})
      /\ thread' = [thread EXCEPT ![t] = new] /\ status' = [status EXCEPT ![t] = result]
      /\ alone' = [u \in Threads |-> IF u = t THEN Busy = {} ELSE alone[u] /\ u \notin Busy]
  BY <1>2, <1>4 DEF Request, End
<1>6. /\ \A u \in Threads : thread'[u] = IF u = t THEN new ELSE thread[u]
      /\ \A u \in Threads : status'[u] = IF u = t THEN result ELSE status[u]
      /\ Loaded' = Loaded
  BY <1>1, <1>5 DEF PortraitTypeOK, Loaded
<1>7. ASSUME NEW u \in Threads, alone'[u]
      PROVE  (u = t => Busy = {}) /\ (u # t => alone[u] /\ u \notin Busy)
  <2>1. IF u = t THEN Busy = {} ELSE alone[u] /\ u \notin Busy
    <3>1. [v \in Threads |-> IF v = t THEN Busy = {} ELSE alone[v] /\ v \notin Busy][u]
      BY <1>5, <1>7, Zenon
    <3> QED BY <3>1, Zenon
  <2>2. CASE u = t
    BY <1>7, <2>1, <2>2, Zenon
  <2>3. CASE u # t
    BY <1>7, <2>1, <2>3, Zenon
  <2> QED BY <2>2, <2>3
<1>8. PortraitTypeOK'
  <2>1. \A u \in Threads : (IF u = t THEN Busy = {} ELSE alone[u] /\ u \notin Busy) \in BOOLEAN
    BY Zenon
  <2>2. alone' \in [Threads -> BOOLEAN]
    BY <1>5, <2>1, Zenon
  <2>3. overlapped' \in BOOLEAN
    BY <1>5, Zenon
  <2>4. /\ thread' \in [Threads -> ThreadRecords]
        /\ status' \in [Threads -> Endings]
    BY <1>1, <1>3, <1>5 DEF PortraitTypeOK, Endings
  <2> QED BY <1>1, <1>6, <2>2, <2>3, <2>4 DEF PortraitTypeOK
<1>9. SlotsInv'
  BY <1>1, <1>5, <1>6 DEF SlotsInv
<1>10. ASSUME NEW u \in Threads
      PROVE  /\ status'[u] = "KeyError" => ~alone'[u]
             /\ alone'[u] /\ thread'[u].at # "idle" =>
                  /\ \A v \in Threads : v # u => thread'[v].at = "idle"
                  /\ thread'[u].at = "evict" => thread'[u].evict \subseteq Loaded'
                  /\ thread'[u].at = "read" => KeyOf(u)' \in Loaded'
  <2>1. CASE u = t
    BY <1>3, <1>4, <1>6, <1>7, <2>1 DEF Busy
  <2>2. CASE u # t
    BY <1>1, <1>6, <1>7, <2>2 DEF AloneInv, Busy
  <2> QED BY <2>1, <2>2
<1>11. AloneInv'
  BY <1>10 DEF AloneInv
<1>12. OneInv'
  <2> SUFFICES ASSUME ~overlapped'
               PROVE  /\ \A u, v \in Busy' : u = v
                      /\ ~PreloadAll => \A j, k \in Loaded' : j = k
                      /\ \A u \in Threads : thread'[u].at \in {"idle", "check"}
    BY DEF OneInv
  <2>1. ~overlapped /\ \A u \in Threads : thread[u].at = "idle"
    BY <1>5 DEF Busy
  <2>2. \A u \in Threads : u # t => thread'[u].at = "idle"
    BY <1>6, <2>1
  <2>3. thread'[t].at \in {"idle", "check"}
    BY <1>3, <1>6
  <2>4. \A u \in Busy' : u = t
    BY <2>2 DEF Busy
  <2>5. ~PreloadAll => \A j, k \in Loaded' : j = k
    BY <1>1, <1>6, <2>1 DEF OneInv
  <2> QED BY <2>2, <2>3, <2>4, <2>5
<1> QED BY <1>8, <1>9, <1>11, <1>12 DEF PortraitInv

LEMMA CheckStep ==
  ASSUME PortraitInv, NEW t \in Threads, Check(t)
  PROVE  PortraitInv'
<1>1. PortraitTypeOK /\ AloneInv /\ OneInv /\ SlotsInv /\ thread[t] \in ThreadRecords
  BY DEF PortraitInv, PortraitTypeOK
<1>2. thread[t].at = "check" /\ UNCHANGED <<resident, status>> /\ Keep
  BY DEF Check
<1>3. PICK new : new = IF KeyOf(t) \in Loaded THEN [thread[t] EXCEPT !.at = "read"]
                       ELSE [thread[t] EXCEPT !.at = IF PreloadAll THEN "load" ELSE "evict",
                                              !.evict = IF PreloadAll THEN {} ELSE Loaded]
  OBVIOUS
<1>4. thread' = [thread EXCEPT ![t] = new]
  <2>1. CASE KeyOf(t) \in Loaded
    BY <1>1, <1>3, <2>1 DEF Check, Reach, PortraitTypeOK
  <2>2. CASE KeyOf(t) \notin Loaded
    <3>1. PICK at : at = IF PreloadAll THEN "load" ELSE "evict"
      OBVIOUS
    <3>2. PICK evict : evict = IF PreloadAll THEN {} ELSE Loaded
      OBVIOUS
    <3>3. thread' = [thread EXCEPT ![t].at = at, ![t].evict = evict]
      BY <2>2, <3>1, <3>2 DEF Check
    <3>4. new = [thread[t] EXCEPT !.at = at, !.evict = evict]
      BY <1>3, <2>2, <3>1, <3>2
    <3> QED BY <1>1, <3>3, <3>4 DEF PortraitTypeOK
  <2> QED BY <2>1, <2>2
<1>5. /\ new \in ThreadRecords /\ CacheKey(new.style, new.face) = KeyOf(t)
      /\ new.at = "read" => KeyOf(t) \in Loaded
      /\ new.at = "evict" => new.evict = Loaded
      /\ new.at = "load" => PreloadAll
  BY <1>1, <1>3 DEF ThreadRecords, KeyOf, PortraitTypeOK
<1>6. Loaded' = Loaded /\ SlotsInv' /\ Loaded' \subseteq Slots
  BY <1>1, <1>2 DEF Loaded, SlotsInv, PortraitTypeOK
<1>7. PICK result \in Endings : result = status[t]
  BY <1>1 DEF PortraitTypeOK
<1>8. status' = [status EXCEPT ![t] = result]
  BY <1>1, <1>2, <1>7 DEF PortraitTypeOK
<1>9. (result = "KeyError" => ~alone[t]) /\ (~overlapped /\ ~PreloadAll => \A j, k \in Loaded' : j = k)
  BY <1>1, <1>6, <1>7 DEF AloneInv, OneInv
<1>10. Moves(t, new, result)
  BY <1>4, <1>5, <1>8 DEF Moves
<1>11. MovesWell(t, new, result)
  BY <1>5, <1>6, <1>9 DEF MovesWell
<1> QED BY <1>2, <1>6, <1>10, <1>11, ThreadKeeps

LEMMA EvictStep ==
  ASSUME PortraitInv, NEW t \in Threads, Evict(t)
  PROVE  PortraitInv'
<1>1. PortraitTypeOK /\ AloneInv /\ OneInv /\ SlotsInv /\ thread[t] \in ThreadRecords
  BY DEF PortraitInv, PortraitTypeOK
<1>2. thread[t].at = "evict" /\ Keep
  BY DEF Evict
<1>3. PICK was \in Endings : was = status[t]
  BY <1>1 DEF PortraitTypeOK
<1>4. was = "KeyError" => ~alone[t]
  BY <1>1, <1>3 DEF AloneInv
<1>5. /\ alone[t] => thread[t].evict \subseteq Loaded
      /\ ~overlapped /\ ~PreloadAll => (\A j, k \in Loaded : j = k) /\ Loaded \subseteq thread[t].evict
  BY <1>1, <1>2 DEF AloneInv, OneInv
<1>6. CASE thread[t].evict = {} /\ Reach(t, "load") /\ UNCHANGED <<resident, status>>
  <2>1. PICK new : new = [thread[t] EXCEPT !.at = "load"]
    OBVIOUS
  <2>2. new \in ThreadRecords /\ new.at = "load" /\ thread' = [thread EXCEPT ![t] = new]
    BY <1>1, <1>6, <2>1 DEF ThreadRecords, Reach, PortraitTypeOK
  <2>3. Loaded' = Loaded /\ SlotsInv' /\ Loaded' \subseteq Slots /\ status' = [status EXCEPT ![t] = was]
    BY <1>1, <1>3, <1>6 DEF Loaded, SlotsInv, PortraitTypeOK
  <2>4. ~overlapped /\ ~PreloadAll => Loaded' = {}
    BY <1>5, <1>6, <2>3
  <2>5. Moves(t, new, was)
    BY <2>2, <2>3 DEF Moves
  <2>6. MovesWell(t, new, was)
    BY <1>4, <2>2, <2>4 DEF MovesWell
  <2> QED BY <1>2, <2>3, <2>5, <2>6, ThreadKeeps
<1>7. ASSUME NEW old \in thread[t].evict, old \in Loaded, resident' = Without(old),
             thread' = [thread EXCEPT ![t].evict = @ \ {old}], UNCHANGED status
      PROVE  PortraitInv'
  <2>1. PICK new : new = [thread[t] EXCEPT !.evict = @ \ {old}]
    OBVIOUS
  <2>2. /\ new \in ThreadRecords /\ new.at = "evict" /\ new.evict = thread[t].evict \ {old}
        /\ thread' = [thread EXCEPT ![t] = new]
    BY <1>1, <1>2, <1>7, <2>1 DEF ThreadRecords, PortraitTypeOK
  <2>3. /\ Loaded' = Loaded \ {old} /\ \A k \in Loaded' : resident'[k] = resident[k]
        /\ status' = [status EXCEPT ![t] = was]
    BY <1>1, <1>3, <1>7 DEF Loaded, Without, PortraitTypeOK
  <2>4. SlotsInv' /\ Loaded' \subseteq Slots
    BY <1>1, <2>3 DEF SlotsInv, PortraitTypeOK
  <2>5. /\ alone[t] => new.evict \subseteq Loaded'
        /\ ~overlapped /\ ~PreloadAll => (\A j, k \in Loaded' : j = k) /\ Loaded' \subseteq new.evict
    BY <1>5, <2>2, <2>3
  <2>6. Moves(t, new, was)
    BY <2>2, <2>3 DEF Moves
  <2>7. MovesWell(t, new, was)
    BY <1>4, <2>2, <2>5 DEF MovesWell
  <2> QED BY <1>2, <2>4, <2>6, <2>7, ThreadKeeps
<1>8. ASSUME NEW old \in thread[t].evict, old \notin Loaded, End(t, "KeyError"), UNCHANGED resident
      PROVE  PortraitInv'
  <2>1. Idle \in ThreadRecords /\ Idle.at = "idle"
    BY PortraitAssumption DEF Idle, ThreadRecords
  <2>2. thread' = [thread EXCEPT ![t] = Idle] /\ status' = [status EXCEPT ![t] = "KeyError"]
    BY <1>8 DEF End
  <2>3. Loaded' = Loaded /\ SlotsInv' /\ Loaded' \subseteq Slots
    BY <1>1, <1>8 DEF Loaded, SlotsInv, PortraitTypeOK
  <2>4. ~alone[t]
    BY <1>5, <1>8
  <2>5. ~overlapped /\ ~PreloadAll => \A j, k \in Loaded' : j = k
    BY <1>5, <2>3
  <2>6. Moves(t, Idle, "KeyError")
    BY <2>1, <2>2 DEF Moves, Endings
  <2>7. MovesWell(t, Idle, "KeyError")
    BY <2>1, <2>4, <2>5 DEF MovesWell
  <2> QED BY <1>2, <2>3, <2>6, <2>7, ThreadKeeps
<1> QED BY <1>6, <1>7, <1>8 DEF Evict

LEMMA LoadStep ==
  ASSUME PortraitInv, NEW t \in Threads, Load(t)
  PROVE  PortraitInv'
<1>1. PortraitTypeOK /\ AloneInv /\ OneInv /\ SlotsInv /\ thread[t] \in ThreadRecords
  BY DEF PortraitInv, PortraitTypeOK
<1>2. thread[t].at = "load" /\ Keep
  BY DEF Load
<1>3. ~overlapped /\ ~PreloadAll => Loaded = {}
  BY <1>1, <1>2 DEF OneInv
<1>4. ASSUME NEW how \in {"unavailable", "library raised"}, End(t, how), UNCHANGED resident
      PROVE  PortraitInv'
  <2>1. Idle \in ThreadRecords /\ Idle.at = "idle"
    BY PortraitAssumption DEF Idle, ThreadRecords
  <2>2. thread' = [thread EXCEPT ![t] = Idle] /\ status' = [status EXCEPT ![t] = how]
    BY <1>4 DEF End
  <2>3. Loaded' = Loaded /\ SlotsInv' /\ Loaded' \subseteq Slots
    BY <1>1, <1>4 DEF Loaded, SlotsInv, PortraitTypeOK
  <2>4. Moves(t, Idle, how)
    BY <2>1, <2>2 DEF Moves, Endings
  <2>5. MovesWell(t, Idle, how)
    BY <1>3, <2>1, <2>3 DEF MovesWell
  <2> QED BY <1>2, <2>3, <2>4, <2>5, ThreadKeeps
<1>5. CASE /\ resident' = With(KeyOf(t), Weights(thread[t].style, thread[t].face))
           /\ Reach(t, "read") /\ UNCHANGED status
  <2>1. PICK new : new = [thread[t] EXCEPT !.at = "read"]
    OBVIOUS
  <2>2. /\ new \in ThreadRecords /\ new.at = "read" /\ CacheKey(new.style, new.face) = KeyOf(t)
        /\ thread' = [thread EXCEPT ![t] = new]
    BY <1>1, <1>5, <2>1 DEF ThreadRecords, Reach, PortraitTypeOK, KeyOf
  <2>3. PICK key : key = KeyOf(t)
    OBVIOUS
  <2>4. /\ Loaded' = Loaded \cup {key}
        /\ \A k \in Loaded' : resident'[k] = IF k = key THEN Weights(thread[t].style, thread[t].face) ELSE resident[k]
    BY <1>5, <2>3 DEF Loaded, With
  <2>5. key \in Slots /\ SlotWeights(key) = Weights(thread[t].style, thread[t].face)
    <3>1. thread[t].style \in Styles /\ thread[t].face \in Faces \cup {NoFace}
      BY <1>1 DEF ThreadRecords
    <3> QED BY <2>3, <3>1, SlotsTell DEF KeyOf
  <2>6. SlotsInv' /\ Loaded' \subseteq Slots
    BY <1>1, <2>4, <2>5 DEF SlotsInv, PortraitTypeOK
  <2>7. PICK was \in Endings : was = status[t] /\ (was = "KeyError" => ~alone[t])
    BY <1>1 DEF PortraitTypeOK, AloneInv
  <2>8. status' = [status EXCEPT ![t] = was]
    BY <1>1, <1>5, <2>7 DEF PortraitTypeOK
  <2>9. ~overlapped /\ ~PreloadAll => \A j, k \in Loaded' : j = k
    BY <1>3, <2>4
  <2>10. Moves(t, new, was)
    BY <2>2, <2>8 DEF Moves
  <2>11. MovesWell(t, new, was)
    BY <2>2, <2>3, <2>4, <2>7, <2>9 DEF MovesWell
  <2> QED BY <1>2, <2>6, <2>10, <2>11, ThreadKeeps
<1> QED BY <1>4, <1>5 DEF Load

LEMMA ReadStep ==
  ASSUME PortraitInv, NEW t \in Threads, Read(t)
  PROVE  PortraitInv'
<1>1. PortraitTypeOK /\ AloneInv /\ OneInv /\ SlotsInv
  BY DEF PortraitInv
<1>2. thread[t].at = "read" /\ Keep /\ UNCHANGED resident
  BY DEF Read
<1>3. Idle \in ThreadRecords /\ Idle.at = "idle"
  BY PortraitAssumption DEF Idle, ThreadRecords
<1>4. PICK how \in {"drawn", "library raised"} : End(t, IF KeyOf(t) \in Loaded THEN how ELSE "KeyError")
  BY DEF Read
<1>5. PICK result \in Endings \ {"runs"} : /\ result = IF KeyOf(t) \in Loaded THEN how ELSE "KeyError"
                                         /\ thread' = [thread EXCEPT ![t] = Idle]
                                         /\ status' = [status EXCEPT ![t] = result]
  BY <1>4 DEF End, Endings
<1>6. Loaded' = Loaded /\ SlotsInv' /\ Loaded' \subseteq Slots
  BY <1>1, <1>2 DEF Loaded, SlotsInv, PortraitTypeOK
<1>7. /\ result = "KeyError" => ~alone[t]
      /\ ~overlapped /\ ~PreloadAll => \A j, k \in Loaded' : j = k
  BY <1>1, <1>2, <1>4, <1>5, <1>6 DEF AloneInv, OneInv
<1>8. Moves(t, Idle, result)
  BY <1>3, <1>5 DEF Moves
<1>9. MovesWell(t, Idle, result)
  BY <1>3, <1>7 DEF MovesWell
<1> QED BY <1>2, <1>6, <1>8, <1>9, ThreadKeeps

LEMMA PortraitStep == PortraitInv /\ [PortraitNext]_portraitVars => PortraitInv'
<1> SUFFICES ASSUME PortraitInv, [PortraitNext]_portraitVars  PROVE  PortraitInv'
  OBVIOUS
<1>1. CASE UNCHANGED portraitVars
  BY <1>1 DEF portraitVars, PortraitInv, PortraitTypeOK, SlotsInv, AloneInv, OneInv, Loaded, Busy, KeyOf
<1> QED BY <1>1, RequestStep, CheckStep, EvictStep, LoadStep, ReadStep DEF PortraitNext

LEMMA PortraitInvSuffices == PortraitInv => LikenessIsOwn
<1> SUFFICES ASSUME PortraitInv  PROVE  LikenessIsOwn
  OBVIOUS
<1>1. PortraitTypeOK /\ AloneInv /\ OneInv /\ SlotsInv
  BY DEF PortraitInv
<1>2. ASSUME NEW t \in Threads, KeyOf(t) \in Loaded
      PROVE  resident[KeyOf(t)] = Weights(thread[t].style, thread[t].face)
  <2>1. thread[t].style \in Styles /\ thread[t].face \in Faces \cup {NoFace}
    BY <1>1 DEF PortraitTypeOK, ThreadRecords
  <2> QED BY <1>1, <1>2, <2>1, SlotsTell DEF SlotsInv, KeyOf
<1>3. ASSUME ~overlapped, ~PreloadAll  PROVE  Cardinality(Loaded) <= 1
  <2>1. \A j, k \in Loaded : j = k
    BY <1>1, <1>3 DEF OneInv
  <2>2. CASE Loaded = {}
    BY <2>2, FS_EmptySet
  <2>3. CASE Loaded # {}
    <3>1. PICK k : Loaded = {k}
      BY <2>1, <2>3
    <3> QED BY <3>1, FS_Singleton
  <2> QED BY <2>2, <2>3
<1> QED BY <1>1, <1>2, <1>3 DEF LikenessIsOwn, AloneInv

\* Whatever threads evict and load around it, a picture is drawn with the weights of
\* its own style and persona; a request beside which no other ran fails on what the
\* library raises and never on the dictionary; and while requests have not overlapped
\* one pipeline is resident (colab/07_portrait_server.py: get_pipeline).
THEOREM LikenessKept == PortraitInit /\ [][PortraitNext]_portraitVars => []LikenessIsOwn
<1>1. PortraitInit /\ [][PortraitNext]_portraitVars => []PortraitInv
  BY PortraitInitial, PortraitStep, PTL
<1> QED BY <1>1, PortraitInvSuffices, PTL

-----------------------------------------------------------------------------
(* The task queue over kafkajs: what it may not forget.                    *)

Sent(m) == sends[m] > 0 \/ m \in lost
Untaken(m, gone) == \E i \in DOMAIN topic \ gone : topic[i] = m

\* For each message and each group, what NothingForgotten says of it; and what a
\* group took is in the topic.
Accounted(m) == Sent(m) \/ Untaken(m, {})
ComesAgain(g, m) == Sent(m) \/ Untaken(m, past[g])
Counted(g) ==
  /\ committed[g] <= position[g] /\ position[g] <= Len(topic)
  /\ (since[g] + 1)..position[g] \subseteq past[g] /\ past[g] \subseteq DOMAIN topic
Begun(g) == since[g] # 0 => \E c \in Consumers : consumer[c].group = g /\ c \notin Replaying

Numbers ==
  /\ topic \in Seq(Messages) /\ Len(topic) \in Nat /\ DOMAIN topic = 1..Len(topic)
  /\ sends \in [Messages -> Nat] /\ published \subseteq Messages /\ lost \subseteq Messages
  /\ position \in [Groups -> Nat] /\ since \in [Groups -> Nat] /\ committed \in [Groups -> Int]
  /\ \A g \in Groups : committed[g] # NoOffset => committed[g] \in Nat
  /\ past \in [Groups -> SUBSET Nat] /\ returned \in [Groups -> SUBSET Messages]

\* The adapter knows a group by a consumer of that group.
ConsumerRecords ==
  [group : Groups \cup {""}, connected : BOOLEAN, closed : BOOLEAN, inFlight : SUBSET Messages]
Subscriptions ==
  /\ consumer \in [Consumers -> ConsumerRecords]
  /\ entry \in [Groups -> Consumers \cup {NoConsumer}]
  /\ \A g \in Groups : Begun(g)
  /\ \A g \in Groups : entry[g] # NoConsumer => consumer[entry[g]].group = g
Forgets ==
  /\ \A m \in published : Accounted(m)
  /\ \A g \in Groups : Counted(g)
  /\ \A g \in Groups : \A m \in returned[g] : ComesAgain(g, m)

KafkaInv == Numbers /\ Subscriptions /\ Forgets

LEMMA ForgetsIs == KafkaInv => NothingForgotten
BY DEF KafkaInv, Subscriptions, Forgets, NothingForgotten, Accounted, ComesAgain, Counted, Begun, Sent, Untaken

LEMMA KafkaInitial == KafkaInit => KafkaInv
<1> SUFFICES ASSUME KafkaInit  PROVE Numbers /\ Subscriptions /\ Forgets
  BY DEF KafkaInv
<1>1. Numbers
  BY DEF KafkaInit, Numbers, NoOffset
<1>2. Subscriptions
  BY DEF KafkaInit, Subscriptions, Unused, ConsumerRecords, Begun
<1>3. Forgets
  <2>1. /\ Len(topic) = 0 /\ published = {}
        /\ \A g \in Groups : /\ returned[g] = {} /\ past[g] = {} /\ since[g] = 0 /\ position[g] = 0
                            /\ committed[g] = -1
    BY DEF KafkaInit, NoOffset
  <2> QED BY <2>1 DEF Forgets, Counted
<1> QED BY <1>1, <1>2, <1>3

\* What was sent is still sent or has landed, whatever becomes of one send.
StillSent ==
  \A n \in Messages, gone \in SUBSET DOMAIN topic :
    Sent(n) \/ Untaken(n, gone) => Sent(n)' \/ Untaken(n, gone)'

LEMMA SendAdded ==
  ASSUME Numbers, NEW m \in Messages,
         sends' = [sends EXCEPT ![m] = @ + 1], UNCHANGED <<topic, lost>>
  PROVE  sends' \in [Messages -> Nat] /\ Sent(m)' /\ StillSent
<1>1. sends' \in [Messages -> Nat] /\ sends'[m] > 0 /\ \A n \in Messages : sends[n] > 0 => sends'[n] > 0
  BY DEF Numbers
<1>2. Sent(m)'
  BY <1>1 DEF Sent
<1>3. \A n \in Messages : Sent(n) => Sent(n)'
  BY <1>1 DEF Sent
<1>4. \A n, gone : Untaken(n, gone)' <=> Untaken(n, gone)
  BY DEF Untaken
<1> QED BY <1>1, <1>2, <1>3, <1>4 DEF StillSent

LEMMA SendFailed ==
  ASSUME Numbers, NEW m \in Messages, sends[m] > 0,
         sends' = [sends EXCEPT ![m] = @ - 1], lost' = lost \cup {m}, UNCHANGED topic
  PROVE  sends' \in [Messages -> Nat] /\ lost' \subseteq Messages /\ StillSent
<1>1. sends' \in [Messages -> Nat] /\ \A n \in Messages : n # m => sends'[n] = sends[n]
  BY DEF Numbers
<1>2. lost' \subseteq Messages
  BY DEF Numbers
<1>3. \A n \in Messages : Sent(n) => Sent(n)'
  BY <1>1 DEF Sent
<1>4. \A n, gone : Untaken(n, gone)' <=> Untaken(n, gone)
  BY DEF Untaken
<1> QED BY <1>1, <1>2, <1>3, <1>4 DEF StillSent

LEMMA SendLands ==
  ASSUME Numbers, NEW m \in Messages, sends[m] > 0,
         sends' = [sends EXCEPT ![m] = @ - 1], topic' = Append(topic, m), UNCHANGED lost
  PROVE  /\ sends' \in [Messages -> Nat] /\ topic' \in Seq(Messages)
         /\ Len(topic') = Len(topic) + 1 /\ DOMAIN topic' = 1..Len(topic')
         /\ \A i \in DOMAIN topic : topic'[i] = topic[i]
         /\ StillSent
<1>1. sends' \in [Messages -> Nat] /\ \A n \in Messages : n # m => sends'[n] = sends[n]
  BY DEF Numbers
<1>2. topic \in Seq(Messages) /\ Len(topic) \in Nat /\ DOMAIN topic = 1..Len(topic)
  BY DEF Numbers
<1>3. /\ topic' \in Seq(Messages) /\ Len(topic') = Len(topic) + 1
      /\ \A i \in 1..Len(topic) : topic'[i] = topic[i]
      /\ topic'[Len(topic) + 1] = m
  BY <1>2, AppendProperties
<1>4. DOMAIN topic' = 1..Len(topic')
  BY <1>3
<1>5. ASSUME NEW n \in Messages, NEW gone \in SUBSET DOMAIN topic, Sent(n) \/ Untaken(n, gone)
      PROVE  Sent(n)' \/ Untaken(n, gone)'
  <2>1. CASE n = m
    <3>1. Len(topic) + 1 \in DOMAIN topic' \ gone
      BY <1>2, <1>3, <1>4
    <3> QED BY <3>1, <2>1, <1>3 DEF Untaken
  <2>2. CASE n # m /\ Sent(n)
    BY <1>1, <2>2 DEF Sent
  <2>3. CASE Untaken(n, gone)
    <3>1. PICK i \in DOMAIN topic \ gone : topic[i] = n
      BY <2>3 DEF Untaken
    <3>2. i \in DOMAIN topic' \ gone /\ topic'[i] = n
      BY <3>1, <1>2, <1>3, <1>4
    <3> QED BY <3>2 DEF Untaken
  <2> QED BY <1>5, <2>1, <2>2, <2>3
<1> QED BY <1>1, <1>2, <1>3, <1>4, <1>5 DEF StillSent

\* A step that hands nothing over and nothing back leaves nothing forgotten.
LEMMA ForgetsKept ==
  ASSUME KafkaInv, StillSent, past' = past,
         \A m \in published' : m \in published \/ Sent(m)',
         \A g \in Groups : \A m \in returned'[g] : m \in returned[g] \/ Sent(m)',
         \A g \in Groups : Counted(g)'
  PROVE  Forgets'
<1>1. Numbers /\ Forgets
  BY DEF KafkaInv
<1>2. ASSUME NEW m \in published'  PROVE Accounted(m)'
  <2>1. CASE Sent(m)'
    BY <2>1 DEF Accounted
  <2>2. CASE m \in published
    <3>1. m \in Messages /\ {} \in SUBSET DOMAIN topic
      BY <1>1, <2>2 DEF Numbers
    <3>2. Sent(m) \/ Untaken(m, {})
      BY <1>1, <2>2 DEF Forgets, Accounted
    <3>3. Sent(m)' \/ Untaken(m, {})'
      BY <3>1, <3>2 DEF StillSent
    <3> QED BY <3>3 DEF Accounted
  <2> QED BY <1>2, <2>1, <2>2
<1>3. ASSUME NEW g \in Groups, NEW m \in returned'[g]  PROVE ComesAgain(g, m)'
  <2>1. CASE Sent(m)'
    BY <2>1 DEF ComesAgain
  <2>2. CASE m \in returned[g]
    <3>1. m \in Messages
      BY <1>1, <2>2 DEF Numbers
    <3>2. past[g] \in SUBSET DOMAIN topic /\ (Sent(m) \/ Untaken(m, past[g]))
      BY <1>1, <2>2 DEF Forgets, ComesAgain, Counted
    <3>3. PICK gone \in SUBSET DOMAIN topic : gone = past[g]
      BY <3>2
    <3>4. Sent(m)' \/ Untaken(m, gone)'
      BY <3>1, <3>2, <3>3 DEF StillSent
    <3> QED BY <3>3, <3>4 DEF ComesAgain, Untaken
  <2> QED BY <1>3, <2>1, <2>2
<1> QED BY <1>2, <1>3 DEF Forgets

\* While the topic only grows, a group that does not move is where it was.
LEMMA CountedKept ==
  ASSUME KafkaInv, Numbers', Len(topic) <= Len(topic'), UNCHANGED <<position, committed, since, past>>
  PROVE  \A g \in Groups : Counted(g)'
<1>1. /\ Len(topic) \in Nat /\ Len(topic') \in Nat /\ position \in [Groups -> Nat]
      /\ DOMAIN topic = 1..Len(topic) /\ DOMAIN topic' = 1..Len(topic')
  BY DEF KafkaInv, Numbers
<1> SUFFICES ASSUME NEW g \in Groups PROVE Counted(g)'
  OBVIOUS
<1>2. Counted(g)
  BY DEF KafkaInv, Forgets
<1>3. DOMAIN topic \subseteq DOMAIN topic'
  BY <1>1
<1>4. position[g] <= Len(topic')
  BY <1>1, <1>2 DEF Counted
<1> QED BY <1>2, <1>3, <1>4 DEF Counted

LEMMA SentStays == UNCHANGED <<sends, lost, topic>> => StillSent
BY DEF StillSent, Sent, Untaken

\* The next message of the topic is handed over and counts as handled.
LEMMA HandedOver ==
  ASSUME KafkaInv, NEW g \in Groups, position[g] < Len(topic),
         position' = [position EXCEPT ![g] = @ + 1], Taken(g),
         UNCHANGED <<topic, sends, lost, published, committed, since>>
  PROVE  Numbers' /\ Forgets' /\ \A h \in Groups : returned'[h] \subseteq returned[h]
<1>1. /\ Numbers /\ Forgets /\ topic \in Seq(Messages) /\ Len(topic) \in Nat
      /\ position \in [Groups -> Nat] /\ past \in [Groups -> SUBSET Nat]
      /\ returned \in [Groups -> SUBSET Messages]
  BY DEF KafkaInv, Numbers
<1>2. PICK up \in Nat : up = position[g] + 1 /\ up \in 1..Len(topic)
  BY <1>1
<1>3. /\ past' = [past EXCEPT ![g] = @ \cup {up}]
      /\ returned' = [returned EXCEPT ![g] = @ \ {topic[up]}]
      /\ position' = [position EXCEPT ![g] = up]
  BY <1>2 DEF Taken, Upcoming
<1>4. Numbers'
  BY <1>1, <1>3 DEF Numbers
<1>5. \A h \in Groups : /\ h # g => /\ past'[h] = past[h] /\ returned'[h] = returned[h]
                                    /\ position'[h] = position[h]
                        /\ h = g => /\ past'[h] = past[h] \cup {up} /\ position'[h] = up
                                    /\ returned'[h] = returned[h] \ {topic[up]}
  BY <1>1, <1>3
<1>6. ASSUME NEW m \in published'  PROVE Accounted(m)'
  BY <1>1 DEF Forgets, Accounted, Sent, Untaken
<1>7. ASSUME NEW h \in Groups  PROVE Counted(h)'
  <2>1. CASE h # g
    BY <2>1, <1>1, <1>5 DEF Forgets, Counted
  <2>2. CASE h = g
    <3>1. /\ committed[g] <= position[g] /\ (since[g] + 1)..position[g] \subseteq past[g]
          /\ past[g] \subseteq DOMAIN topic
      BY <1>1 DEF Forgets, Counted
    <3>2. committed[g] \in Int /\ position[g] \in Nat /\ since[g] \in Nat
      BY <1>1 DEF Numbers, NoOffset
    <3>3. \A i \in (since[g] + 1)..up : i \in (since[g] + 1)..position[g] \/ i = up
      BY <1>2, <3>2
    <3>4. committed[g] <= up /\ up <= Len(topic)
      BY <1>2, <3>1, <3>2
    <3>5. up \in DOMAIN topic
      BY <1>1, <1>2 DEF Numbers
    <3> QED BY <2>2, <3>1, <3>3, <3>4, <3>5, <1>5 DEF Counted
  <2> QED BY <2>1, <2>2
<1>8. ASSUME NEW h \in Groups, NEW m \in returned'[h]  PROVE ComesAgain(h, m)'
  <2>1. m \in returned[h] /\ (h = g => m # topic[up])
    BY <1>5, <1>8
  <2>2. ComesAgain(h, m)
    BY <1>1, <2>1 DEF Forgets
  <2>3. CASE h # g
    BY <2>2, <2>3, <1>5 DEF ComesAgain, Sent, Untaken
  <2>4. CASE h = g
    <3>1. ASSUME NEW i \in DOMAIN topic \ past[g], topic[i] = m  PROVE i \in DOMAIN topic \ past'[g]
      BY <2>1, <2>4, <3>1, <1>5
    <3> QED BY <2>2, <2>4, <3>1 DEF ComesAgain, Sent, Untaken
  <2> QED BY <2>3, <2>4
<1> QED BY <1>4, <1>5, <1>6, <1>7, <1>8 DEF Forgets

\* A group goes on from what it committed, or begins anew, and the consumer that
\* decides where is one of the group.
LEMMA Resumed ==
  ASSUME KafkaInv, NEW c \in Consumers, NEW g \in Groups, Resume(c, g), consumer'[c].group = g,
         \A d \in Consumers : consumer[d].group \in Groups => consumer'[d].group = consumer[d].group,
         UNCHANGED <<topic, sends, lost, published, committed, past, returned>>
  PROVE  Numbers' /\ Forgets' /\ \A h \in Groups : Begun(h)'
<1>1. /\ Numbers /\ position \in [Groups -> Nat] /\ since \in [Groups -> Nat] /\ Len(topic) \in Nat
      /\ committed \in [Groups -> Int] /\ \A h \in Groups : committed[h] # NoOffset => committed[h] \in Nat
      /\ \A h \in Groups : Counted(h) /\ Begun(h)
  BY DEF KafkaInv, Numbers, Subscriptions, Forgets
<1>2. PICK start : start = IF c \in Replaying THEN 0 ELSE Len(topic)
  OBVIOUS
<1>3. start \in Nat /\ start <= Len(topic) /\ (start # 0 => c \notin Replaying)
  BY <1>1, <1>2
<1>4. \/ /\ committed[g] # NoOffset /\ position' = [position EXCEPT ![g] = committed[g]] /\ since' = since
      \/ /\ committed[g] = NoOffset
         /\ position' = [position EXCEPT ![g] = start] /\ since' = [since EXCEPT ![g] = start]
  BY <1>2 DEF Resume
<1>5. Numbers'
  <2>1. CASE committed[g] # NoOffset
    <3>1. committed[g] \in Nat
      BY <1>1, <2>1
    <3> QED BY <1>1, <1>4, <2>1, <3>1 DEF Numbers
  <2>2. CASE committed[g] = NoOffset
    <3>1. position' = [position EXCEPT ![g] = start] /\ since' = [since EXCEPT ![g] = start]
      BY <1>4, <2>2
    <3>2. position' \in [Groups -> Nat] /\ since' \in [Groups -> Nat]
      BY <1>1, <1>3, <3>1
    <3> QED BY <1>1, <3>2 DEF Numbers
  <2> QED BY <2>1, <2>2
<1>6. ASSUME NEW h \in Groups, h # g
      PROVE  position'[h] = position[h] /\ since'[h] = since[h]
  BY <1>1, <1>4, <1>6
<1>7. \/ committed[g] # NoOffset /\ position'[g] = committed[g] /\ since'[g] = since[g]
      \/ committed[g] = NoOffset /\ position'[g] = start /\ since'[g] = start
  BY <1>1, <1>4
<1>8. \A h \in Groups : Counted(h)'
  <2>1. ASSUME NEW h \in Groups, h # g  PROVE Counted(h)'
    BY <1>1, <1>6, <2>1 DEF Counted
  <2>2. Counted(g)'
    <3>1. /\ committed[g] <= position[g] /\ position[g] <= Len(topic) /\ past[g] \subseteq DOMAIN topic
          /\ (since[g] + 1)..position[g] \subseteq past[g]
      BY <1>1 DEF Counted
    <3>2. CASE committed[g] # NoOffset
      <4>1. committed[g] \in Nat /\ position[g] \in Nat /\ since[g] \in Nat
        BY <1>1, <3>2
      <4>2. (since[g] + 1)..committed[g] \subseteq (since[g] + 1)..position[g]
        BY <3>1, <4>1
      <4>3. committed[g] <= committed[g] /\ committed[g] <= Len(topic)
        BY <3>1, <4>1, <1>1
      <4>4. (since[g] + 1)..committed[g] \subseteq past[g] /\ position'[g] = committed[g] /\ since'[g] = since[g]
        BY <1>7, <3>1, <3>2, <4>2
      <4> QED BY <3>1, <4>3, <4>4 DEF Counted
    <3>3. CASE committed[g] = NoOffset
      <4>1. committed[g] <= start /\ (start + 1)..start = {}
        BY <1>3, <3>3 DEF NoOffset
      <4>2. position'[g] = start /\ since'[g] = start
        BY <1>7, <3>3
      <4> QED BY <1>3, <3>1, <4>1, <4>2 DEF Counted
    <3> QED BY <3>2, <3>3
  <2> QED BY <2>1, <2>2
<1>9. ASSUME NEW h \in Groups  PROVE Begun(h)'
  <2>1. \A d \in Consumers : consumer[d].group = h => consumer'[d].group = h
    OBVIOUS
  <2>2. CASE since'[h] = since[h]
    BY <1>1, <2>1, <2>2 DEF Begun
  <2>3. CASE h = g /\ since'[h] = start
    BY <1>3, <2>3 DEF Begun
  <2> QED BY <1>6, <1>7, <2>2, <2>3
<1>10. Forgets'
  <2>1. StillSent
    BY SentStays
  <2> QED BY <1>8, <2>1, ForgetsKept
<1> QED BY <1>5, <1>9, <1>10

\* A step that subscribes nobody.
LEMMA NobodyNew ==
  ASSUME KafkaInv, consumer' \in [Consumers -> ConsumerRecords],
         \A c \in Consumers : consumer'[c].group = consumer[c].group,
         entry' \in [Groups -> Consumers \cup {NoConsumer}],
         \A g \in Groups : entry'[g] \in {entry[g], NoConsumer},
         since' = since
  PROVE  Subscriptions'
<1>1. Subscriptions
  BY DEF KafkaInv
<1>2. \A g \in Groups : Begun(g)'
  BY <1>1 DEF Subscriptions, Begun
<1>3. ASSUME NEW g \in Groups, entry'[g] # NoConsumer  PROVE consumer'[entry'[g]].group = g
  <2>1. entry'[g] = entry[g] /\ entry[g] \in Consumers
    BY <1>3
  <2> QED BY <2>1, <1>1, <1>3 DEF Subscriptions
<1> QED BY <1>2, <1>3 DEF Subscriptions

LEMMA SubscriptionsStay == KafkaInv /\ UNCHANGED <<consumer, entry, since>> => Subscriptions'
<1> SUFFICES ASSUME KafkaInv, UNCHANGED <<consumer, entry, since>>
             PROVE  Subscriptions'
  OBVIOUS
<1> QED BY NobodyNew DEF KafkaInv, Subscriptions

LEMMA ConsumerIs ==
  ASSUME KafkaInv, NEW c \in Consumers
  PROVE  /\ consumer \in [Consumers -> ConsumerRecords]
         /\ consumer[c] \in ConsumerRecords /\ consumer[c].inFlight \subseteq Messages
         /\ consumer[c] = [group |-> consumer[c].group, connected |-> consumer[c].connected,
                           closed |-> consumer[c].closed, inFlight |-> consumer[c].inFlight]
         /\ consumer[c].group \in Groups \cup {""}
         /\ consumer[c].connected \in BOOLEAN /\ consumer[c].closed \in BOOLEAN
<1>1. consumer \in [Consumers -> ConsumerRecords]
  BY DEF KafkaInv, Subscriptions
<1>2. consumer[c] \in ConsumerRecords
  BY <1>1
<1> QED BY <1>1, <1>2 DEF ConsumerRecords

LEMMA RecordChanged ==
  ASSUME NEW r \in ConsumerRecords, NEW held \in SUBSET Messages
  PROVE  /\ [r EXCEPT !.inFlight = held] \in ConsumerRecords
         /\ [r EXCEPT !.inFlight = held].group = r.group
         /\ [r EXCEPT !.closed = TRUE] \in ConsumerRecords
         /\ [r EXCEPT !.closed = TRUE].group = r.group
         /\ [r EXCEPT !.connected = FALSE] \in ConsumerRecords
         /\ [r EXCEPT !.connected = FALSE].group = r.group
BY DEF ConsumerRecords

LEMMA InFlightChanged ==
  ASSUME KafkaInv, NEW c \in Consumers, NEW held \in SUBSET Messages,
         consumer' = [consumer EXCEPT ![c].inFlight = held]
  PROVE  /\ consumer' \in [Consumers -> ConsumerRecords]
         /\ \A d \in Consumers : consumer'[d].group = consumer[d].group
<1>2. [consumer[c] EXCEPT !.inFlight = held] \in ConsumerRecords
      /\ [consumer[c] EXCEPT !.inFlight = held].group = consumer[c].group
  BY ConsumerIs, RecordChanged
<1>3. consumer' = [consumer EXCEPT ![c] = [consumer[c] EXCEPT !.inFlight = held]]
  OBVIOUS
<1> QED BY <1>2, <1>3, ConsumerIs

LEMMA StateChanged ==
  ASSUME KafkaInv, NEW c \in Consumers,
         consumer' = [consumer EXCEPT ![c].closed = TRUE] \/ consumer' = [consumer EXCEPT ![c].connected = FALSE]
  PROVE  /\ consumer' \in [Consumers -> ConsumerRecords]
         /\ \A d \in Consumers : consumer'[d].group = consumer[d].group
<1>2. /\ [consumer[c] EXCEPT !.closed = TRUE] \in ConsumerRecords
      /\ [consumer[c] EXCEPT !.connected = FALSE] \in ConsumerRecords
      /\ [consumer[c] EXCEPT !.closed = TRUE].group = consumer[c].group
      /\ [consumer[c] EXCEPT !.connected = FALSE].group = consumer[c].group
  BY ConsumerIs, RecordChanged
<1>3. CASE consumer' = [consumer EXCEPT ![c].closed = TRUE]
  <2>1. consumer' = [consumer EXCEPT ![c] = [consumer[c] EXCEPT !.closed = TRUE]]
    BY <1>3
  <2> QED BY <2>1, <1>2, ConsumerIs
<1>4. CASE consumer' = [consumer EXCEPT ![c].connected = FALSE]
  <2>1. consumer' = [consumer EXCEPT ![c] = [consumer[c] EXCEPT !.connected = FALSE]]
    BY <1>4
  <2> QED BY <2>1, <1>2, ConsumerIs
<1> QED BY <1>3, <1>4

LEMMA SendStep ==
  ASSUME KafkaInv, NEW m \in Messages, Publish(m) \/ Land(m) \/ SendFails(m)
  PROVE  KafkaInv'
<1>1. /\ UNCHANGED <<consumer, entry, position, committed, since, past, returned>>
  BY DEF Publish, Land, SendFails, broker, record
<1>2. Numbers
  BY DEF KafkaInv
<1>3. /\ Numbers' /\ StillSent /\ Len(topic) <= Len(topic')
      /\ \A n \in published' : n \in published \/ Sent(n)'
  <2>1. CASE Publish(m)
    <3>1. sends' = [sends EXCEPT ![m] = @ + 1] /\ UNCHANGED <<topic, lost>> /\ published' = published \cup {m}
      BY <2>1 DEF Publish, broker
    <3>2. sends' \in [Messages -> Nat] /\ Sent(m)' /\ StillSent
      BY <1>2, <3>1, SendAdded
    <3> QED BY <3>1, <3>2, <1>1, <1>2 DEF Numbers
  <2>2. CASE Land(m)
    <3>1. /\ sends[m] > 0 /\ sends' = [sends EXCEPT ![m] = @ - 1] /\ topic' = Append(topic, m)
          /\ UNCHANGED <<lost, published>>
      BY <2>2 DEF Land
    <3>2. /\ sends' \in [Messages -> Nat] /\ topic' \in Seq(Messages)
          /\ Len(topic') = Len(topic) + 1 /\ DOMAIN topic' = 1..Len(topic') /\ StillSent
      BY <1>2, <3>1, SendLands
    <3> QED BY <3>1, <3>2, <1>1, <1>2 DEF Numbers
  <2>3. CASE SendFails(m)
    <3>1. /\ sends[m] > 0 /\ sends' = [sends EXCEPT ![m] = @ - 1] /\ lost' = lost \cup {m}
          /\ UNCHANGED <<topic, published>>
      BY <2>3 DEF SendFails, broker
    <3>2. sends' \in [Messages -> Nat] /\ lost' \subseteq Messages /\ StillSent
      BY <1>2, <3>1, SendFailed
    <3> QED BY <3>1, <3>2, <1>1, <1>2 DEF Numbers
  <2> QED BY <2>1, <2>2, <2>3
<1>4. Forgets'
  BY <1>1, <1>3, CountedKept, ForgetsKept
<1>5. Subscriptions'
  BY <1>1, SubscriptionsStay
<1> QED BY <1>3, <1>4, <1>5 DEF KafkaInv

\* What holds whenever neither the topic nor the sends change and no group moves.
LEMMA QuietKeeps ==
  ASSUME KafkaInv, UNCHANGED <<broker, sends, published, lost, record>>
  PROVE  Numbers' /\ Forgets'
BY DEF KafkaInv, Numbers, Forgets, Accounted, Counted, ComesAgain, Sent, Untaken, broker, record

LEMMA SubscribeStep ==
  ASSUME KafkaInv, NEW c \in Consumers, NEW g \in Groups, Subscribe(c, g)
  PROVE  KafkaInv'
<1> DEFINE new == [group |-> g, connected |-> TRUE, closed |-> FALSE, inFlight |-> {}]
<1>1. /\ consumer[c].group = "" /\ g # ""
      /\ consumer' = [consumer EXCEPT ![c] = new] /\ entry' = [entry EXCEPT ![g] = c]
      /\ Resume(c, g) \/ UNCHANGED <<position, since>>
      /\ UNCHANGED <<topic, committed, sends, published, lost, past, returned>>
  BY ConsumerAssumption DEF Subscribe, record
<1>2. new \in ConsumerRecords /\ new.group = g
  BY DEF ConsumerRecords
<1>3. /\ consumer \in [Consumers -> ConsumerRecords] /\ entry \in [Groups -> Consumers \cup {NoConsumer}]
      /\ \A h \in Groups : Begun(h)
      /\ \A h \in Groups : entry[h] # NoConsumer => consumer[entry[h]].group = h
  BY DEF KafkaInv, Subscriptions
<1> HIDE DEF new
<1>4. /\ consumer' \in [Consumers -> ConsumerRecords] /\ consumer'[c].group = g
      /\ \A d \in Consumers : d # c => consumer'[d] = consumer[d]
      /\ entry' \in [Groups -> Consumers \cup {NoConsumer}] /\ entry'[g] = c
      /\ \A h \in Groups : h # g => entry'[h] = entry[h]
  BY <1>1, <1>2, <1>3
<1>5. ASSUME NEW h \in Groups, entry'[h] # NoConsumer  PROVE consumer'[entry'[h]].group = h
  <2>1. CASE h = g
    BY <2>1, <1>4
  <2>2. CASE h # g
    <3>1. entry'[h] = entry[h] /\ entry[h] \in Consumers /\ consumer[entry[h]].group = h
      BY <1>5, <2>2, <1>3, <1>4
    <3>2. entry[h] # c
      BY <3>1, <1>1, ConsumerAssumption
    <3> QED BY <3>1, <3>2, <1>4
  <2> QED BY <2>1, <2>2
<1>6. Numbers' /\ Forgets' /\ \A h \in Groups : Begun(h)'
  <2>1. CASE Resume(c, g)
    <3>1. ASSUME NEW d \in Consumers, consumer[d].group \in Groups
          PROVE  consumer'[d].group = consumer[d].group
      <4>1. d # c
        BY <1>1, <3>1, ConsumerAssumption
      <4> QED BY <1>4, <4>1
    <3> QED BY <1>1, <1>4, <2>1, <3>1, Resumed
  <2>2. CASE UNCHANGED <<position, since>>
    <3>1. Numbers' /\ Forgets'
      BY <1>1, <2>2, QuietKeeps DEF broker, record
    <3>2. ASSUME NEW h \in Groups  PROVE Begun(h)'
      <4>1. \A d \in Consumers : consumer[d].group = h => consumer'[d].group = h
        BY <1>1, <1>4, ConsumerAssumption
      <4>2. Begun(h) /\ since'[h] = since[h]
        BY <1>3, <2>2
      <4> QED BY <4>1, <4>2 DEF Begun
    <3> QED BY <3>1, <3>2
  <2> QED BY <1>1, <2>1, <2>2
<1> QED BY <1>4, <1>5, <1>6 DEF KafkaInv, Subscriptions

LEMMA CloseStep ==
  ASSUME KafkaInv, NEW c \in Consumers, Close(c) \/ Disconnect(c)
  PROVE  KafkaInv'
<1>1. /\ consumer' = [consumer EXCEPT ![c].closed = TRUE] \/ consumer' = [consumer EXCEPT ![c].connected = FALSE]
      /\ UNCHANGED <<broker, sends, published, lost, record>>
      /\ entry' = [entry EXCEPT ![consumer[c].group] = NoConsumer] \/ entry' = entry
  BY DEF Close, Disconnect
<1>2. /\ entry' \in [Groups -> Consumers \cup {NoConsumer}]
      /\ \A g \in Groups : entry'[g] \in {entry[g], NoConsumer}
  <2>1. entry \in [Groups -> Consumers \cup {NoConsumer}]
    BY DEF KafkaInv, Subscriptions
  <2> QED BY <1>1, <2>1
<1>3. Subscriptions'
  <2>1. /\ consumer' \in [Consumers -> ConsumerRecords]
        /\ \A d \in Consumers : consumer'[d].group = consumer[d].group
    BY <1>1, StateChanged
  <2>2. since' = since
    BY <1>1 DEF broker
  <2> QED BY <1>2, <2>1, <2>2, NobodyNew
<1> QED BY <1>1, <1>3, QuietKeeps DEF KafkaInv

LEMMA UpcomingIs ==
  ASSUME KafkaInv, NEW g \in Groups, position[g] < Len(topic)
  PROVE  topic[Upcoming(g)] \in Messages
<1>1. topic \in Seq(Messages) /\ Len(topic) \in Nat /\ position[g] \in Nat
  BY DEF KafkaInv, Numbers
<1>2. Upcoming(g) \in 1..Len(topic)
  BY <1>1 DEF Upcoming
<1> QED BY <1>1, <1>2, ElementOfSeq

LEMMA PassStep ==
  ASSUME KafkaInv, NEW c \in Consumers, NEW g \in Groups, Pass(c, g)
  PROVE  KafkaInv'
<1>1. /\ position[g] < Len(topic) /\ position' = [position EXCEPT ![g] = @ + 1] /\ Taken(g)
      /\ UNCHANGED <<topic, sends, lost, published, committed, since, consumer, entry>>
  BY DEF Pass, Handed, local
<1>2. Numbers' /\ Forgets' /\ \A h \in Groups : returned'[h] \subseteq returned[h]
  BY <1>1, HandedOver
<1>3. Subscriptions'
  BY <1>1, SubscriptionsStay
<1> QED BY <1>2, <1>3 DEF KafkaInv

LEMMA DeliverStep ==
  ASSUME KafkaInv, NEW c \in Consumers, NEW g \in Groups, NEW how \in {"returns", "throws"},
         Deliver(c, g, how)
  PROVE  KafkaInv'
<1>1. /\ position[g] < Len(topic) /\ UNCHANGED <<topic, sends, lost, published, committed, since, entry>>
      /\ consumer' = [consumer EXCEPT ![c].inFlight = consumer[c].inFlight \cup {topic[Upcoming(g)]}]
  BY DEF Deliver, Handed
<1>2. /\ consumer' \in [Consumers -> ConsumerRecords]
      /\ \A d \in Consumers : consumer'[d].group = consumer[d].group
  <2>1. consumer[c].inFlight \cup {topic[Upcoming(g)]} \in SUBSET Messages
    BY <1>1, UpcomingIs, ConsumerIs
  <2> QED BY <1>1, <2>1, InFlightChanged
<1>3. position \in [Groups -> Nat] /\ entry \in [Groups -> Consumers \cup {NoConsumer}]
  BY DEF KafkaInv, Numbers, Subscriptions
<1>4. Numbers' /\ Forgets' /\ \A h \in Groups : returned'[h] \subseteq returned[h]
  <2>1. CASE how = "throws"
    <3>1. position' = position /\ UNCHANGED record
      BY <1>3, <2>1 DEF Deliver, After
    <3> QED BY <1>1, <3>1, QuietKeeps DEF broker, record
  <2>2. CASE how = "returns"
    <3>1. position' = [position EXCEPT ![g] = @ + 1] /\ Taken(g)
      BY <1>3, <2>2 DEF Deliver, After
    <3> QED BY <1>1, <3>1, HandedOver
  <2> QED BY <2>1, <2>2
<1>5. Subscriptions'
  BY <1>1, <1>2, <1>3, NobodyNew
<1> QED BY <1>4, <1>5 DEF KafkaInv

LEMMA CommitStep ==
  ASSUME KafkaInv, NEW g \in Groups, Commit(g)
  PROVE  KafkaInv'
<1>1. /\ UNCHANGED <<topic, position, sends, lost, published, since, consumer, entry, past, returned>>
      /\ committed' = [committed EXCEPT ![g] = position[g]]
  BY DEF Commit, local, record
<1>2. /\ Numbers /\ position \in [Groups -> Nat] /\ committed \in [Groups -> Int]
      /\ \A h \in Groups : Counted(h) /\ (committed[h] # NoOffset => committed[h] \in Nat)
  BY DEF KafkaInv, Numbers, Forgets
<1>3. /\ committed' \in [Groups -> Int] /\ \A h \in Groups : committed'[h] # NoOffset => committed'[h] \in Nat
      /\ \A h \in Groups : committed'[h] \in {committed[h], position[h]}
  BY <1>1, <1>2
<1>4. Numbers'
  BY <1>1, <1>2, <1>3 DEF Numbers
<1>5. ASSUME NEW h \in Groups  PROVE Counted(h)'
  <2>1. committed[h] <= position[h] /\ position[h] \in Nat /\ committed'[h] \in {committed[h], position[h]}
    BY <1>2, <1>3 DEF Counted
  <2>2. committed'[h] <= position[h]
    BY <2>1
  <2> QED BY <1>1, <1>2, <2>2 DEF Counted
<1>6. Forgets'
  BY <1>1, <1>5, SentStays, ForgetsKept
<1>7. Subscriptions'
  BY <1>1, SubscriptionsStay
<1> QED BY <1>4, <1>6, <1>7 DEF KafkaInv

LEMMA RebalanceStep ==
  ASSUME KafkaInv, NEW g \in Groups, Rebalance(g)
  PROVE  KafkaInv'
<1>1. PICK c \in Running(g) : Resume(c, g)
  BY DEF Rebalance
<1>2. /\ c \in Consumers /\ consumer[c].group = g
      /\ UNCHANGED <<topic, sends, lost, published, committed, consumer, entry, past, returned>>
  BY DEF Rebalance, Running, local, record
<1>3. Numbers' /\ Forgets' /\ \A h \in Groups : Begun(h)'
  BY <1>1, <1>2, Resumed
<1>4. Subscriptions'
  BY <1>2, <1>3 DEF KafkaInv, Subscriptions
<1> QED BY <1>3, <1>4 DEF KafkaInv

\* What an entry knows is taken from its consumer, whose group it is.
LEMMA KnownIs ==
  ASSUME KafkaInv, NEW g \in Groups, NEW m \in Messages, Known(g, m), Forget(g, m), UNCHANGED <<entry, since>>
  PROVE  Subscriptions'
<1>1. entry[g] \in Consumers /\ entry \in [Groups -> Consumers \cup {NoConsumer}] /\ consumer[entry[g]].group = g
  BY DEF Known, KafkaInv, Subscriptions
<1>3. consumer' = [consumer EXCEPT ![entry[g]].inFlight = consumer[entry[g]].inFlight \ {m}]
  BY DEF Forget
<1>4. consumer[entry[g]].inFlight \ {m} \in SUBSET Messages
  BY <1>1, ConsumerIs
<1>5. /\ consumer' \in [Consumers -> ConsumerRecords]
      /\ \A d \in Consumers : consumer'[d].group = consumer[d].group
  BY <1>1, <1>3, <1>4, InFlightChanged
<1> QED BY <1>1, <1>5, NobodyNew

LEMMA AckStep ==
  ASSUME KafkaInv, NEW g \in Groups, NEW m \in Messages, Ack(g, m)
  PROVE  KafkaInv'
<1>1. Known(g, m) /\ Forget(g, m) /\ UNCHANGED <<broker, sends, entry, published, lost, record>>
  BY DEF Ack
<1>2. since' = since
  BY <1>1 DEF broker
<1> QED BY <1>1, <1>2, KnownIs, QuietKeeps DEF KafkaInv

LEMMA NackStep ==
  ASSUME KafkaInv, NEW g \in Groups, NEW m \in Messages, Nack(g, m)
  PROVE  KafkaInv'
<1>1. /\ Known(g, m) /\ Forget(g, m) /\ sends' = [sends EXCEPT ![m] = @ + 1]
      /\ returned' = [returned EXCEPT ![g] = @ \cup {m}]
      /\ UNCHANGED <<topic, position, committed, since, entry, published, lost, past>>
  BY DEF Nack, broker
<1>2. Numbers /\ returned \in [Groups -> SUBSET Messages] /\ Len(topic) \in Nat
  BY DEF KafkaInv, Numbers
<1>3. sends' \in [Messages -> Nat] /\ Sent(m)' /\ StillSent
  BY <1>1, <1>2, SendAdded
<1>4. /\ returned' \in [Groups -> SUBSET Messages]
      /\ \A h \in Groups : /\ h # g => returned'[h] = returned[h]
                           /\ \A n \in returned'[h] : n \in returned[h] \/ n = m
  BY <1>1, <1>2
<1>5. Numbers'
  BY <1>1, <1>2, <1>3, <1>4 DEF Numbers
<1>6. Forgets'
  <2>1. \A h \in Groups : Counted(h)'
    BY <1>1, <1>2, <1>5, CountedKept
  <2> QED BY <1>1, <1>3, <1>4, <2>1, ForgetsKept
<1> QED BY <1>1, <1>5, <1>6, KnownIs DEF KafkaInv

LEMMA ClearStep == ASSUME KafkaInv, Clear PROVE KafkaInv'
<1>1. /\ UNCHANGED <<broker, sends, entry, published, lost, record>>
      /\ \A c \in Consumers : consumer'[c] \in {[consumer[c] EXCEPT !.inFlight = {}], consumer[c]}
      /\ consumer' = [c \in Consumers |-> consumer'[c]]
  BY DEF Clear
<1>2. /\ consumer' \in [Consumers -> ConsumerRecords]
      /\ \A c \in Consumers : consumer'[c].group = consumer[c].group
  <2>1. \A c \in Consumers : consumer'[c] \in ConsumerRecords /\ consumer'[c].group = consumer[c].group
    <3>1. ASSUME NEW r \in ConsumerRecords
          PROVE  LET empty == [r EXCEPT !.inFlight = {}]
                 IN  empty \in ConsumerRecords /\ empty.group = r.group
      BY DEF ConsumerRecords
    <3> QED BY <1>1, <3>1, ConsumerIs
  <2> QED BY <1>1, <2>1
<1>3. since' = since /\ entry' = entry /\ entry \in [Groups -> Consumers \cup {NoConsumer}]
  BY <1>1 DEF broker, KafkaInv, Subscriptions
<1>4. Subscriptions'
  BY <1>2, <1>3, NobodyNew
<1> QED BY <1>1, <1>4, QuietKeeps DEF KafkaInv

LEMMA DeathStep == ASSUME KafkaInv, ProcessDies PROVE KafkaInv'
<1>1. /\ consumer' = [c \in Consumers |->
           [consumer[c] EXCEPT !.connected = FALSE, !.closed = TRUE, !.inFlight = {}]]
      /\ entry' = [g \in Groups |-> NoConsumer]
      /\ lost' = lost \cup {m \in Messages : sends[m] > 0} /\ sends' = [m \in Messages |-> 0]
      /\ UNCHANGED <<topic, position, committed, since, published, past, returned>>
  BY DEF ProcessDies, broker, record
<1>2. Numbers
  BY DEF KafkaInv
<1>3. Numbers'
  <2>1. sends' \in [Messages -> Nat] /\ lost' \subseteq Messages /\ published' \subseteq Messages
    BY <1>1, <1>2 DEF Numbers
  <2>2. /\ position' \in [Groups -> Nat] /\ committed' \in [Groups -> Int]
        /\ since' \in [Groups -> Nat] /\ \A g \in Groups : committed'[g] # NoOffset => committed'[g] \in Nat
    BY <1>1, <1>2 DEF Numbers
  <2>3. /\ past' \in [Groups -> SUBSET Nat] /\ returned' \in [Groups -> SUBSET Messages]
        /\ topic' \in Seq(Messages) /\ Len(topic') \in Nat /\ DOMAIN topic' = 1..Len(topic')
    BY <1>1, <1>2 DEF Numbers
  <2> QED BY <2>1, <2>2, <2>3 DEF Numbers
<1>4. StillSent
  BY <1>1 DEF StillSent, Sent, Untaken
<1>5. Forgets'
  <2>0. topic' = topic
    BY <1>1
  <2>1. Len(topic) <= Len(topic')
    BY <2>0, <1>2 DEF Numbers
  <2>2. \A g \in Groups : Counted(g)'
    BY <1>1, <1>3, <2>1, CountedKept
  <2> QED BY <1>1, <1>4, <2>2, ForgetsKept
<1>6. Subscriptions'
  <2>1. ASSUME NEW r \in ConsumerRecords
        PROVE  LET end == [r EXCEPT !.connected = FALSE, !.closed = TRUE, !.inFlight = {}]
               IN  end \in ConsumerRecords /\ end.group = r.group
    BY DEF ConsumerRecords
  <2>2. /\ consumer' \in [Consumers -> ConsumerRecords]
        /\ \A c \in Consumers : consumer'[c].group = consumer[c].group
    BY <1>1, <2>1, ConsumerIs
  <2>3. /\ entry' \in [Groups -> Consumers \cup {NoConsumer}]
        /\ \A g \in Groups : entry'[g] \in {entry[g], NoConsumer}
    BY <1>1
  <2> QED BY <1>1, <2>2, <2>3, NobodyNew
<1> QED BY <1>3, <1>5, <1>6 DEF KafkaInv

LEMMA KafkaStep == KafkaInv /\ [KafkaNext]_kafkaVars => KafkaInv'
<1> SUFFICES ASSUME KafkaInv, [KafkaNext]_kafkaVars  PROVE KafkaInv'
  OBVIOUS
<1>1. CASE KafkaNext
  BY <1>1, SendStep, SubscribeStep, CloseStep, PassStep, DeliverStep, CommitStep, RebalanceStep, AckStep, NackStep,
     ClearStep, DeathStep DEF KafkaNext
<1>2. CASE UNCHANGED kafkaVars
  <2>1. UNCHANGED <<broker, sends, published, lost, record>> /\ UNCHANGED <<consumer, entry, since>>
    BY <1>2 DEF kafkaVars, local, broker
  <2> QED BY <2>1, QuietKeeps, SubscriptionsStay DEF KafkaInv
<1> QED BY <1>1, <1>2

\* Whatever is retried, rebalanced, closed, subscribed twice or killed, a message is
\* on its way, in the topic or known to be lost; what the broker holds as done by a
\* group, from where the group began, was handled; what was handed back is where the
\* group has not taken it; and only a group of which a subscription does not ask for
\* the beginning can begin past a message (persistence/kafka_real.ts).
THEOREM BusForgetsNothing == KafkaSpec => []NothingForgotten
<1>1. KafkaSpec => []KafkaInv
  BY KafkaInitial, KafkaStep, PTL DEF KafkaSpec
<1>2. KafkaInv => NothingForgotten
  BY ForgetsIs
<1> QED BY <1>1, <1>2, PTL

-----------------------------------------------------------------------------
(* The batch that draws portraits: what a kill may not undo.               *)

JobSteps == {"down", "portrait", "painting", "scene", "filming", "saving", "dumping", "complete", "refused"}
Listed(upto) == \A c \in 1..upto : Portrait(c) \in job.manifest

Jobs == [step : JobSteps, cell : 1..Cells, manifest : SUBSET Outputs]

\* A file that was made is whole, and one that is being written is torn.
OnDisk ==
  /\ files \in [Outputs -> {"none", "torn", "whole"}] /\ made \in [Outputs -> Nat]
  /\ \A o \in Outputs : made[o] <= 1 /\ (made[o] # 0 => files[o] = "whole")
Writing ==
  /\ job.step = "painting" => files[Portrait(job.cell)] = "torn"
  /\ job.step \in {"scene", "filming"} => job.cell \in WithScene
  /\ job.step = "filming" => files[Scene(job.cell)] = "torn"

\* The manifests list files, and the process's that of each cell that is behind.
ManifestsAre ==
  /\ saved.lists \subseteq Outputs
  /\ \A o \in saved.lists \cup job.manifest : files[o] # "none"
Behind ==
  /\ job.step \in {"portrait", "painting"} => Listed(job.cell - 1)
  /\ job.step \in {"scene", "filming", "saving", "dumping"} => Listed(job.cell)
  /\ job.step = "complete" => \A c \in 1..Cells : Portrait(c) \in saved.lists

BatchInv == job \in Jobs /\ OnDisk /\ Writing /\ ManifestsAre /\ Behind

LEMMA OutputsAre ==
  /\ \A c \in 1..Cells : Portrait(c) \in Outputs
  /\ \A c \in WithScene : Scene(c) \in Outputs /\ c \in 1..Cells
  /\ Cells \in Nat /\ 1 \in 1..Cells
BY CellsAssumption DEF Outputs

LEMMA AtIs ==
  ASSUME NEW j \in Jobs, NEW step \in JobSteps
  PROVE  LET at == [j EXCEPT !.step = step]
         IN  at \in Jobs /\ at.step = step /\ at.cell = j.cell /\ at.manifest = j.manifest
BY DEF Jobs

LEMMA NotedIs ==
  ASSUME job \in Jobs, NEW step \in JobSteps, NEW o \in Outputs, Noted(o, step)
  PROVE  /\ job' \in Jobs /\ job'.step = step /\ job'.cell = job.cell
         /\ job'.manifest = job.manifest \cup {o}
BY DEF Jobs, Noted

LEMMA NextCellIs ==
  ASSUME NEW j \in Jobs, NEW next \in 1..Cells
  PROVE  LET behind == [j EXCEPT !.step = "portrait", !.cell = next]
         IN  /\ behind \in Jobs /\ behind.step = "portrait" /\ behind.cell = next
             /\ behind.manifest = j.manifest
BY DEF Jobs, JobSteps

LEMMA JobIs ==
  ASSUME NEW j \in Jobs
  PROVE  j.step \in JobSteps /\ j.cell \in 1..Cells /\ j.manifest \subseteq Outputs
BY DEF Jobs

LEMMA NoJobIs ==
  /\ NoJob \in Jobs /\ NoJob.step = "down" /\ NoJob.manifest = {}
  /\ LET stopped == [NoJob EXCEPT !.step = "refused"]
     IN  stopped \in Jobs /\ stopped.step = "refused" /\ stopped.manifest = {}
BY OutputsAre DEF NoJob, Jobs, JobSteps

LEMMA BatchInitial == BatchInit => BatchInv
<1> SUFFICES ASSUME BatchInit PROVE BatchInv
  OBVIOUS
<1>1. /\ files = [o \in Outputs |-> "none"] /\ made = [o \in Outputs |-> 0]
      /\ saved.lists = {} /\ job = NoJob
  BY DEF BatchInit
<1>2. job \in Jobs /\ job.step = "down" /\ job.manifest = {}
  BY <1>1, NoJobIs
<1>3. OnDisk
  BY <1>1 DEF OnDisk
<1> QED BY <1>1, <1>2, <1>3 DEF BatchInv, Writing, ManifestsAre, Behind

LEMMA StartStep == ASSUME BatchInv, Start PROVE BatchInv'
<1>1. UNCHANGED <<files, saved, made>> /\ job \in Jobs /\ OnDisk /\ ManifestsAre
  BY DEF Start, BatchInv
<1>2. OnDisk'
  BY <1>1 DEF OnDisk
<1>3. CASE job' = [NoJob EXCEPT !.step = "refused"]
  BY <1>1, <1>2, <1>3, NoJobIs DEF BatchInv, Writing, ManifestsAre, Behind
<1>4. CASE job' = [step |-> "portrait", cell |-> 1, manifest |-> saved.lists]
  <2>1. job' \in Jobs /\ job'.step = "portrait" /\ job'.cell = 1 /\ job'.manifest = saved.lists
    BY <1>1, <1>4, OutputsAre DEF Jobs, JobSteps, ManifestsAre
  <2> QED BY <1>1, <1>2, <2>1 DEF BatchInv, Writing, ManifestsAre, Behind, Listed
<1> QED BY <1>3, <1>4 DEF Start

LEMMA DiesStep == ASSUME BatchInv, Dies PROVE BatchInv'
<1>1. UNCHANGED <<files, saved, made>> /\ job' = NoJob /\ OnDisk /\ ManifestsAre
  BY DEF Dies, BatchInv
<1> QED BY <1>1, NoJobIs DEF BatchInv, OnDisk, Writing, ManifestsAre, Behind

\* The process goes on to another step and notes nothing: files are only opened.
LEMMA AtKeeps ==
  ASSUME BatchInv, NEW step \in JobSteps \ {"complete"}, At(step), UNCHANGED <<saved, made>>, OnDisk',
         \A o \in Outputs : files[o] # "none" => files'[o] # "none",
         step = "painting" => files'[Portrait(job.cell)] = "torn",
         step = "filming" => job.cell \in WithScene /\ files'[Scene(job.cell)] = "torn",
         step # "scene",
         step \in {"portrait", "painting"} => job.step \in {"portrait", "painting"},
         step \in {"filming", "saving", "dumping"} => Listed(job.cell)
  PROVE  BatchInv'
<1>1. /\ job' \in Jobs /\ job'.step = step /\ job'.cell = job.cell /\ job'.manifest = job.manifest
      /\ job.manifest \subseteq Outputs
  BY AtIs, JobIs DEF At, BatchInv
<1>2. Writing'
  BY <1>1 DEF Writing, Portrait, Scene
<1>3. ManifestsAre'
  BY <1>1 DEF BatchInv, ManifestsAre
<1>4. Behind'
  BY <1>1 DEF BatchInv, Behind, Listed, Portrait
<1> QED BY <1>1, <1>2, <1>3, <1>4 DEF BatchInv

\* It notes a file that is there, and the portrait before it leaves the cell.
LEMMA NotedKeeps ==
  ASSUME BatchInv, NEW o \in Outputs, NEW step \in {"scene", "saving"}, Noted(o, step),
         saved' = saved, OnDisk', files'[o] # "none",
         \A p \in Outputs : files[p] # "none" => files'[p] # "none",
         step = "scene" => job.cell \in WithScene,
         \/ o = Portrait(job.cell) /\ Listed(job.cell - 1)
         \/ Listed(job.cell)
  PROVE  BatchInv'
<1>1. /\ job' \in Jobs /\ job'.step = step /\ job'.cell = job.cell
      /\ job'.manifest = job.manifest \cup {o}
      /\ job.manifest \subseteq Outputs /\ job.cell \in 1..Cells /\ Cells \in Nat
  <2>1. job \in Jobs /\ step \in JobSteps
    BY DEF BatchInv, JobSteps
  <2>2. /\ job' \in Jobs /\ job'.step = step /\ job'.cell = job.cell
        /\ job'.manifest = job.manifest \cup {o}
    BY <2>1, NotedIs
  <2>3. job.manifest \subseteq Outputs /\ job.cell \in 1..Cells
    BY <2>1, JobIs
  <2> QED BY <2>2, <2>3, OutputsAre
<1>2. Writing'
  BY <1>1 DEF Writing
<1>3. ManifestsAre'
  BY <1>1 DEF BatchInv, ManifestsAre
<1>4. \A c \in 1..job.cell : Portrait(c) \in job'.manifest
  BY <1>1 DEF Listed
<1>5. Behind'
  BY <1>1, <1>4 DEF Behind, Listed
<1> QED BY <1>1, <1>2, <1>3, <1>5 DEF BatchInv

LEMMA OpenedKeeps ==
  ASSUME BatchInv, NEW o \in Outputs, ~Exists(o), files' = [files EXCEPT ![o] = "torn"], made' = made
  PROVE  OnDisk' /\ files'[o] = "torn" /\ \A p \in Outputs : files[p] # "none" => files'[p] # "none"
BY DEF BatchInv, OnDisk, Exists

LEMMA FinishedKeeps ==
  ASSUME BatchInv, NEW o \in Outputs, files[o] = "torn", Finished(o)
  PROVE  OnDisk' /\ files'[o] = "whole" /\ \A p \in Outputs : files[p] # "none" => files'[p] # "none"
<1>1. made[o] = 0
  BY DEF BatchInv, OnDisk
<1> QED BY <1>1 DEF BatchInv, OnDisk, Finished

LEMMA HereIs ==
  ASSUME BatchInv
  PROVE  /\ job.cell \in 1..Cells /\ Portrait(job.cell) \in Outputs /\ OnDisk
         /\ job.step \in {"scene", "filming"} =>
              job.cell \in WithScene /\ Scene(job.cell) \in Outputs /\ Listed(job.cell)
         /\ job.step \in {"portrait", "painting"} => Listed(job.cell - 1)
         /\ job.step \in {"saving", "dumping"} => Listed(job.cell)
         /\ AfterPortrait \in {"scene", "saving"} /\ (AfterPortrait = "scene" => job.cell \in WithScene)
BY OutputsAre DEF BatchInv, Jobs, Writing, Behind, AfterPortrait

LEMMA DrawStep ==
  ASSUME BatchInv, SkipPortrait \/ OpenPortrait \/ ClosePortrait  PROVE BatchInv'
<1>1. CASE SkipPortrait
  <2>1. /\ job.step = "portrait" /\ Exists(Portrait(job.cell))
        /\ Noted(Portrait(job.cell), AfterPortrait) /\ UNCHANGED <<files, saved, made>>
    BY <1>1 DEF SkipPortrait
  <2>2. OnDisk' /\ files'[Portrait(job.cell)] # "none"
    BY <2>1, HereIs DEF OnDisk, Exists
  <2> QED BY <2>1, <2>2, HereIs, NotedKeeps
<1>2. CASE OpenPortrait
  <2>1. /\ job.step = "portrait" /\ ~Exists(Portrait(job.cell)) /\ At("painting")
        /\ files' = [files EXCEPT ![Portrait(job.cell)] = "torn"] /\ UNCHANGED <<saved, made>>
    BY <1>2 DEF OpenPortrait
  <2>2. OnDisk' /\ files'[Portrait(job.cell)] = "torn"
        /\ \A p \in Outputs : files[p] # "none" => files'[p] # "none"
    BY <2>1, HereIs, OpenedKeeps
  <2>3. "painting" \in JobSteps \ {"complete"}
    BY DEF JobSteps
  <2> QED BY <2>1, <2>2, <2>3, HereIs, AtKeeps
<1>3. CASE ClosePortrait
  <2>1. /\ job.step = "painting" /\ Finished(Portrait(job.cell))
        /\ Noted(Portrait(job.cell), AfterPortrait) /\ UNCHANGED saved
    BY <1>3 DEF ClosePortrait
  <2>2. files[Portrait(job.cell)] = "torn"
    BY <2>1 DEF BatchInv, Writing
  <2>3. OnDisk' /\ files'[Portrait(job.cell)] = "whole"
        /\ \A p \in Outputs : files[p] # "none" => files'[p] # "none"
    BY <2>1, <2>2, HereIs, FinishedKeeps
  <2> QED BY <2>1, <2>3, HereIs, NotedKeeps
<1> QED BY <1>1, <1>2, <1>3

LEMMA SceneStep ==
  ASSUME BatchInv, SkipScene \/ OpenScene \/ CloseScene \/ SceneFails  PROVE BatchInv'
<1>1. CASE SkipScene
  <2>1. /\ job.step = "scene" /\ Exists(Scene(job.cell))
        /\ Noted(Scene(job.cell), "saving") /\ UNCHANGED <<files, saved, made>>
    BY <1>1 DEF SkipScene
  <2>2. OnDisk' /\ files'[Scene(job.cell)] # "none"
    BY <2>1, HereIs DEF OnDisk, Exists
  <2> QED BY <2>1, <2>2, HereIs, NotedKeeps
<1>2. CASE OpenScene
  <2>1. /\ job.step = "scene" /\ ~Exists(Scene(job.cell)) /\ At("filming")
        /\ files' = [files EXCEPT ![Scene(job.cell)] = "torn"] /\ UNCHANGED <<saved, made>>
    BY <1>2 DEF OpenScene
  <2>2. OnDisk' /\ files'[Scene(job.cell)] = "torn"
        /\ \A p \in Outputs : files[p] # "none" => files'[p] # "none"
    BY <2>1, HereIs, OpenedKeeps
  <2>3. "filming" \in JobSteps \ {"complete"}
    BY DEF JobSteps
  <2> QED BY <2>1, <2>2, <2>3, HereIs, AtKeeps
<1>3. CASE CloseScene
  <2>1. /\ job.step = "filming" /\ Finished(Scene(job.cell))
        /\ Noted(Scene(job.cell), "saving") /\ UNCHANGED saved
    BY <1>3 DEF CloseScene
  <2>2. files[Scene(job.cell)] = "torn"
    BY <2>1 DEF BatchInv, Writing
  <2>3. OnDisk' /\ files'[Scene(job.cell)] = "whole"
        /\ \A p \in Outputs : files[p] # "none" => files'[p] # "none"
    BY <2>1, <2>2, HereIs, FinishedKeeps
  <2> QED BY <2>1, <2>3, HereIs, NotedKeeps
<1>4. CASE SceneFails
  <2>1. UNCHANGED <<files, saved, made>> /\ OnDisk'
    BY <1>4, HereIs DEF SceneFails, OnDisk
  <2>2. CASE job.step = "filming" /\ Noted(Scene(job.cell), "saving")
    <3>1. files'[Scene(job.cell)] # "none"
      BY <2>1, <2>2 DEF BatchInv, Writing
    <3> QED BY <2>1, <2>2, <3>1, HereIs, NotedKeeps
  <2>3. CASE job.step = "scene" /\ At("saving")
    <3>1. "saving" \in JobSteps \ {"complete"}
      BY DEF JobSteps
    <3> QED BY <2>1, <2>3, <3>1, HereIs, AtKeeps
  <2> QED BY <1>4, <2>2, <2>3 DEF SceneFails
<1> QED BY <1>1, <1>2, <1>3, <1>4

LEMMA ManifestStep == ASSUME BatchInv, OpenManifest \/ CloseManifest PROVE BatchInv'
<1>1. CASE OpenManifest
  <2>1. /\ job.step = "saving" /\ saved'.lists = {} /\ At("dumping") /\ UNCHANGED <<files, made>>
    BY <1>1 DEF OpenManifest
  <2>2. /\ job' \in Jobs /\ job'.step = "dumping" /\ job'.cell = job.cell
        /\ job'.manifest = job.manifest
    <3>1. job \in Jobs /\ "dumping" \in JobSteps
      BY DEF BatchInv, JobSteps
    <3> QED BY <2>1, <3>1, AtIs DEF At
  <2>3. Listed(job.cell) /\ OnDisk /\ \A o \in job.manifest : files[o] # "none"
    BY <2>1, HereIs DEF BatchInv, ManifestsAre
  <2> QED BY <2>1, <2>2, <2>3 DEF BatchInv, OnDisk, Writing, ManifestsAre, Behind, Listed
<1>2. CASE CloseManifest
  <2>1. /\ job.step = "dumping" /\ saved'.lists = job.manifest /\ UNCHANGED <<files, made>>
    BY <1>2 DEF CloseManifest
  <2>2. Listed(job.cell) /\ OnDisk' /\ job \in Jobs /\ job.manifest \subseteq Outputs
        /\ \A o \in job.manifest : files[o] # "none"
    BY <2>1, HereIs DEF BatchInv, ManifestsAre, OnDisk, Jobs
  <2>3. CASE job.cell = Cells
    <3>1. /\ job' \in Jobs /\ job'.step = "complete" /\ job'.cell = job.cell
          /\ job'.manifest = job.manifest
      <4>1. job' = [job EXCEPT !.step = "complete"] /\ "complete" \in JobSteps
        BY <1>2, <2>3 DEF CloseManifest, JobSteps
      <4> QED BY <2>2, <4>1, AtIs
    <3> QED BY <2>1, <2>2, <2>3, <3>1 DEF BatchInv, Writing, ManifestsAre, Behind, Listed
  <2>4. CASE job.cell # Cells
    <3>1. /\ job' \in Jobs /\ job'.step = "portrait" /\ job'.cell = job.cell + 1
          /\ job'.manifest = job.manifest /\ job.cell \in 1..Cells
      <4>1. job' = [job EXCEPT !.step = "portrait", !.cell = job.cell + 1] /\ job.cell \in 1..Cells
        BY <1>2, <2>2, <2>4, JobIs DEF CloseManifest
      <4>2. job.cell + 1 \in 1..Cells
        BY <4>1, <2>4, OutputsAre
      <4> QED BY <2>2, <4>1, <4>2, NextCellIs
    <3>2. job'.cell - 1 = job.cell
      BY <3>1, OutputsAre
    <3> QED BY <2>1, <2>2, <3>1, <3>2 DEF BatchInv, Writing, ManifestsAre, Behind, Listed
  <2> QED BY <2>3, <2>4
<1> QED BY <1>1, <1>2

LEMMA BatchStep == BatchInv /\ [BatchNext]_batchVars => BatchInv'
<1> SUFFICES ASSUME BatchInv, [BatchNext]_batchVars  PROVE BatchInv'
  OBVIOUS
<1>1. CASE BatchNext
  BY <1>1, StartStep, DrawStep, SceneStep, ManifestStep, DiesStep DEF BatchNext
<1>2. CASE UNCHANGED batchVars
  BY <1>2 DEF batchVars, BatchInv, OnDisk, Writing, ManifestsAre, Behind, Listed
<1> QED BY <1>1, <1>2

\* However often the job is killed and started, what was made is not made again, a
\* manifest lists only files that are there, and that of a job that came to its end
\* lists every portrait (colab/09_batch_pregenerate.py).
THEOREM BatchKeepsWork == BatchSpec => []WorkIsKept
<1>1. BatchSpec => []BatchInv
  BY BatchInitial, BatchStep, PTL DEF BatchSpec
<1>2. BatchInv => WorkIsKept
  BY DEF BatchInv, OnDisk, ManifestsAre, Behind, WorkIsKept
<1> QED BY <1>1, <1>2, PTL

-----------------------------------------------------------------------------
(* Both, where a behaviour moves one of the parts.                         *)

\* A task is not forgotten by the bus, but for what a group that does not replay
\* passes over before its first commit, nor a picture by the batch that draws it,
\* whatever is retried, killed or started again (kafka_real.ts, 09_batch_pregenerate.py).
THEOREM NothingIsLeft == PartsSpec => []NothingIsLeftUndone
<1>1. PartsInit => KafkaInv /\ BatchInv
  BY KafkaInitial, BatchInitial DEF PartsInit
<1>2. KafkaInv /\ BatchInv
        /\ [PartsNext]_<<part, vars, redisVars, storeVars, projectionVars, kafkaVars, batchVars,
                         portraitVars>>
        => KafkaInv' /\ BatchInv'
  BY KafkaStep, BatchStep DEF PartsNext
<1>3. KafkaInv /\ BatchInv => NothingIsLeftUndone
  BY ForgetsIs DEF KafkaInv, NothingIsLeftUndone, BatchInv, OnDisk, ManifestsAre, Behind, WorkIsKept
<1> QED BY <1>1, <1>2, <1>3, PTL DEF PartsSpec

-----------------------------------------------------------------------------
(* The durable store. *)

Up == phase # "down"

\* Whatever failed in this life still has to be reported by a flush.
FailuresTold == Up => (spoilt = errors)

\* What no flush waits for any more was written without anybody waiting for it.
OnlyLateBehind ==
  phase \in {"flushing", "closing"} =>
    \A i \in 1..Len(queue) : i > awaited => queue[i].write.table = "companionMemory"

\* Each store on the way from Postgres to the projections has its accounts.
NoOrphansAhead ==
  ~everSpoilt =>
    /\ ~spoilt
    /\ NoOrphans(db)
    /\ Up => NoOrphans(mem) /\ \A i \in 1..Len(queue) : NoOrphans(queue[i].after)

\* A process that has exited has taken its queue with it.
NothingOutlives == ~Up => queue = <<>>

StoreInv == StoreTypeOK /\ Mirror /\ FailuresTold /\ OnlyLateBehind /\ NoOrphansAhead /\ NothingOutlives

Entries == [write : Writes, after : Stores]
KeyTypes == Emails \cup Companions \cup Nat
ValTypes == Emails \cup Nat

-----------------------------------------------------------------------------
(* Stores and writes. *)

LEMMA RowTyped == \A key \in KeyTypes, val \in ValTypes : Row(key, val) \in Rows
BY DEF Row, Rows, KeyTypes, ValTypes

LEMMA WriteTyped ==
  \A place \in Tables, sort \in {"create", "upsert", "delete"}, row \in Rows :
    Write(place, sort, row) \in Writes
BY DEF Write, Writes

LEMMA ApplyTyped == \A w \in Writes, store \in Stores : Apply(w, store) \in Stores
<1> SUFFICES ASSUME NEW w \in Writes, NEW store \in Stores PROVE Apply(w, store) \in Stores
  OBVIOUS
<1>1. w.table \in Tables /\ w.row \in Rows /\ store[w.table] \subseteq Rows
  BY DEF Writes, Stores
<1>2. Others(store[w.table], w.row.key) \subseteq Rows
  BY <1>1 DEF Others
<1>3. (IF w.kind = "create" THEN store[w.table] \cup {w.row}
       ELSE Others(store[w.table], w.row.key) \cup (IF w.kind = "upsert" THEN {w.row} ELSE {}))
      \in SUBSET Rows
  BY <1>1, <1>2
<1> QED BY <1>1, <1>3 DEF Apply, Stores

LEMMA EmptyStore == Empty \in Stores /\ NoOrphans(Empty)
BY DEF Empty, Stores, Tables, NoOrphans

\* A write of another place leaves accounts and sessions alone.
LEMMA OtherTables ==
  ASSUME NEW store \in Stores, NoOrphans(store), NEW w \in Writes,
         w.table \notin {"user", "session"}
  PROVE  NoOrphans(Apply(w, store))
<1>1. Apply(w, store)["session"] = store["session"] /\ Apply(w, store)["user"] = store["user"]
  BY DEF Apply, Stores, Tables
<1> QED BY <1>1 DEF NoOrphans

\* Ending a session takes nobody's account away.
LEMMA SessionsEnd ==
  ASSUME NEW store \in Stores, NoOrphans(store), NEW row \in Rows
  PROVE  NoOrphans(Apply(Write("session", "delete", row), store))
<1> DEFINE w == Write("session", "delete", row)
<1>1. w.table = "session" /\ w.kind = "delete" /\ w.row = row
  BY DEF Write
<1> HIDE DEF w
<1>2. Apply(w, store)["user"] = store["user"]
      /\ Apply(w, store)["session"] = Others(store["session"], row.key) \cup {}
  BY <1>1 DEF Apply, Stores, Tables
<1>3. Others(store["session"], row.key) \subseteq store["session"]
  BY DEF Others
<1> QED BY <1>2, <1>3 DEF NoOrphans, w

\* An account is added; then a session of an account that is there.
LEMMA AccountsArrive ==
  ASSUME NEW store \in Stores, NoOrphans(store), NEW row \in Rows
  PROVE  /\ NoOrphans(Apply(Write("user", "create", row), store))
         /\ row.key \in KeysOf(Apply(Write("user", "create", row), store)["user"])
<1> DEFINE w == Write("user", "create", row)
<1>1. w.table = "user" /\ w.kind = "create" /\ w.row = row
  BY DEF Write
<1> HIDE DEF w
<1>2. Apply(w, store)["user"] = store["user"] \cup {row}
      /\ Apply(w, store)["session"] = store["session"]
  BY <1>1 DEF Apply, Stores, Tables
<1> QED BY <1>2 DEF NoOrphans, KeysOf, w

LEMMA SessionsArrive ==
  ASSUME NEW store \in Stores, NoOrphans(store), NEW row \in Rows,
         row.val \in KeysOf(store["user"])
  PROVE  NoOrphans(Apply(Write("session", "create", row), store))
<1> DEFINE w == Write("session", "create", row)
<1>1. w.table = "session" /\ w.kind = "create" /\ w.row = row
  BY DEF Write
<1> HIDE DEF w
<1>2. Apply(w, store)["session"] = store["session"] \cup {row}
      /\ Apply(w, store)["user"] = store["user"]
  BY <1>1 DEF Apply, Stores, Tables
<1> QED BY <1>2 DEF NoOrphans, w

-----------------------------------------------------------------------------
(* Queues: the writes lead from one store to another. *)

Linked(q, from, to) ==
  /\ \A i \in 1..Len(q) : Apply(q[i].write, IF i = 1 THEN from ELSE q[i - 1].after) = q[i].after
  /\ to = IF Len(q) = 0 THEN from ELSE q[Len(q)].after

LEMMA MirrorIsLinked ==
  ASSUME queue \in Seq(Entries), queue' \in Seq(Entries)
  PROVE  /\ Mirror <=> (phase # "down" /\ ~spoilt => Linked(queue, db, mem))
         /\ Mirror' <=> (phase' # "down" /\ ~spoilt' => Linked(queue', db', mem'))
<1>1. Len(queue) \in Nat /\ Len(queue') \in Nat
  OBVIOUS
<1>2. Mirror <=> (phase # "down" /\ ~spoilt => Linked(queue, db, mem))
  BY <1>1 DEF Mirror, Before, Linked
<1>3. Mirror' <=> (phase' # "down" /\ ~spoilt' => Linked(queue', db', mem'))
  BY <1>1 DEF Mirror, Before, Linked
<1> QED BY <1>2, <1>3

LEMMA NothingLinked == \A store : Linked(<<>>, store, store)
BY DEF Linked

LEMMA LinkedAppend ==
  ASSUME NEW q \in Seq(Entries), NEW from, NEW to, Linked(q, from, to), NEW w
  PROVE  Linked(Append(q, [write |-> w, after |-> Apply(w, to)]), from, Apply(w, to))
<1> DEFINE e == [write |-> w, after |-> Apply(w, to)]
<1> DEFINE r == Append(q, e)
<1>1. e.write = w /\ e.after = Apply(w, to)
  OBVIOUS
<1> HIDE DEF e
<1>2. Len(r) = Len(q) + 1 /\ Len(q) \in Nat /\ r[Len(q) + 1] = e
      /\ \A i \in 1..Len(q) : r[i] = q[i]
  OBVIOUS
<1> HIDE DEF r
<1>3. ASSUME NEW i \in 1..Len(r)
      PROVE  Apply(r[i].write, IF i = 1 THEN from ELSE r[i - 1].after) = r[i].after
  <2>1. CASE i = Len(q) + 1
    BY <2>1, <1>1, <1>2 DEF Linked
  <2>2. CASE i # Len(q) + 1
    <3>1. i \in 1..Len(q) /\ (i # 1 => i - 1 \in 1..Len(q))
      BY <2>2, <1>2
    <3> QED BY <3>1, <1>2 DEF Linked
  <2> QED BY <2>1, <2>2
<1>4. Apply(w, to) = IF Len(r) = 0 THEN from ELSE r[Len(r)].after
  BY <1>1, <1>2
<1>5. Linked(r, from, Apply(w, to))
  BY <1>3, <1>4 DEF Linked
<1> QED BY <1>5 DEF r, e

LEMMA LinkedTail ==
  ASSUME NEW q \in Seq(Entries), q # <<>>, NEW from, NEW to, Linked(q, from, to)
  PROVE  /\ Apply(Head(q).write, from) = Head(q).after
         /\ Linked(Tail(q), Head(q).after, to)
<1> DEFINE r == Tail(q)
<1>1. Len(q) \in Nat \ {0} /\ Head(q) = q[1] /\ Len(r) = Len(q) - 1
      /\ \A i \in 1..Len(r) : r[i] = q[i + 1]
  OBVIOUS
<1> HIDE DEF r
<1>2. Apply(q[1].write, from) = q[1].after
  BY <1>1 DEF Linked
<1>3. ASSUME NEW i \in 1..Len(r)
      PROVE  Apply(r[i].write, IF i = 1 THEN Head(q).after ELSE r[i - 1].after) = r[i].after
  <2>1. i + 1 \in 1..Len(q) /\ i + 1 # 1 /\ (i + 1) - 1 = i
    BY <1>1
  <2>2. Apply(q[i + 1].write, q[i].after) = q[i + 1].after
    BY <2>1 DEF Linked
  <2>3. i # 1 => i - 1 \in 1..Len(r) /\ (i - 1) + 1 = i
    OBVIOUS
  <2> QED BY <1>1, <2>2, <2>3
<1>4. to = IF Len(r) = 0 THEN Head(q).after ELSE r[Len(r)].after
  BY <1>1 DEF Linked
<1> QED BY <1>1, <1>2, <1>3, <1>4 DEF Linked, r

-----------------------------------------------------------------------------
(* The invariant holds initially and every step keeps it. *)

LEMMA StoreStarts == StoreInit => StoreInv
<1> SUFFICES ASSUME StoreInit PROVE StoreInv
  OBVIOUS
<1>1. queue = <<>> /\ <<>> \in Seq(Entries) /\ Len(queue) = 0
  BY DEF StoreInit
<1>2. StoreTypeOK
  <2>1. {errors, spoilt, everSpoilt} \subseteq BOOLEAN /\ (errors => spoilt)
    BY Zenon DEF StoreInit
  <2>2. db \in Stores /\ mem \in Stores
    BY EmptyStore DEF StoreInit
  <2>3. phase = "down" /\ awaited \in 0..Len(queue) /\ seq \in Nat /\ stamp \in 0..MaxWrites
    BY <1>1, MaxWritesAssumption DEF StoreInit
  <2> QED BY <1>1, <2>1, <2>2, <2>3 DEF StoreTypeOK, Entries
<1>3. Mirror /\ FailuresTold /\ OnlyLateBehind
  BY DEF StoreInit, Mirror, FailuresTold, OnlyLateBehind, Up
<1>4. NoOrphansAhead /\ NothingOutlives
  BY EmptyStore DEF StoreInit, NoOrphansAhead, NothingOutlives, Up
<1> QED BY <1>2, <1>3, <1>4 DEF StoreInv

\* One more entry at the end of the queue.
LEMMA Queued ==
  ASSUME NEW q \in Seq(Entries), NEW to \in Stores, NEW w \in Writes
  PROVE  LET r == Append(q, [write |-> w, after |-> Apply(w, to)])
         IN  /\ r \in Seq(Entries) /\ Len(r) = Len(q) + 1
             /\ r[Len(q) + 1].write = w /\ r[Len(q) + 1].after = Apply(w, to)
             /\ \A i \in 1..Len(q) : r[i] = q[i]
<1>1. Apply(w, to) \in Stores
  BY ApplyTyped
<1>2. [write |-> w, after |-> Apply(w, to)] \in Entries
  BY <1>1 DEF Entries
<1> QED BY <1>2

\* A write that keeps every session's account, and that no flush in progress
\* is waiting for unless nobody waits for it, may be issued.
LEMMA IssueStep ==
  ASSUME StoreInv, Up, NEW w \in Writes, Issue(w), seq' \in Nat,
         phase = "serving" \/ w.table = "companionMemory",
         ~everSpoilt => NoOrphans(Apply(w, mem))
  PROVE  StoreInv'
<1> USE DEF Up
<1> DEFINE r == Append(queue, [write |-> w, after |-> Apply(w, mem)])
<1>1. queue \in Seq(Entries) /\ mem \in Stores /\ awaited \in 0..Len(queue) /\ Len(queue) \in Nat
  BY DEF StoreInv, StoreTypeOK, Entries
<1>2. /\ r \in Seq(Entries) /\ Len(r) = Len(queue) + 1
      /\ r[Len(queue) + 1].write = w /\ r[Len(queue) + 1].after = Apply(w, mem)
      /\ \A i \in 1..Len(queue) : r[i] = queue[i]
  BY <1>1, Queued
<1>3. queue' = r /\ mem' = Apply(w, mem) /\ mem' \in Stores
  BY <1>1, ApplyTyped DEF Issue, Enqueued
<1>4. UNCHANGED <<db, errors, phase, awaited, spoilt, everSpoilt>>
      /\ stamp < MaxWrites /\ stamp' = stamp + 1
  BY DEF Issue
<1>5. Linked(queue, db, mem) => Linked(r, db, Apply(w, mem))
  BY <1>1, LinkedAppend
<1> HIDE DEF r
<1>6. StoreTypeOK'
  BY <1>1, <1>2, <1>3, <1>4, MaxWritesAssumption DEF StoreInv, StoreTypeOK, Entries
<1>7. Mirror'
  BY <1>1, <1>2, <1>3, <1>4, <1>5, MirrorIsLinked DEF StoreInv
<1>8. FailuresTold' /\ NothingOutlives'
  BY <1>4 DEF StoreInv, FailuresTold, NothingOutlives
<1>9. OnlyLateBehind'
  <2> SUFFICES ASSUME phase \in {"flushing", "closing"}, NEW i \in 1..Len(r), i > awaited
               PROVE  r[i].write.table = "companionMemory"
    BY <1>3, <1>4 DEF OnlyLateBehind
  <2>1. CASE i = Len(queue) + 1
    BY <2>1, <1>2
  <2>2. CASE i # Len(queue) + 1
    BY <2>2, <1>1, <1>2 DEF StoreInv, OnlyLateBehind
  <2> QED BY <2>1, <2>2
<1>10. NoOrphansAhead'
  <2> SUFFICES ASSUME ~everSpoilt
               PROVE  ~spoilt /\ NoOrphans(db) /\ NoOrphans(mem') /\ \A i \in 1..Len(r) : NoOrphans(r[i].after)
    BY <1>3, <1>4 DEF NoOrphansAhead, NoOrphans
  <2>1. ~spoilt /\ NoOrphans(db) /\ NoOrphans(mem')
    BY <1>3 DEF StoreInv, NoOrphansAhead
  <2>2. ASSUME NEW i \in 1..Len(r) PROVE NoOrphans(r[i].after)
    <3>1. CASE i = Len(queue) + 1
      BY <3>1, <1>2
    <3>2. CASE i # Len(queue) + 1
      BY <3>2, <1>1, <1>2 DEF StoreInv, NoOrphansAhead
    <3> QED BY <3>1, <3>2
  <2> QED BY <2>1, <2>2
<1> QED BY <1>6, <1>7, <1>8, <1>9, <1>10 DEF StoreInv

LEMMA LogRequestStep == ASSUME StoreInv, LogRequest PROVE StoreInv'
<1> DEFINE w == Write("requestLog", "create", Row(seq', stamp))
<1>1. phase = "serving" /\ seq' = seq + 1 /\ seq \in Nat /\ stamp \in Nat /\ mem \in Stores /\ Issue(w)
  BY MaxWritesAssumption DEF LogRequest, StoreInv, StoreTypeOK
<1>2. w \in Writes /\ w.table = "requestLog"
  <2>1. Row(seq', stamp) \in Rows
    BY <1>1, RowTyped DEF KeyTypes, ValTypes
  <2> QED BY <2>1, WriteTyped DEF Tables, Write
<1> HIDE DEF w
<1>3. ~everSpoilt => NoOrphans(Apply(w, mem))
  BY <1>1, <1>2, OtherTables DEF StoreInv, NoOrphansAhead, Up
<1> QED BY <1>1, <1>2, <1>3, IssueStep DEF Up

LEMMA RememberStep == ASSUME StoreInv, NEW companion \in Companions, Remember(companion) PROVE StoreInv'
<1> DEFINE w == Write("companionMemory", "upsert", Row(companion, stamp))
<1>1. phase # "down" /\ seq' \in Nat /\ stamp \in Nat /\ mem \in Stores /\ Issue(w)
  BY MaxWritesAssumption DEF Remember, StoreInv, StoreTypeOK
<1>2. w \in Writes /\ w.table = "companionMemory"
  <2>1. Row(companion, stamp) \in Rows
    BY <1>1, RowTyped DEF KeyTypes, ValTypes
  <2> QED BY <2>1, WriteTyped DEF Tables, Write
<1> HIDE DEF w
<1>3. ~everSpoilt => NoOrphans(Apply(w, mem))
  BY <1>1, <1>2, OtherTables DEF StoreInv, NoOrphansAhead, Up
<1> QED BY <1>1, <1>2, <1>3, IssueStep DEF Up

LEMMA LoginStep == ASSUME StoreInv, NEW email \in Emails, Login(email) PROVE StoreInv'
<1> DEFINE row == Row(stamp, email)
<1>1. /\ phase = "serving" /\ seq' \in Nat /\ stamp \in Nat /\ mem \in Stores
      /\ email \in KeysOf(mem["user"]) /\ Issue(Write("session", "create", row))
  BY MaxWritesAssumption DEF Login, StoreInv, StoreTypeOK
<1>2. row \in Rows /\ row.val = email
  BY <1>1, RowTyped DEF KeyTypes, ValTypes, Row
<1> HIDE DEF row
<1>3. Write("session", "create", row) \in Writes
  BY <1>2, WriteTyped DEF Tables
<1>4. ~everSpoilt => NoOrphans(Apply(Write("session", "create", row), mem))
  BY <1>1, <1>2, SessionsArrive DEF StoreInv, NoOrphansAhead, Up
<1> QED BY <1>1, <1>3, <1>4, IssueStep DEF Up

LEMMA EndSessionStep == ASSUME StoreInv, NEW session \in mem["session"], EndSession(session) PROVE StoreInv'
<1>1. /\ phase = "serving" /\ seq' \in Nat /\ mem \in Stores
      /\ Issue(Write("session", "delete", session))
  BY DEF EndSession, StoreInv, StoreTypeOK
<1>2. session \in Rows
  BY <1>1 DEF Stores, Tables
<1>3. Write("session", "delete", session) \in Writes
  BY <1>2, WriteTyped DEF Tables
<1>4. ~everSpoilt => NoOrphans(Apply(Write("session", "delete", session), mem))
  BY <1>1, <1>2, SessionsEnd DEF StoreInv, NoOrphansAhead, Up
<1> QED BY <1>1, <1>3, <1>4, IssueStep DEF Up

LEMMA SignupStep == ASSUME StoreInv, NEW email \in Emails, Signup(email) PROVE StoreInv'
<1> USE DEF Up
<1> DEFINE accountRow == Row(email, stamp)
<1> DEFINE sessionRow == Row(stamp, email)
<1> DEFINE account == Write("user", "create", accountRow)
<1> DEFINE session == Write("session", "create", sessionRow)
<1> DEFINE between == Apply(account, mem)
<1> DEFINE first == [write |-> account, after |-> between]
<1> DEFINE second == [write |-> session, after |-> Apply(session, between)]
<1> DEFINE q == Append(queue, first)
<1> DEFINE r == Append(q, second)
<1>1. /\ phase = "serving" /\ stamp + 1 < MaxWrites /\ stamp' = stamp + 2
      /\ mem' = Apply(session, between) /\ queue' = queue \o <<first, second>>
      /\ UNCHANGED <<db, errors, phase, awaited, seq, spoilt, everSpoilt>>
  BY DEF Signup
<1>2. queue \in Seq(Entries) /\ Len(queue) \in Nat /\ mem \in Stores /\ stamp \in Nat
      /\ awaited \in 0..Len(queue) /\ seq \in Nat
  BY MaxWritesAssumption DEF StoreInv, StoreTypeOK, Entries
<1>3. accountRow \in Rows /\ sessionRow \in Rows /\ accountRow.key = email /\ sessionRow.val = email
  BY <1>2, RowTyped DEF KeyTypes, ValTypes, Row
<1> HIDE DEF accountRow, sessionRow
<1>4. account \in Writes /\ session \in Writes
  BY <1>3, WriteTyped DEF Tables
<1>5. between \in Stores
  BY <1>2, <1>4, ApplyTyped
<1>6. Apply(session, between) \in Stores
  BY <1>4, <1>5, ApplyTyped
<1>7. ~everSpoilt => ~spoilt /\ NoOrphans(db) /\ NoOrphans(between) /\ NoOrphans(Apply(session, between))
  <2> SUFFICES ASSUME ~everSpoilt
               PROVE  ~spoilt /\ NoOrphans(db) /\ NoOrphans(between) /\ NoOrphans(Apply(session, between))
    OBVIOUS
  <2>1. ~spoilt /\ NoOrphans(db) /\ NoOrphans(mem)
    BY <1>1 DEF StoreInv, NoOrphansAhead
  <2>2. NoOrphans(between) /\ email \in KeysOf(between["user"])
    BY <2>1, <1>2, <1>3, AccountsArrive
  <2>3. NoOrphans(Apply(session, between))
    BY <2>2, <1>3, <1>5, SessionsArrive
  <2> QED BY <2>1, <2>2, <2>3
<1> HIDE DEF account, session
<1>8. /\ q \in Seq(Entries) /\ Len(q) = Len(queue) + 1 /\ q[Len(queue) + 1].after = between
      /\ \A i \in 1..Len(queue) : q[i] = queue[i]
  BY <1>2, <1>4, Queued
<1>9. Linked(queue, db, mem) => Linked(q, db, between)
  BY <1>2, LinkedAppend
<1> HIDE DEF between
<1>10. queue' = r
  <2>1. first \in Entries /\ second \in Entries
    BY <1>4, <1>5, <1>6 DEF Entries
  <2> HIDE DEF first, second
  <2> QED BY <1>1, <1>2, <2>1
<1> HIDE DEF q
<1>11. /\ r \in Seq(Entries) /\ Len(r) = Len(q) + 1 /\ r[Len(q) + 1].after = Apply(session, between)
       /\ \A i \in 1..Len(q) : r[i] = q[i]
  BY <1>8, <1>4, <1>5, Queued
<1>12. Linked(queue, db, mem) => Linked(r, db, Apply(session, between))
  BY <1>8, <1>9, LinkedAppend
<1> HIDE DEF r
<1>13. StoreTypeOK'
  BY <1>1, <1>2, <1>6, <1>8, <1>10, <1>11, MaxWritesAssumption DEF StoreInv, StoreTypeOK, Entries
<1>14. Mirror'
  BY <1>1, <1>2, <1>10, <1>11, <1>12, MirrorIsLinked DEF StoreInv
<1>15. FailuresTold' /\ OnlyLateBehind' /\ NothingOutlives'
  BY <1>1 DEF StoreInv, FailuresTold, OnlyLateBehind, NothingOutlives
<1>16. NoOrphansAhead'
  <2> SUFFICES ASSUME ~everSpoilt
               PROVE  ~spoilt /\ NoOrphans(db) /\ NoOrphans(mem') /\ \A i \in 1..Len(r) : NoOrphans(r[i].after)
    BY <1>1, <1>10 DEF NoOrphansAhead, NoOrphans
  <2>1. ASSUME NEW i \in 1..Len(r) PROVE NoOrphans(r[i].after)
    <3>1. CASE i = Len(q) + 1
      BY <3>1, <1>7, <1>11
    <3>2. CASE i = Len(q)
      BY <3>2, <1>2, <1>7, <1>8, <1>11
    <3>3. CASE i \in 1..Len(queue)
      <4>1. NoOrphans(queue[i].after)
        BY <3>3, <1>1 DEF StoreInv, NoOrphansAhead
      <4>2. i \in 1..Len(q) /\ r[i] = queue[i]
        BY <3>3, <1>2, <1>8, <1>11
      <4> QED BY <4>1, <4>2
    <3> QED BY <3>1, <3>2, <3>3, <1>2, <1>8, <1>11
  <2> QED BY <2>1, <1>1, <1>7
<1> QED BY <1>13, <1>14, <1>15, <1>16 DEF StoreInv

\* The head of the queue takes Postgres one store further, or it fails, and
\* then this life is spoilt until a flush tells.
LEMMA ExecuteStep ==
  ASSUME StoreInv, NEW applied \in BOOLEAN, NEW failed \in BOOLEAN, ~failed => applied,
         Execute(applied, failed)
  PROVE  StoreInv'
<1> USE DEF Up
<1> DEFINE r == Tail(queue)
<1>1. queue \in Seq(Entries) /\ queue # <<>> /\ db \in Stores /\ mem \in Stores
      /\ awaited \in 0..Len(queue)
  BY DEF Execute, StoreInv, StoreTypeOK, Entries
<1>2. Len(queue) \in Nat \ {0} /\ Head(queue) = queue[1] /\ queue[1] \in Entries
      /\ r \in Seq(Entries) /\ Len(r) = Len(queue) - 1 /\ \A i \in 1..Len(r) : r[i] = queue[i + 1]
  BY <1>1
<1>3. /\ queue' = r /\ db' = (IF applied THEN Apply(queue[1].write, db) ELSE db)
      /\ errors' = (errors \/ failed) /\ spoilt' = (spoilt \/ failed)
      /\ everSpoilt' = (everSpoilt \/ failed)
      /\ UNCHANGED <<mem, phase, seq, stamp>>
  BY <1>2 DEF Execute
<1>4. awaited' \in 0..Len(r) /\ \A i \in 1..Len(r) : i > awaited' => i + 1 > awaited
  <2>1. awaited' = IF awaited = 0 THEN 0 ELSE awaited - 1
    BY DEF Execute, Settled
  <2> QED BY <2>1, <1>1, <1>2
<1>5. {errors, spoilt, everSpoilt} \subseteq BOOLEAN /\ (errors => spoilt) /\ (phase # "down" => spoilt = errors)
  BY DEF StoreInv, StoreTypeOK, FailuresTold
<1>6. {errors', spoilt', everSpoilt'} \subseteq BOOLEAN /\ (errors' => spoilt')
      /\ (phase' # "down" => spoilt' = errors') /\ (~spoilt' => ~spoilt /\ ~failed)
      /\ (~everSpoilt' => ~everSpoilt /\ ~failed)
  BY <1>3, <1>5, Zenon
<1>7. Linked(queue, db, mem) =>
        Apply(queue[1].write, db) = queue[1].after /\ Linked(r, queue[1].after, mem)
  BY <1>1, <1>2, LinkedTail
<1>8. db' \in Stores
  BY <1>1, <1>2, <1>3, ApplyTyped DEF Entries
<1> HIDE DEF r
<1>9. StoreTypeOK'
  <2>1. phase' \in {"down", "serving", "flushing", "closing"} /\ seq' \in Nat /\ stamp' \in 0..MaxWrites
    BY <1>3 DEF StoreInv, StoreTypeOK
  <2>2. queue' \in Seq([write : Writes, after : Stores]) /\ awaited' \in 0..Len(queue')
    BY <1>2, <1>3, <1>4 DEF Entries
  <2> QED BY <2>1, <2>2, <1>1, <1>3, <1>6, <1>8 DEF StoreTypeOK
<1>10. Mirror'
  <2> SUFFICES ASSUME phase' # "down", ~spoilt' PROVE Linked(queue', db', mem')
    BY <1>1, <1>2, <1>3, MirrorIsLinked
  <2>1. Linked(queue, db, mem) /\ applied
    BY <1>1, <1>2, <1>3, <1>6, MirrorIsLinked DEF StoreInv
  <2> QED BY <2>1, <1>3, <1>7
<1>11. FailuresTold' /\ NothingOutlives'
  BY <1>1, <1>3, <1>6 DEF StoreInv, FailuresTold, NothingOutlives
<1>12. OnlyLateBehind'
  <2> SUFFICES ASSUME phase \in {"flushing", "closing"}, NEW i \in 1..Len(r), i > awaited'
               PROVE  r[i].write.table = "companionMemory"
    BY <1>3 DEF OnlyLateBehind
  <2>1. i + 1 \in 1..Len(queue) /\ i + 1 > awaited
    BY <1>2, <1>4
  <2> QED BY <2>1, <1>2 DEF StoreInv, OnlyLateBehind
<1>13. NoOrphansAhead'
  <2> SUFFICES ASSUME ~everSpoilt'
               PROVE  /\ ~spoilt' /\ NoOrphans(db')
                      /\ phase # "down" => NoOrphans(mem) /\ \A i \in 1..Len(r) : NoOrphans(r[i].after)
    BY <1>3 DEF NoOrphansAhead, NoOrphans
  <2>1. ~everSpoilt /\ ~failed /\ ~spoilt /\ ~spoilt' /\ applied
    BY <1>3, <1>5, <1>6 DEF StoreInv, NoOrphansAhead
  <2>2. phase # "down" => NoOrphans(mem) /\ \A i \in 1..Len(r) : NoOrphans(r[i].after)
    <3>1. \A i \in 1..Len(r) : i + 1 \in 1..Len(queue)
      BY <1>2
    <3> QED BY <2>1, <3>1, <1>2 DEF StoreInv, NoOrphansAhead
  <2>3. NoOrphans(db')
    <3>1. phase # "down"
      BY <1>1 DEF StoreInv, NothingOutlives
    <3>2. Apply(queue[1].write, db) = queue[1].after
      BY <3>1, <2>1, <1>1, <1>2, <1>3, <1>7, MirrorIsLinked DEF StoreInv
    <3>3. NoOrphans(queue[1].after)
      BY <3>1, <2>1, <1>2 DEF StoreInv, NoOrphansAhead
    <3> QED BY <3>2, <3>3, <2>1, <1>3
  <2> QED BY <2>1, <2>2, <2>3
<1> QED BY <1>9, <1>10, <1>11, <1>12, <1>13 DEF StoreInv

LEMMA RunWriteStep == ASSUME StoreInv, RunWrite PROVE StoreInv'
<1>1. CASE queue # <<>> /\ ~Refused(Head(queue).write) /\ Execute(TRUE, FALSE)
  BY <1>1, ExecuteStep
<1>2. CASE queue # <<>> /\ Refused(Head(queue).write) /\ Execute(FALSE, TRUE)
  BY <1>2, ExecuteStep
<1>3. CASE Faults /\ queue # <<>> /\ \E applied \in {FALSE, ~Refused(Head(queue).write)} : Execute(applied, TRUE)
  <2>1. PICK applied \in {FALSE, ~Refused(Head(queue).write)} : Execute(applied, TRUE)
    BY <1>3
  <2>2. applied \in BOOLEAN
    BY <2>1 DEF Refused
  <2> QED BY <2>1, <2>2, ExecuteStep
<1> QED BY <1>1, <1>2, <1>3 DEF RunWrite

LEMMA BootStep == ASSUME StoreInv, Boot PROVE StoreInv'
<1>1. /\ phase' = "serving" /\ mem' = db /\ queue' = <<>> /\ errors' = FALSE /\ awaited' = 0
      /\ seq' = 0 /\ spoilt' = FALSE /\ UNCHANGED <<db, stamp, everSpoilt>>
  BY DEF Boot
<1>2. queue' \in Seq(Entries) /\ Len(queue') = 0 /\ queue \in Seq(Entries) /\ db \in Stores
  BY <1>1 DEF StoreInv, StoreTypeOK, Entries
<1>3. StoreTypeOK'
  <2>1. {errors', spoilt', everSpoilt'} \subseteq BOOLEAN /\ (errors' => spoilt')
    BY <1>1, Zenon DEF StoreInv, StoreTypeOK
  <2>2. phase' = "serving" /\ awaited' \in 0..Len(queue') /\ seq' \in Nat /\ stamp' \in 0..MaxWrites
    BY <1>1, <1>2 DEF StoreInv, StoreTypeOK
  <2> QED BY <2>1, <2>2, <1>1, <1>2 DEF StoreTypeOK, Entries
<1>4. Mirror'
  BY <1>1, <1>2, NothingLinked, MirrorIsLinked
<1>5. FailuresTold' /\ OnlyLateBehind' /\ NothingOutlives'
  BY <1>1 DEF FailuresTold, OnlyLateBehind, NothingOutlives, Up
<1>6. NoOrphansAhead'
  BY <1>1, <1>2 DEF StoreInv, NoOrphansAhead, NoOrphans, Up
<1> QED BY <1>3, <1>4, <1>5, <1>6 DEF StoreInv

\* A flush waits for everything that is queued: nothing is left behind it.
LEMMA FlushStep ==
  ASSUME StoreInv, NEW next \in {"flushing", "closing"}, Flush(next), Up,
         UNCHANGED <<db, mem, queue, errors, seq, stamp, spoilt, everSpoilt>>
  PROVE  StoreInv'
<1> USE DEF Up
<1>1. phase' = next /\ awaited' = Len(queue) /\ queue \in Seq(Entries) /\ Len(queue) \in Nat
  BY DEF Flush, StoreInv, StoreTypeOK, Entries
<1>2. StoreTypeOK'
  BY <1>1 DEF StoreInv, StoreTypeOK
<1>3. Mirror'
  BY <1>1, MirrorIsLinked DEF StoreInv
<1>4. FailuresTold' /\ NothingOutlives'
  BY <1>1 DEF StoreInv, FailuresTold, NothingOutlives
<1>5. OnlyLateBehind'
  BY <1>1 DEF OnlyLateBehind
<1>6. NoOrphansAhead'
  BY <1>1 DEF StoreInv, NoOrphansAhead, NoOrphans
<1> QED BY <1>2, <1>3, <1>4, <1>5, <1>6 DEF StoreInv

\* An exit leaves Postgres as it is, or with the write that was under way.
LEMMA ExitStep ==
  ASSUME StoreInv, Exit, Up, UNCHANGED spoilt,
         \/ UNCHANGED db
         \/ queue # <<>> /\ db' = Apply(Head(queue).write, db)
  PROVE  StoreInv'
<1> USE DEF Up
<1>1. /\ phase' = "down" /\ mem' = Empty /\ queue' = <<>> /\ errors' = FALSE /\ awaited' = 0
      /\ UNCHANGED <<seq, stamp, everSpoilt, spoilt>>
  BY DEF Exit
<1>2. queue \in Seq(Entries) /\ Len(queue) \in Nat /\ Len(queue') = 0 /\ db \in Stores
  BY <1>1 DEF StoreInv, StoreTypeOK, Entries
<1>3. queue # <<>> => Head(queue) = queue[1] /\ queue[1] \in Entries /\ 1 \in 1..Len(queue)
  BY <1>2
<1>4. db' \in Stores
  BY <1>2, <1>3, ApplyTyped DEF Entries
<1>5. StoreTypeOK'
  <2>1. {errors', spoilt', everSpoilt'} \subseteq BOOLEAN /\ (errors' => spoilt')
    BY <1>1, Zenon DEF StoreInv, StoreTypeOK
  <2>2. phase' = "down" /\ awaited' \in 0..Len(queue') /\ seq' \in Nat /\ stamp' \in 0..MaxWrites
    BY <1>1, <1>2 DEF StoreInv, StoreTypeOK
  <2> QED BY <2>1, <2>2, <1>1, <1>4, EmptyStore DEF StoreTypeOK
<1>6. Mirror' /\ FailuresTold' /\ OnlyLateBehind' /\ NothingOutlives'
  BY <1>1 DEF Mirror, FailuresTold, OnlyLateBehind, NothingOutlives
<1>7. NoOrphansAhead'
  <2> SUFFICES ASSUME ~everSpoilt PROVE ~spoilt /\ NoOrphans(db')
    BY <1>1 DEF NoOrphansAhead, NoOrphans
  <2>1. ~spoilt /\ NoOrphans(db)
    BY DEF StoreInv, NoOrphansAhead
  <2>2. CASE UNCHANGED db
    BY <2>1, <2>2
  <2>3. CASE queue # <<>> /\ db' = Apply(Head(queue).write, db)
    <3>1. Linked(queue, db, mem)
      BY <2>1, <1>1, <1>2, MirrorIsLinked DEF StoreInv
    <3>2. db' = queue[1].after
      BY <3>1, <2>3, <1>2, <1>3, LinkedTail
    <3>3. NoOrphans(queue[1].after)
      BY <2>3, <1>3 DEF StoreInv, NoOrphansAhead
    <3> QED BY <2>1, <3>2, <3>3
  <2> QED BY <2>2, <2>3
<1> QED BY <1>5, <1>6, <1>7 DEF StoreInv

LEMMA ProcessStep ==
  ASSUME StoreInv, Shutdown \/ FlushReturns \/ ExitClean \/ FlushThrows \/ Die
  PROVE  StoreInv'
<1>1. CASE Shutdown
  BY <1>1, FlushStep DEF Shutdown, Up
<1>2. CASE FlushReturns
  BY <1>2, FlushStep DEF FlushReturns, Up
<1>3. CASE ExitClean
  BY <1>3, ExitStep DEF ExitClean, Up
<1>4. CASE FlushThrows
  BY <1>4, ExitStep DEF FlushThrows, Up
<1>5. CASE Die
  BY <1>5, ExitStep DEF Die, Up
<1> QED BY <1>1, <1>2, <1>3, <1>4, <1>5

LEMMA StutterStep == ASSUME StoreInv, UNCHANGED storeVars PROVE StoreInv'
<1>1. queue \in Seq(Entries)
  BY DEF StoreInv, StoreTypeOK, Entries
<1>2. Mirror'
  BY <1>1, MirrorIsLinked DEF StoreInv, storeVars, life
<1>3. StoreTypeOK'
  BY DEF StoreInv, StoreTypeOK, storeVars, life
<1>4. FailuresTold' /\ OnlyLateBehind' /\ NothingOutlives' /\ NoOrphansAhead'
  BY DEF StoreInv, FailuresTold, OnlyLateBehind, NothingOutlives, NoOrphansAhead, NoOrphans, Up, storeVars, life
<1> QED BY <1>2, <1>3, <1>4 DEF StoreInv

LEMMA StoreStep == StoreInv /\ [StoreNext]_storeVars => StoreInv'
<1> SUFFICES ASSUME StoreInv, [StoreNext]_storeVars PROVE StoreInv'
  OBVIOUS
<1>1. CASE LogRequest
  BY <1>1, LogRequestStep
<1>2. CASE \E email \in Emails : Signup(email) \/ Login(email)
  BY <1>2, SignupStep, LoginStep
<1>3. CASE \E session \in mem["session"] : EndSession(session)
  BY <1>3, EndSessionStep
<1>4. CASE \E companion \in Companions : Remember(companion)
  BY <1>4, RememberStep
<1>5. CASE RunWrite
  BY <1>5, RunWriteStep
<1>6. CASE Boot
  BY <1>6, BootStep
<1>7. CASE Shutdown \/ FlushReturns \/ ExitClean \/ FlushThrows \/ Die
  BY <1>7, ProcessStep
<1>8. CASE UNCHANGED storeVars
  BY <1>8, StutterStep
<1> QED BY <1>1, <1>2, <1>3, <1>4, <1>5, <1>6, <1>7, <1>8 DEF StoreNext

LEMMA StoreInvariant == StoreSpec => []StoreInv
<1> QED BY StoreStarts, StoreStep, PTL DEF StoreSpec

-----------------------------------------------------------------------------
(* Theorems. *)

\* The store, the projections and the queue keep their types, a flush never
\* waits for more than is queued, and a failed write marks its life.
THEOREM StoreTypes == StoreSpec => []StoreTypeOK
<1>1. StoreInv => StoreTypeOK
  BY DEF StoreInv
<1> QED BY <1>1, StoreInvariant, PTL

\* While no write failed, Postgres is where the queue, run to its end, makes it
\* what every reader sees (prisma_repos.ts, WriteQueue).
THEOREM QueueMirrors == StoreSpec => []Mirror
<1>1. StoreInv => Mirror
  BY DEF StoreInv
<1> QED BY <1>1, StoreInvariant, PTL

\* Wherever crashes cut the queue off, no session is in Postgres without its
\* account (auth/service.ts stores the account first).
THEOREM AccountsComeFirst == StoreSpec => []NoOrphanSession
<1>1. StoreInv => NoOrphanSession
  BY DEF StoreInv, NoOrphansAhead, NoOrphanSession
<1> QED BY <1>1, StoreInvariant, PTL

\* What is left of the queue when the process exits in order: writes nobody waits for.
Drained == ~spoilt /\ \A i \in 1..Len(queue) : queue[i].write.table = "companionMemory"

LEMMA CleanExitStep == StoreInv /\ [StoreNext]_storeVars => [ExitClean => Drained]_storeVars
<1> SUFFICES ASSUME StoreInv, ExitClean PROVE Drained
  OBVIOUS
<1>1. phase = "closing" /\ awaited = 0 /\ ~errors
  BY DEF ExitClean
<1>2. ~spoilt
  BY <1>1 DEF StoreInv, FailuresTold, Up
<1>3. ASSUME NEW i \in 1..Len(queue) PROVE queue[i].write.table = "companionMemory"
  BY <1>1 DEF StoreInv, OnlyLateBehind
<1> QED BY <1>2, <1>3 DEF Drained

\* A process that says "flushed and closed" lost no write it had accepted
\* before it began to close (cli.ts, shutdown).
THEOREM FlushedMeansDurable == StoreSpec => CleanExitIsDurable
<1>1. StoreSpec => [][ExitClean => Drained]_storeVars
  BY CleanExitStep, StoreInvariant, PTL DEF StoreSpec
<1> QED BY <1>1, PTL DEF CleanExitIsDurable, Drained

-----------------------------------------------------------------------------
(* Projections: what every read of memory will find in Postgres. *)

Recs == [key : Nat \ {0}, mark : Marks, body : Bodies, time : Nat]
Filed == [key : Nat \ {0}, mark : Marks, body : {"said", "null"}, time : Nat]
WriteOps == [op : {"create", "upsert"}, row : Recs]
Ops == WriteOps \cup [op : {"delete", "clear"}, row : [key : Nat, mark : {0}, body : {0}, time : {0}]]
Of(line) == {line[i] : i \in DOMAIN line}

\* A row as it is read back, and as any read may answer it.
Back(cell) == [cell EXCEPT !.body = FromColumn(@)]
Told(this, row) == IF this.time = "kept" THEN row ELSE [row EXCEPT !.time = 0]
Answers(this, set) == {Told(this, r) : r \in set}

\* The rows there are when the write at j is the next, when those before it are done:
\* those that a write at i brought, or the table (at 0), and no later one took.
Brought(this, q, t, i) ==
  IF i = 0 THEN Answers(this, {Back(cell) : cell \in t})
  ELSE IF q[i] \in WriteOps THEN {Told(this, q[i].row)} ELSE {}
Takes(op, key) == op.op = "clear" \/ op.row.key = key
Overtaken(q, i, j, key) == \E l \in 1..Len(q) : i < l /\ l < j /\ Takes(q[l], key)
Left(this, q, t, j) ==
  {r \in Recs : \E i \in 0..Len(q) : i < j /\ r \in Brought(this, q, t, i) /\ ~Overtaken(q, i, j, r.key)}
Following(this, op, set) ==
  IF op.op = "clear" THEN {}
  ELSE {r \in set : r.key # op.row.key} \cup (IF op \in WriteOps THEN {Told(this, op.row)} ELSE {})

\* A write that Postgres will refuse.
Bars(this, op, set) ==
  \/ op.op = "create" /\ \E r \in set : r.key = op.row.key
  \/ /\ op.op \in {"create", "upsert"} /\ this.unique
     /\ \E r \in set : r.mark = op.row.mark /\ r.key # op.row.key
Doomed(this, q, t) == \E j \in 1..Len(q) : Bars(this, q[j], Left(this, q, t, j))

LEMMA ToldIs ==
  ASSUME NEW this, NEW row \in Recs
  PROVE  /\ Told(this, row) \in Recs /\ Told(this, row).key = row.key
         /\ Told(this, row).mark = row.mark
BY DEF Recs, Told

LEMMA BackIs ==
  ASSUME NEW cell \in Filed
  PROVE  Back(cell) \in Recs /\ Back(cell).key = cell.key /\ Back(cell).mark = cell.mark /\ Back(cell).time = cell.time
BY DEF Filed, Recs, Back, FromColumn, Bodies

LEMMA OpIs ==
  ASSUME NEW op \in Ops
  PROVE  /\ op.row.key \in Nat /\ op.op \in {"create", "upsert", "delete", "clear"}
         /\ op \in WriteOps => op.row \in Recs /\ op.op \in {"create", "upsert"}
         /\ op \notin WriteOps => op.op \in {"delete", "clear"}
<1>1. CASE op \in WriteOps
  BY <1>1 DEF WriteOps, Recs
<1>2. CASE op \notin WriteOps
  BY <1>2 DEF Ops
<1> QED BY <1>1, <1>2

LEMMA BroughtIs ==
  ASSUME NEW this, NEW q \in Seq(Ops), NEW t \in SUBSET Filed, NEW i \in 0..Len(q)
  PROVE  Brought(this, q, t, i) \subseteq Recs
<1>1. CASE i = 0
  BY <1>1, ToldIs, BackIs DEF Brought, Answers
<1>2. CASE i # 0
  <2>1. q[i] \in Ops
    BY <1>2, LenProperties
  <2> QED BY <1>2, <2>1, OpIs, ToldIs DEF Brought
<1> QED BY <1>1, <1>2

LEMMA LeftFirst ==
  ASSUME NEW this, NEW q \in Seq(Ops), NEW t \in SUBSET Filed
  PROVE  Left(this, q, t, 1) = Answers(this, {Back(cell) : cell \in t})
<1>1. PICK n \in Nat : n = Len(q)
  BY LenProperties
<1>2. \A i \in 0..n : i < 1 <=> i = 0
  OBVIOUS
<1>3. 0 \in 0..n /\ \A key : ~Overtaken(q, 0, 1, key)
  BY <1>1 DEF Overtaken
<1>4. Brought(this, q, t, 0) \subseteq Recs
  BY <1>1, <1>3, BroughtIs
<1>5. Left(this, q, t, 1) = Brought(this, q, t, 0)
  BY <1>1, <1>2, <1>3, <1>4 DEF Left
<1> QED BY <1>5 DEF Brought

LEMMA LeftNext ==
  ASSUME NEW this, NEW q \in Seq(Ops), NEW t \in SUBSET Filed, NEW j \in 1..Len(q)
  PROVE  Left(this, q, t, j + 1) = Following(this, q[j], Left(this, q, t, j))
<1>1. PICK n \in Nat, op \in Ops : n = Len(q) /\ op = q[j]
  BY LenProperties
<1>2. ASSUME NEW i \in 0..n, NEW key
      PROVE  Overtaken(q, i, j + 1, key) <=> Overtaken(q, i, j, key) \/ (i < j /\ Takes(op, key))
  <2>1. \A l \in 1..n : l < j + 1 <=> l < j \/ l = j
    BY <1>1
  <2> QED BY <1>1, <2>1 DEF Overtaken
<1>3. \A i \in 0..n : i < j + 1 <=> i < j \/ i = j
  BY <1>1
<1>4. \A key : ~Overtaken(q, j, j + 1, key)
  BY <1>1 DEF Overtaken
<1>5. j \in 0..n /\ j # 0
  BY <1>1
<1>6. Brought(this, q, t, j) = IF op \in WriteOps THEN {Told(this, op.row)} ELSE {}
  BY <1>1, <1>5 DEF Brought
<1>7. Brought(this, q, t, j) \subseteq Recs
  BY <1>1, <1>5, BroughtIs
<1>8. ASSUME NEW r \in Recs
      PROVE  r \in Left(this, q, t, j + 1) <=>
               (r \in Left(this, q, t, j) /\ ~Takes(op, r.key)) \/ r \in Brought(this, q, t, j)
  <2>1. r \in Left(this, q, t, j + 1) <=>
          \E i \in 0..n : i < j + 1 /\ r \in Brought(this, q, t, i) /\ ~Overtaken(q, i, j + 1, r.key)
    BY <1>1 DEF Left
  <2>2. r \in Left(this, q, t, j) <=>
          \E i \in 0..n : i < j /\ r \in Brought(this, q, t, i) /\ ~Overtaken(q, i, j, r.key)
    BY <1>1 DEF Left
  <2> QED BY <1>2, <1>3, <1>4, <1>5, <2>1, <2>2
<1>9. Left(this, q, t, j) \subseteq Recs /\ Left(this, q, t, j + 1) \subseteq Recs
  BY DEF Left
<1>10. op \in WriteOps => op.op # "clear"
  BY OpIs
<1> HIDE DEF Brought
<1>11. CASE op.op = "clear"
  <2>1. \A r \in Recs : r \notin Left(this, q, t, j + 1)
    BY <1>6, <1>8, <1>10, <1>11 DEF Takes
  <2> QED BY <1>1, <1>9, <1>11, <2>1 DEF Following
<1>12. CASE op.op # "clear"
  <2>1. \A r \in Recs : r \in Left(this, q, t, j + 1) <=>
          (r \in Left(this, q, t, j) /\ r.key # op.row.key) \/ r \in Brought(this, q, t, j)
    BY <1>8, <1>12 DEF Takes
  <2>2. Left(this, q, t, j + 1) = {r \in Left(this, q, t, j) : r.key # op.row.key} \cup Brought(this, q, t, j)
    BY <1>7, <1>9, <2>1
  <2> QED BY <1>1, <1>6, <1>12, <2>2 DEF Following
<1> QED BY <1>11, <1>12

\* A write at the end changes nothing of what there is before it.
LEMMA LeftKept ==
  ASSUME NEW this, NEW q \in Seq(Ops), NEW t \in SUBSET Filed, NEW op \in Ops, NEW j \in 1..(Len(q) + 1)
  PROVE  Left(this, Append(q, op), t, j) = Left(this, q, t, j)
<1>0. PICK n \in Nat : n = Len(q)
  BY LenProperties
<1>1. PICK more : n = Len(q) /\ more = Append(q, op)
  BY <1>0
<1>2. Len(more) = n + 1 /\ \A i \in 1..n : more[i] = q[i]
  BY <1>1, AppendProperties
<1>3. j \in 1..(n + 1)
  BY <1>1
<1>4. \A i \in 0..n : Brought(this, more, t, i) = Brought(this, q, t, i)
  <2> SUFFICES ASSUME NEW i \in 0..n PROVE Brought(this, more, t, i) = Brought(this, q, t, i)
    OBVIOUS
  <2>1. i = 0 \/ i \in 1..n
    OBVIOUS
  <2> QED BY <1>2, <2>1 DEF Brought
<1>5. \A i \in 0..n : \A key : Overtaken(more, i, j, key) <=> Overtaken(q, i, j, key)
  <2> SUFFICES ASSUME NEW i \in 0..n, NEW key PROVE Overtaken(more, i, j, key) <=> Overtaken(q, i, j, key)
    OBVIOUS
  <2>1. \A l \in 1..(n + 1) : l < j => l \in 1..n
    BY <1>3
  <2>2. \A l \in 1..n : l \in 1..(n + 1)
    OBVIOUS
  <2> QED BY <1>1, <1>2, <2>1, <2>2 DEF Overtaken
<1>6. \A i \in 0..(n + 1) : i < j => i \in 0..n
  BY <1>3
<1>7. \A i \in 0..n : i \in 0..(n + 1)
  OBVIOUS
<1> QED BY <1>1, <1>2, <1>4, <1>5, <1>6, <1>7 DEF Left

\* The first write is executed: the others find what they would have found.
LEMMA LeftShifts ==
  ASSUME NEW this, NEW q \in Seq(Ops), NEW t \in SUBSET Filed, q # <<>>, NEW u \in SUBSET Filed,
         Brought(this, Tail(q), u, 0) = Following(this, q[1], Brought(this, q, t, 0)), NEW j \in 1..Len(q)
  PROVE  Left(this, Tail(q), u, j) = Left(this, q, t, j + 1)
<1>0. PICK n \in Nat, m \in Nat : n = Len(q) /\ m + 1 = n
  <2>1. Len(q) \in Nat /\ Len(q) # 0
    BY LenProperties, EmptySeq
  <2>2. Len(q) - 1 \in Nat /\ (Len(q) - 1) + 1 = Len(q)
    BY <2>1
  <2> QED BY <2>1, <2>2
<1>1. PICK rest : n = Len(q) /\ m + 1 = n /\ rest = Tail(q)
  BY <1>0
<1>2. rest \in Seq(Ops) /\ Len(rest) = m /\ \A i \in 1..m : rest[i] = q[i + 1]
  BY <1>1, HeadTailProperties
<1>3. PICK op \in Ops : op = q[1]
  <2>1. 1 \in DOMAIN q
    BY <1>1, LenProperties
  <2> QED BY <2>1
<1>4. j \in 1..n
  BY <1>1
<1>5. ASSUME NEW i \in 0..m, NEW key PROVE Overtaken(rest, i, j, key) <=> Overtaken(q, i + 1, j + 1, key)
  <2>1. ASSUME NEW l \in 1..m PROVE l + 1 \in 1..n /\ (i < l <=> i + 1 < l + 1) /\ (l < j <=> l + 1 < j + 1)
    BY <1>1, <1>4
  <2>2. ASSUME NEW l \in 1..n, i + 1 < l PROVE l - 1 \in 1..m /\ (l - 1) + 1 = l
    BY <1>1, <2>2
  <2>3. ASSUME Overtaken(rest, i, j, key) PROVE Overtaken(q, i + 1, j + 1, key)
    <3>1. PICK l \in 1..m : i < l /\ l < j /\ Takes(rest[l], key)
      BY <1>2, <2>3 DEF Overtaken
    <3>2. l + 1 \in 1..n /\ i + 1 < l + 1 /\ l + 1 < j + 1 /\ Takes(q[l + 1], key)
      BY <1>2, <2>1, <3>1
    <3> QED BY <1>1, <3>2 DEF Overtaken
  <2>4. ASSUME Overtaken(q, i + 1, j + 1, key) PROVE Overtaken(rest, i, j, key)
    <3>1. PICK l \in 1..n : i + 1 < l /\ l < j + 1 /\ Takes(q[l], key)
      BY <1>1, <2>4 DEF Overtaken
    <3>2. PICK k \in 1..m : k + 1 = l
      BY <2>2, <3>1
    <3>3. i < k /\ k < j /\ Takes(rest[k], key)
      BY <1>2, <2>1, <3>1, <3>2
    <3> QED BY <1>2, <3>3 DEF Overtaken
  <2> QED BY <2>3, <2>4
<1>6. ASSUME NEW i \in 1..m PROVE Brought(this, rest, u, i) = Brought(this, q, t, i + 1)
  <2>1. i # 0 /\ i + 1 # 0
    OBVIOUS
  <2> QED BY <1>2, <2>1 DEF Brought
<1>7. ASSUME NEW key PROVE Overtaken(q, 0, j + 1, key) <=> Takes(op, key) \/ Overtaken(q, 1, j + 1, key)
  <2>1. \A l \in 1..n : (0 < l <=> l = 1 \/ 1 < l) /\ (l = 1 => l < j + 1)
    BY <1>4
  <2>2. 1 \in 1..n
    BY <1>1
  <2> QED BY <1>1, <1>3, <2>1, <2>2 DEF Overtaken
<1>8. Brought(this, q, t, 1) = IF op \in WriteOps THEN {Told(this, op.row)} ELSE {}
  BY <1>3 DEF Brought
<1>9. ASSUME NEW r \in Recs
      PROVE  r \in Brought(this, rest, u, 0) <=>
               (r \in Brought(this, q, t, 0) /\ ~Takes(op, r.key)) \/ r \in Brought(this, q, t, 1)
  <2>1. Brought(this, rest, u, 0) = Following(this, op, Brought(this, q, t, 0))
    BY <1>1, <1>3
  <2>2. op \in WriteOps => op.op # "clear"
    BY OpIs
  <2> HIDE DEF Brought
  <2> QED BY <1>8, <2>1, <2>2 DEF Following, Takes
<1> HIDE DEF Brought
<1>10. ASSUME NEW r \in Recs
       PROVE  r \in Left(this, rest, u, j) <=> r \in Left(this, q, t, j + 1)
  <2>1. r \in Left(this, rest, u, j) <=>
          \E i \in 0..m : i < j /\ r \in Brought(this, rest, u, i) /\ ~Overtaken(q, i + 1, j + 1, r.key)
    BY <1>2, <1>5 DEF Left
  <2>2. r \in Left(this, q, t, j + 1) <=>
          \E i \in 0..n : i < j + 1 /\ r \in Brought(this, q, t, i) /\ ~Overtaken(q, i, j + 1, r.key)
    BY <1>1 DEF Left
  <2>3. ASSUME r \in Left(this, rest, u, j) PROVE r \in Left(this, q, t, j + 1)
    <3>1. PICK i \in 0..m : i < j /\ r \in Brought(this, rest, u, i) /\ ~Overtaken(q, i + 1, j + 1, r.key)
      BY <2>1, <2>3
    <3>2. CASE i = 0
      <4>1. ~Overtaken(q, 1, j + 1, r.key)
        BY <3>1, <3>2
      <4>2. 0 \in 0..n /\ 1 \in 0..n /\ 0 < j + 1 /\ 1 < j + 1
        BY <1>1, <1>4
      <4>3. CASE r \in Brought(this, q, t, 1)
        BY <2>2, <4>1, <4>2, <4>3
      <4>4. CASE r \in Brought(this, q, t, 0) /\ ~Takes(op, r.key)
        <5>1. ~Overtaken(q, 0, j + 1, r.key)
          BY <1>7, <4>1, <4>4
        <5> QED BY <2>2, <4>2, <4>4, <5>1
      <4> QED BY <1>9, <3>1, <3>2, <4>3, <4>4
    <3>3. CASE i # 0
      <4>1. i \in 1..m /\ i + 1 \in 0..n /\ i + 1 < j + 1
        BY <1>1, <1>4, <3>1, <3>3
      <4>2. r \in Brought(this, q, t, i + 1)
        BY <1>6, <3>1, <4>1
      <4> QED BY <2>2, <3>1, <4>1, <4>2
    <3> QED BY <3>2, <3>3
  <2>4. ASSUME r \in Left(this, q, t, j + 1) PROVE r \in Left(this, rest, u, j)
    <3>1. PICK i \in 0..n : i < j + 1 /\ r \in Brought(this, q, t, i) /\ ~Overtaken(q, i, j + 1, r.key)
      BY <2>2, <2>4
    <3>2. 0 \in 0..m /\ 0 < j /\ 0 + 1 = 1
      BY <1>4
    <3>3. CASE i = 0
      <4>1. ~Takes(op, r.key) /\ ~Overtaken(q, 1, j + 1, r.key)
        BY <1>7, <3>1, <3>3
      <4>2. r \in Brought(this, rest, u, 0)
        BY <1>9, <3>1, <3>3, <4>1
      <4> QED BY <2>1, <3>2, <4>1, <4>2
    <3>4. CASE i = 1
      <4>1. r \in Brought(this, rest, u, 0)
        BY <1>9, <3>1, <3>4
      <4> QED BY <2>1, <3>1, <3>2, <3>4, <4>1
    <3>5. CASE i # 0 /\ i # 1
      <4>1. PICK k \in 1..m : k + 1 = i
        <5>1. i - 1 \in 1..m /\ (i - 1) + 1 = i
          BY <1>1, <3>5
        <5> QED BY <5>1
      <4>2. r \in Brought(this, rest, u, k) /\ k < j /\ k \in 0..m
        BY <1>4, <1>6, <3>1, <4>1
      <4> QED BY <2>1, <3>1, <4>1, <4>2
    <3> QED BY <3>3, <3>4, <3>5
  <2> QED BY <2>3, <2>4
<1> QED BY <1>1, <1>10 DEF Left

-----------------------------------------------------------------------------
(* What the ten differ in, and the rest of the invariant. *)

Minted == {"securityAudit", "likenessUsageEvent", "user", "session", "creatorPersona"}
Second == {"user", "creatorPersona"}

Agrees(this, line, q, t) == ~Doomed(this, q, t) => Answers(this, Of(line)) = Left(this, q, t, Len(q) + 1)
Numbered(line, q, t, most) ==
  /\ \A r \in Of(line) : r.key <= most
  /\ \A j \in 1..Len(q) : q[j] \in WriteOps => q[j].row.key <= most
  /\ \A c \in t : c.key <= most
Keyed(line) == \A i, j \in DOMAIN line : line[i].key = line[j].key => i = j
TableIs(this, t) ==
  /\ \A c, d \in t : c.key = d.key => c = d
  /\ this.unique => \A c, d \in t : c.mark = d.mark => c = d
IndexIs(this, line, known) ==
  IF this.unique /\ ~this.list
  THEN /\ \A r \in Of(line) : known[r.mark] = r.key
       /\ \A m \in Marks : known[m] # 0 => \E r \in Of(line) : r.mark = m /\ r.key = known[m]
  ELSE known = NoIndex
Rises(line) == \A i, j \in DOMAIN line : i < j => line[i].time <= line[j].time
Timed(line, q, t, last) ==
  /\ Rises(line)
  /\ \A r \in Of(line) : r.time <= last
  /\ \A j \in 1..Len(q) : q[j] \in WriteOps => q[j].row.time <= last
  /\ \A c \in t : c.time <= last

ProjTypes ==
  /\ kind \in Kinds /\ rows \in Seq(Recs) /\ pending \in Seq(Ops)
  /\ table \in SUBSET Filed /\ IsFiniteSet(table) /\ index \in [Marks -> Nat]
  /\ saves \in Nat /\ inLife \in Nat /\ now \in Nat /\ refused \in BOOLEAN
ProjInv ==
  /\ ProjTypes
  /\ ~refused => Agrees(This, rows, pending, table)
  /\ kind # "requestLog" => ~refused /\ ~Doomed(This, pending, table)
  /\ kind \in Minted => Numbered(rows, pending, table, saves)
  /\ ~This.list => Keyed(rows)
  /\ TableIs(This, table)
  /\ IndexIs(This, rows, index)
  /\ This.list => Timed(rows, pending, table, now)

\* What a caller sees to before it saves.
Fits(this, k, line, row, most, last) ==
  /\ k \in Minted => row.key <= most
  /\ k # "requestLog" /\ this.write = "create" => \A r \in Of(line) : r.key # row.key
  /\ k \in Second => \A r \in Of(line) : r.mark = row.mark <=> r.key = row.key
  /\ this.list => row.time = last

LEMMA TraitsAre ==
  ASSUME kind \in Kinds
  PROVE  /\ This.list \in BOOLEAN /\ This.unique \in BOOLEAN /\ This.ordered \in BOOLEAN
         /\ This.write \in {"create", "upsert"}
         /\ This.list => This.ordered /\ This.time = "kept" /\ This.write = "create"
         /\ This.unique /\ kind # "requestLog" <=> kind \in Second
         /\ This.unique /\ ~This.list <=> kind \in Second
         /\ This.list <=> kind \in {"requestLog", "securityAudit", "likenessUsageEvent"}
         /\ kind = "session" => This.write = "create"
         /\ kind # "requestLog" /\ This.write = "create" => kind \in Minted
<1>1. kind \in {"requestLog", "nodeIdentity", "securityAudit", "intentArchive", "user", "session",
                "companionMemory", "creatorProfile", "creatorPersona", "likenessUsageEvent"}
  BY DEF Kinds, Bundle
<1>2. /\ Bundle["requestLog"] = RequestLog /\ Bundle["nodeIdentity"] = NodeIdentity
      /\ Bundle["securityAudit"] = SecurityAudit /\ Bundle["intentArchive"] = IntentArchive
      /\ Bundle["user"] = User /\ Bundle["session"] = SessionRows
      /\ Bundle["companionMemory"] = CompanionMemory /\ Bundle["creatorProfile"] = CreatorProfile
      /\ Bundle["creatorPersona"] = CreatorPersona /\ Bundle["likenessUsageEvent"] = LikenessUsage
  BY DEF Bundle
<1>3. CASE kind = "requestLog"
  <2>1. This = RequestLog
    BY <1>2, <1>3 DEF This
  <2> QED BY <2>1, <1>3 DEF RequestLog, Traits, Minted, Second
<1>4. CASE kind = "nodeIdentity"
  <2>1. This = NodeIdentity
    BY <1>2, <1>4 DEF This
  <2> QED BY <2>1, <1>4 DEF NodeIdentity, Traits, Minted, Second
<1>5. CASE kind = "securityAudit"
  <2>1. This = SecurityAudit
    BY <1>2, <1>5 DEF This
  <2> QED BY <2>1, <1>5 DEF SecurityAudit, Traits, Minted, Second
<1>6. CASE kind = "intentArchive"
  <2>1. This = IntentArchive
    BY <1>2, <1>6 DEF This
  <2> QED BY <2>1, <1>6 DEF IntentArchive, Traits, Minted, Second
<1>7. CASE kind = "user"
  <2>1. This = User
    BY <1>2, <1>7 DEF This
  <2> QED BY <2>1, <1>7 DEF User, Traits, Minted, Second
<1>8. CASE kind = "session"
  <2>1. This = SessionRows
    BY <1>2, <1>8 DEF This
  <2> QED BY <2>1, <1>8 DEF SessionRows, Traits, Minted, Second
<1>9. CASE kind = "companionMemory"
  <2>1. This = CompanionMemory
    BY <1>2, <1>9 DEF This
  <2> QED BY <2>1, <1>9 DEF CompanionMemory, Traits, Minted, Second
<1>10. CASE kind = "creatorProfile"
  <2>1. This = CreatorProfile
    BY <1>2, <1>10 DEF This
  <2> QED BY <2>1, <1>10 DEF CreatorProfile, Traits, Minted, Second
<1>11. CASE kind = "creatorPersona"
  <2>1. This = CreatorPersona
    BY <1>2, <1>11 DEF This
  <2> QED BY <2>1, <1>11 DEF CreatorPersona, Traits, Minted, Second
<1>12. CASE kind = "likenessUsageEvent"
  <2>1. This = LikenessUsage
    BY <1>2, <1>12 DEF This
  <2> QED BY <2>1, <1>12 DEF LikenessUsage, Traits, Minted, Second
<1> QED BY <1>1, <1>3, <1>4, <1>5, <1>6, <1>7, <1>8, <1>9, <1>10, <1>11, <1>12

LEMMA ProjStarts == ProjectionInit => ProjInv
<1> SUFFICES ASSUME ProjectionInit PROVE ProjInv
  OBVIOUS
<1>1. /\ kind \in Kinds /\ rows = <<>> /\ index = NoIndex /\ pending = <<>> /\ table = {}
      /\ saves = 0 /\ inLife = 0 /\ now = 0 /\ refused = FALSE
  BY DEF ProjectionInit
<1>2. IsFiniteSet({}) /\ NoIndex \in [Marks -> Nat] /\ Len(<<>>) = 0 /\ DOMAIN <<>> = {}
  BY FS_EmptySet DEF NoIndex
<1>10. <<>> \in Seq(Recs) /\ <<>> \in Seq(Ops) /\ {} \in SUBSET Filed
  BY EmptySeq
<1>3. ProjTypes
  <2> HIDE DEF NoIndex
  <2> QED BY <1>1, <1>2, <1>10 DEF ProjTypes
<1>4. Of(rows) = {}
  BY <1>1, <1>2 DEF Of
<1>5. ~Doomed(This, pending, table)
  BY <1>1, <1>2 DEF Doomed
<1>6. Agrees(This, rows, pending, table)
  <2>1. Left(This, <<>>, {}, 1) = Answers(This, {Back(cell) : cell \in {}})
    BY <1>10, LeftFirst
  <2>2. Len(pending) + 1 = 1
    BY <1>1, <1>2
  <2>3. Left(This, pending, table, Len(pending) + 1) = {}
    BY <1>1, <2>1, <2>2 DEF Answers
  <2> QED BY <1>4, <2>3 DEF Agrees, Answers
<1>7. Numbered(rows, pending, table, saves) /\ Timed(rows, pending, table, now)
  BY <1>1, <1>2, <1>4 DEF Numbered, Timed, Rises
<1>8. Keyed(rows) /\ TableIs(This, table)
  BY <1>1, <1>2 DEF Keyed, TableIs
<1>9. IndexIs(This, rows, index)
  <2>1. \A m \in Marks : index[m] = 0
    BY <1>1 DEF NoIndex
  <2> QED BY <1>1, <1>4, <2>1 DEF IndexIs
<1> QED BY <1>1, <1>3, <1>5, <1>6, <1>7, <1>8, <1>9 DEF ProjInv

LEMMA OfIs ==
  ASSUME NEW line \in Seq(Recs)
  PROVE  \A r \in Of(line) : r \in Recs /\ r.key \in Nat \ {0} /\ r.mark \in Marks /\ r.time \in Nat
<1>1. \A r \in Of(line) : r \in Recs
  BY LenProperties DEF Of
<1> QED BY <1>1 DEF Recs

LEMMA PutIs ==
  ASSUME NEW list \in BOOLEAN, NEW line \in Seq(Recs), NEW row \in Recs
  PROVE  /\ Put(list, line, row) \in Seq(Recs)
         /\ row \in Of(Put(list, line, row))
         /\ \A r : r.key # row.key => (r \in Of(Put(list, line, row)) <=> r \in Of(line))
         /\ ~list => \A r \in Of(Put(list, line, row)) : r.key = row.key => r = row
         /\ list => Put(list, line, row) = Append(line, row)
         /\ ~list /\ Keyed(line) => Keyed(Put(list, line, row))
<1>0. PICK n \in Nat : n = Len(line)
  BY LenProperties
<1>1. PICK new : n = Len(line) /\ new = Put(list, line, row)
  BY <1>0
<1>2. DOMAIN line = 1..n /\ \A i \in 1..n : line[i] \in Recs
  BY <1>1, LenProperties
<1>3. CASE list \/ \A i \in DOMAIN line : line[i].key # row.key
  <2>1. new = Append(line, row)
    BY <1>1, <1>3 DEF Put
  <2>2. new \in Seq(Recs) /\ Len(new) = n + 1 /\ new[n + 1] = row /\ \A i \in 1..n : new[i] = line[i]
    BY <1>1, <2>1, AppendProperties
  <2>3. DOMAIN new = 1..(n + 1)
    BY <2>2, LenProperties
  <2>4. \A i : i \in 1..(n + 1) <=> i \in 1..n \/ i = n + 1
    OBVIOUS
  <2>5. \A r : r \in Of(new) <=> r \in Of(line) \/ r = row
    BY <1>2, <2>2, <2>3, <2>4 DEF Of
  <2>6. ~list => \A i \in 1..n : line[i].key # row.key
    BY <1>2, <1>3
  <2>7. ~list => \A r \in Of(new) : r.key = row.key => r = row
    <3>1. ~list => \A r \in Of(line) : r.key # row.key
      BY <1>2, <2>6 DEF Of
    <3> QED BY <2>5, <3>1
  <2>8. ASSUME ~list, Keyed(line) PROVE Keyed(new)
    <3> SUFFICES ASSUME NEW i \in 1..(n + 1), NEW j \in 1..(n + 1), new[i].key = new[j].key PROVE i = j
      BY <2>3 DEF Keyed
    <3>1. CASE i \in 1..n /\ j \in 1..n
      BY <1>2, <2>2, <2>8, <3>1 DEF Keyed
    <3>2. CASE i = n + 1 /\ j \in 1..n
      BY <2>2, <2>6, <2>8, <3>2
    <3>3. CASE i \in 1..n /\ j = n + 1
      BY <2>2, <2>6, <2>8, <3>3
    <3> QED BY <2>4, <3>1, <3>2, <3>3
  <2> QED BY <1>1, <2>1, <2>2, <2>5, <2>7, <2>8
<1>4. CASE ~list /\ \E i \in DOMAIN line : line[i].key = row.key
  <2>1. new = [i \in DOMAIN line |-> IF line[i].key = row.key THEN row ELSE line[i]]
    BY <1>1, <1>4 DEF Put
  <2>2. DOMAIN new = 1..n /\ \A i \in 1..n : new[i] = IF line[i].key = row.key THEN row ELSE line[i]
    BY <1>2, <2>1
  <2>3. new \in [1..n -> Recs]
    BY <1>2, <2>1
  <2>4. new \in Seq(Recs)
    BY <2>3, SeqDef
  <2>5. PICK w \in 1..n : line[w].key = row.key
    BY <1>2, <1>4
  <2>6. row \in Of(new)
    BY <2>2, <2>5 DEF Of
  <2>7. \A r : r.key # row.key => (r \in Of(new) <=> r \in Of(line))
    BY <1>2, <2>2 DEF Of
  <2>8. \A r \in Of(new) : r.key = row.key => r = row
    BY <2>2 DEF Of
  <2>9. Keyed(line) => Keyed(new)
    BY <1>2, <2>2 DEF Keyed
  <2> QED BY <1>1, <1>4, <2>4, <2>6, <2>7, <2>8, <2>9
<1> QED BY <1>3, <1>4

\* A write that fits what its caller saw leaves all of it in place.
LEMMA SaveKeeps ==
  ASSUME ProjInv, NEW row \in Recs, Save(row), Fits(This, kind, rows, row, saves + 1, now)
  PROVE  ProjInv'
<1> DEFINE op == [op |-> This.write, row |-> row]
<1>1. /\ kind' = kind /\ table' = table /\ now' = now /\ refused' = refused /\ This' = This
      /\ saves' = saves + 1 /\ inLife' = inLife + 1 /\ pending' = Append(pending, op)
      /\ rows' = Put(This.list, rows, row) /\ index' = Indexed(index, row)
  BY DEF Save, Enqueue, This
<1>2. ProjTypes /\ kind \in Kinds /\ rows \in Seq(Recs) /\ pending \in Seq(Ops) /\ table \in SUBSET Filed
      /\ index \in [Marks -> Nat] /\ saves \in Nat
  BY DEF ProjInv, ProjTypes
<1>3. This.list \in BOOLEAN /\ This.write \in {"create", "upsert"}
  BY <1>2, TraitsAre
<1>4. op \in WriteOps /\ op \in Ops /\ op.row = row /\ op.op = This.write
  BY <1>3 DEF WriteOps, Ops
<1> HIDE DEF op
<1>5. PICK n \in Nat : n = Len(pending)
  BY <1>2, LenProperties
<1>6. /\ pending' \in Seq(Ops) /\ Len(pending') = n + 1
      /\ \A j \in 1..n : pending'[j] = pending[j]
      /\ pending'[n + 1] = op
  BY <1>1, <1>2, <1>4, <1>5, AppendProperties
<1>7. /\ rows' \in Seq(Recs)
      /\ row \in Of(rows')
      /\ \A r : r.key # row.key => (r \in Of(rows') <=> r \in Of(rows))
      /\ ~This.list => \A r \in Of(rows') : r.key = row.key => r = row
      /\ This.list => rows' = Append(rows, row)
      /\ ~This.list /\ Keyed(rows) => Keyed(rows')
  BY <1>1, <1>2, <1>3, PutIs
<1>8. row.key \in Nat /\ row.key # 0 /\ row.mark \in Marks /\ row.time \in Nat
  BY DEF Recs
<1>9. index' \in [Marks -> Nat]
  BY <1>1, <1>2, <1>8 DEF Indexed
<1>10. ProjTypes'
  <2>1. IsFiniteSet(table) /\ inLife + 1 \in Nat /\ saves + 1 \in Nat /\ now \in Nat /\ refused \in BOOLEAN
    BY <1>2 DEF ProjTypes
  <2> QED BY <1>1, <1>2, <1>6, <1>7, <1>9, <2>1 DEF ProjTypes
<1>11. \A j \in 1..(n + 1) : Left(This, pending', table, j) = Left(This, pending, table, j)
  BY <1>1, <1>2, <1>4, <1>5, LeftKept
<1>12. Left(This, pending', table, n + 2) = Following(This, op, Left(This, pending, table, n + 1))
  <2>1. n + 1 \in 1..Len(pending') /\ (n + 1) + 1 = n + 2
    BY <1>6
  <2>2. Left(This, pending', table, (n + 1) + 1) = Following(This, pending'[n + 1], Left(This, pending', table, n + 1))
    BY <1>2, <1>6, <2>1, LeftNext
  <2>3. n + 1 \in 1..(n + 1)
    OBVIOUS
  <2> QED BY <1>6, <1>11, <2>1, <2>2, <2>3
<1>13. Doomed(This, pending', table) <=>
         Doomed(This, pending, table) \/ Bars(This, op, Left(This, pending, table, n + 1))
  <2>1. \A j : j \in 1..(n + 1) <=> j \in 1..n \/ j = n + 1
    OBVIOUS
  <2> HIDE DEF Left, Bars
  <2> QED BY <1>5, <1>6, <1>11, <2>1 DEF Doomed
<1>14. \A r \in Of(rows) : r \in Recs
  BY <1>2, OfIs
<1>15. ASSUME ~Doomed(This, pending', table), Agrees(This, rows, pending, table)
       PROVE  Answers(This, Of(rows')) = Left(This, pending', table, n + 2)
  <2>1. Answers(This, Of(rows)) = Left(This, pending, table, n + 1)
        /\ ~Bars(This, op, Left(This, pending, table, n + 1))
    BY <1>5, <1>13, <1>15 DEF Agrees
  <2>2. ~Bars(This, op, Answers(This, Of(rows)))
    BY <2>1
  <2>3. This.list => This.write = "create"
    BY <1>2, TraitsAre
  <2>4. This.list => \A r \in Of(rows) : r.key # row.key
    <3> SUFFICES ASSUME This.list, NEW r \in Of(rows) PROVE r.key # row.key
      OBVIOUS
    <3>1. Told(This, r) \in Answers(This, Of(rows)) /\ Told(This, r).key = r.key
      BY <1>14, ToldIs DEF Answers
    <3> QED BY <1>4, <2>2, <2>3, <3>1 DEF Bars
  <2>5. \A r \in Of(rows') : r.key = row.key => r = row
    <3>1. CASE This.list
      <4>1. \A r \in Of(rows') : r = row \/ r \in Of(rows)
        <5>1. rows' = Append(rows, row)
          BY <1>7, <3>1
        <5>2. PICK k \in Nat : k = Len(rows)
          BY <1>2, LenProperties
        <5>3. DOMAIN rows' = 1..(k + 1) /\ DOMAIN rows = 1..k
              /\ rows'[k + 1] = row /\ \A i \in 1..k : rows'[i] = rows[i]
          BY <1>2, <5>1, <5>2, AppendProperties, LenProperties
        <5>4. \A i \in 1..(k + 1) : i \in 1..k \/ i = k + 1
          OBVIOUS
        <5> QED BY <5>3, <5>4 DEF Of
      <4> QED BY <2>4, <3>1, <4>1
    <3> QED BY <1>3, <1>7, <3>1
  <2>6. \A r \in Of(rows') : r = row \/ (r \in Of(rows) /\ r.key # row.key)
    BY <1>7, <2>5
  <2>7. \A r \in Of(rows) : r.key # row.key => r \in Of(rows')
    BY <1>7
  <2>8. Following(This, op, Answers(This, Of(rows))) =
          {a \in Answers(This, Of(rows)) : a.key # row.key} \cup {Told(This, row)}
    BY <1>3, <1>4 DEF Following
  <2>9. \A r \in Of(rows) : Told(This, r).key = r.key
    BY <1>14, ToldIs
  <2>10. Answers(This, Of(rows')) =
           {a \in Answers(This, Of(rows)) : a.key # row.key} \cup {Told(This, row)}
    <3> HIDE DEF Told
    <3> QED BY <1>7, <2>6, <2>7, <2>9 DEF Answers
  <2> QED BY <1>12, <2>1, <2>8, <2>10
<1>16. ~refused' => Agrees(This, rows', pending', table')
  <2>1. ~refused => Agrees(This, rows, pending, table)
    BY DEF ProjInv
  <2>2. Len(pending') + 1 = n + 2
    BY <1>6
  <2> QED BY <1>1, <1>15, <2>1, <2>2 DEF Agrees
<1>17. kind # "requestLog" => ~refused' /\ ~Doomed(This, pending', table')
  <2> SUFFICES ASSUME kind # "requestLog" PROVE ~refused' /\ ~Doomed(This, pending', table')
    OBVIOUS
  <2>1. ~refused /\ ~Doomed(This, pending, table) /\ Agrees(This, rows, pending, table)
    BY DEF ProjInv
  <2>2. Answers(This, Of(rows)) = Left(This, pending, table, n + 1)
    BY <1>5, <2>1 DEF Agrees
  <2>3. This.write = "create" => \A r \in Of(rows) : r.key # row.key
    BY DEF Fits
  <2>4. This.unique => \A r \in Of(rows) : r.mark = row.mark => r.key = row.key
    <3>1. This.unique => kind \in Second
      BY <1>2, TraitsAre
    <3> QED BY <3>1 DEF Fits
  <2>5. \A a \in Answers(This, Of(rows)) : \E r \in Of(rows) : a.key = r.key /\ a.mark = r.mark
    BY <1>14, ToldIs DEF Answers
  <2>6. ~Bars(This, op, Answers(This, Of(rows)))
    <3> HIDE DEF Answers
    <3> QED BY <1>4, <2>3, <2>4, <2>5 DEF Bars
  <2> QED BY <1>1, <1>13, <2>1, <2>2, <2>6
<1>18. kind \in Minted => Numbered(rows', pending', table', saves')
  <2> SUFFICES ASSUME kind \in Minted PROVE Numbered(rows', pending', table', saves')
    OBVIOUS
  <2>1. Numbered(rows, pending, table, saves) /\ row.key <= saves + 1
    BY DEF ProjInv, Fits
  <2>2. \A k \in Nat : k <= saves => k <= saves + 1
    BY <1>2
  <2>3. \A r \in Of(rows') : r.key <= saves + 1
    <3>1. \A r \in Of(rows) : r.key \in Nat
      BY <1>14 DEF Recs
    <3> QED BY <1>7, <2>1, <2>2, <3>1 DEF Numbered
  <2>4. \A c \in table : c.key <= saves + 1
    <3>1. \A c \in table : c.key \in Nat
      BY <1>2 DEF Filed
    <3> QED BY <2>1, <2>2, <3>1 DEF Numbered
  <2>5. \A j \in 1..(n + 1) : pending'[j] \in WriteOps => pending'[j].row.key <= saves + 1
    <3>1. \A j \in 1..n : pending[j] \in Ops
      BY <1>2, <1>5, LenProperties
    <3>2. \A j \in 1..n : pending[j].row.key \in Nat
      BY <3>1, OpIs
    <3>3. \A j \in 1..(n + 1) : j \in 1..n \/ j = n + 1
      OBVIOUS
    <3> QED BY <1>4, <1>5, <1>6, <2>1, <2>2, <3>2, <3>3 DEF Numbered
  <2> QED BY <1>1, <1>6, <2>3, <2>4, <2>5 DEF Numbered
<1>19. ~This.list => Keyed(rows')
  BY <1>7 DEF ProjInv
<1>20. TableIs(This, table')
  BY <1>1 DEF ProjInv
<1>21. IndexIs(This, rows', index')
  <2>1. CASE This.unique /\ ~This.list
    <3>1. kind \in Second
      BY <1>2, <2>1, TraitsAre
    <3>2. \A r \in Of(rows) : r.mark = row.mark <=> r.key = row.key
      BY <3>1 DEF Fits
    <3>3. /\ \A r \in Of(rows) : index[r.mark] = r.key
          /\ \A m \in Marks : index[m] # 0 => \E r \in Of(rows) : r.mark = m /\ r.key = index[m]
      BY <2>1 DEF ProjInv, IndexIs
    <3>4. \A m \in Marks : index'[m] = IF m = row.mark THEN row.key ELSE index[m]
      BY <1>1, <1>2, <2>1 DEF Indexed
    <3>5. \A r \in Of(rows') : r \in Recs /\ r.mark \in Marks
      BY <1>7, OfIs
    <3>6. ASSUME NEW r \in Of(rows') PROVE index'[r.mark] = r.key
      <4>1. CASE r.key = row.key
        BY <1>7, <1>8, <2>1, <3>4, <4>1
      <4>2. CASE r.key # row.key
        BY <1>7, <3>2, <3>3, <3>4, <3>5, <4>2
      <4> QED BY <4>1, <4>2
    <3>7. ASSUME NEW m \in Marks, index'[m] # 0 PROVE \E r \in Of(rows') : r.mark = m /\ r.key = index'[m]
      <4>1. CASE m = row.mark
        BY <1>7, <3>4, <4>1
      <4>2. CASE m # row.mark
        BY <1>7, <3>2, <3>3, <3>4, <3>7, <4>2
      <4> QED BY <4>1, <4>2
    <3> QED BY <2>1, <3>6, <3>7 DEF IndexIs
  <2>2. CASE ~(This.unique /\ ~This.list)
    BY <1>1, <2>2 DEF Indexed, IndexIs, ProjInv
  <2> QED BY <2>1, <2>2
<1>22. This.list => Timed(rows', pending', table', now')
  <2> SUFFICES ASSUME This.list PROVE Timed(rows', pending', table', now')
    OBVIOUS
  <2>1. Timed(rows, pending, table, now) /\ row.time = now
    BY DEF ProjInv, Fits
  <2>2. rows' = Append(rows, row)
    BY <1>7
  <2>3. PICK k \in Nat : k = Len(rows)
    BY <1>2, LenProperties
  <2>4. DOMAIN rows' = 1..(k + 1) /\ DOMAIN rows = 1..k
        /\ rows'[k + 1] = row /\ \A i \in 1..k : rows'[i] = rows[i]
    BY <1>2, <2>2, <2>3, AppendProperties, LenProperties
  <2>5. \A i \in 1..(k + 1) : i \in 1..k \/ i = k + 1
    OBVIOUS
  <2>6. \A i \in 1..k : rows[i].time <= now
    BY <2>1, <2>4 DEF Timed, Of
  <2>7. \A r \in Of(rows') : r.time <= now
    BY <1>8, <2>1, <2>4, <2>5, <2>6 DEF Of
  <2>8. Rises(rows')
    <3> SUFFICES ASSUME NEW i \in 1..(k + 1), NEW j \in 1..(k + 1), i < j PROVE rows'[i].time <= rows'[j].time
      BY <2>4 DEF Rises
    <3>1. i \in 1..k
      OBVIOUS
    <3>2. CASE j \in 1..k
      BY <2>1, <2>4, <3>1, <3>2 DEF Timed, Rises
    <3>3. CASE j = k + 1
      BY <2>1, <2>4, <2>6, <3>1, <3>3
    <3> QED BY <2>5, <3>2, <3>3
  <2>9. \A j \in 1..(n + 1) : pending'[j] \in WriteOps => pending'[j].row.time <= now
    <3>1. \A j \in 1..(n + 1) : j \in 1..n \/ j = n + 1
      OBVIOUS
    <3> QED BY <1>4, <1>5, <1>6, <1>8, <2>1, <3>1 DEF Timed
  <2> QED BY <1>1, <1>6, <2>1, <2>7, <2>8, <2>9 DEF Timed
<1> QED BY <1>1, <1>10, <1>16, <1>17, <1>18, <1>19, <1>20, <1>21, <1>22 DEF ProjInv

\* Each caller's row fits what it saw.
LEMMA FoundIs ==
  ASSUME ProjTypes, NEW key \in Nat
  PROVE  FirstTime(key) \in Nat
<1>1. rows \in Seq(Recs) /\ now \in Nat
  BY DEF ProjTypes
<1>2. \A r \in Find(key) : r.time \in Nat
  BY <1>1, OfIs DEF Find, InRows, Of
<1> QED BY <1>1, <1>2 DEF FirstTime

LEMMA KindIs ==
  ASSUME kind \in Kinds
  PROVE  /\ kind \in {"nodeIdentity", "intentArchive", "companionMemory", "creatorProfile"} =>
              ~This.list /\ This.write = "upsert" /\ kind \notin Minted /\ kind \notin Second
         /\ kind \in {"user", "session", "creatorPersona"} => ~This.list
         /\ kind = "session" => ~This.unique
BY TraitsAre, Zenon DEF Minted, Second, Bundle, Kinds, This, Traits, NodeIdentity, IntentArchive, CompanionMemory, CreatorProfile

LEMMA SavesKeep ==
  ASSUME ProjInv, NEW body \in Bodies, NEW mark \in Marks, NEW name
  PROVE  /\ LogRow(mark, body) => ProjInv'
         /\ NewUser(mark) => ProjInv'
         /\ NewSession(mark) => ProjInv'
         /\ name \in RowNames /\ Upsert(name, mark, body) => ProjInv'
         /\ name \in RowNames /\ UpsertProfile(name, mark, body) => ProjInv'
         /\ UpsertPersona(mark, body) => ProjInv'
<1>1. ProjTypes /\ kind \in Kinds /\ rows \in Seq(Recs) /\ now \in Nat /\ saves \in Nat /\ inLife \in Nat
      /\ index \in [Marks -> Nat]
  BY DEF ProjInv, ProjTypes
<1>2. \A r \in Of(rows) : r.key \in Nat /\ r.key # 0 /\ r.mark \in Marks
  BY <1>1, OfIs
<1>3. "said" \in Bodies
  BY DEF Bodies
<1>4. \A k \in Nat \ {0}, t \in Nat, b \in Bodies :
        /\ Record(k, mark, b, t) \in Recs
        /\ Record(k, mark, b, t).key = k /\ Record(k, mark, b, t).mark = mark /\ Record(k, mark, b, t).time = t
  BY DEF Record, Recs
<1>5. Fresh \in Nat \ {0} /\ Fresh = saves + 1 /\ inLife + 1 \in Nat \ {0}
  BY <1>1 DEF Fresh
<1>6. kind \in Minted => \A r \in Of(rows) : r.key # Fresh
  BY <1>1, <1>2, <1>5 DEF ProjInv, Numbered
<1>7. name \in RowNames => name \in Nat \ {0}
  BY RowNamesAssumption
<1>8. kind # "requestLog" /\ This.write = "create" => kind \in Minted
  BY <1>1, TraitsAre
<1>9. kind \in Second => /\ \A r \in Of(rows) : index[r.mark] = r.key
                         /\ \A m \in Marks : index[m] # 0 => \E r \in Of(rows) : r.mark = m /\ r.key = index[m]
  <2>1. kind \in Second => This.unique /\ ~This.list
    BY <1>1, TraitsAre
  <2> QED BY <2>1 DEF ProjInv, IndexIs
<1> HIDE DEF Fresh
<1>10. LogRow(mark, body) => ProjInv'
  <2> SUFFICES ASSUME LogRow(mark, body) PROVE ProjInv'
    OBVIOUS
  <2>1. PICK key \in Nat \ {0} : key = IF kind = "requestLog" THEN inLife + 1 ELSE Fresh
    BY <1>5
  <2>2. PICK row \in Recs : /\ row = Record(key, mark, body, now)
                            /\ row.key = key /\ row.mark = mark /\ row.time = now
    BY <1>1, <1>4
  <2>3. This.list /\ Save(row)
    BY <2>1, <2>2 DEF LogRow
  <2>4. kind \notin Second /\ kind \in {"requestLog", "securityAudit", "likenessUsageEvent"}
    BY <1>1, <2>3, TraitsAre
  <2>5. kind \in Minted => row.key = Fresh
    BY <2>1, <2>2 DEF Minted
  <2>6. kind # "requestLog" => row.key = Fresh /\ kind \in Minted
    BY <2>1, <2>2, <2>4 DEF Minted
  <2>7. Fits(This, kind, rows, row, saves + 1, now)
    BY <1>1, <1>5, <1>6, <2>2, <2>4, <2>5, <2>6 DEF Fits
  <2> QED BY <2>2, <2>3, <2>7, SaveKeeps
<1>11. NewUser(mark) => ProjInv'
  <2> SUFFICES ASSUME NewUser(mark) PROVE ProjInv'
    OBVIOUS
  <2>1. PICK row \in Recs : /\ row = Record(Fresh, mark, "said", now)
                            /\ row.key = Fresh /\ row.mark = mark /\ row.time = now
    BY <1>1, <1>3, <1>4, <1>5
  <2>2. kind = "user" /\ FindByMark(mark) = {} /\ Save(row)
    BY <2>1 DEF NewUser
  <2>3. kind \in Minted /\ kind \in Second
    BY <2>2 DEF Minted, Second
  <2>4. \A r \in Of(rows) : r.key # index[mark]
    BY <2>2 DEF FindByMark, Find, InRows, Of
  <2>5. \A r \in Of(rows) : r.mark # mark
    BY <1>9, <2>3, <2>4
  <2>6. Fits(This, kind, rows, row, saves + 1, now)
    BY <1>1, <1>5, <1>6, <2>1, <2>3, <2>5 DEF Fits
  <2> QED BY <2>1, <2>2, <2>6, SaveKeeps
<1>12. NewSession(mark) => ProjInv'
  <2> SUFFICES ASSUME NewSession(mark) PROVE ProjInv'
    OBVIOUS
  <2>1. PICK row \in Recs : /\ row = Record(Fresh, mark, "said", now)
                            /\ row.key = Fresh /\ row.mark = mark /\ row.time = now
    BY <1>1, <1>3, <1>4, <1>5
  <2>2. kind = "session" /\ Save(row)
    BY <2>1 DEF NewSession
  <2>3. kind \in Minted /\ kind \notin Second
    BY <2>2 DEF Minted, Second
  <2>6. Fits(This, kind, rows, row, saves + 1, now)
    BY <1>1, <1>5, <1>6, <2>1, <2>3 DEF Fits
  <2> QED BY <2>1, <2>2, <2>6, SaveKeeps
<1>13. name \in RowNames /\ Upsert(name, mark, body) => ProjInv'
  <2> SUFFICES ASSUME name \in RowNames, Upsert(name, mark, body) PROVE ProjInv'
    OBVIOUS
  <2>1. PICK row \in Recs : row = Record(name, mark, body, now)
    BY <1>1, <1>4, <1>7
  <2>2. kind \in {"nodeIdentity", "intentArchive", "companionMemory"} /\ Save(row)
    BY <2>1 DEF Upsert
  <2>3. ~This.list /\ This.write = "upsert" /\ kind \notin Minted /\ kind \notin Second
    BY <1>1, <2>2, KindIs
  <2>4. Fits(This, kind, rows, row, saves + 1, now)
    BY <2>3 DEF Fits
  <2> QED BY <2>2, <2>4, SaveKeeps
<1>14. name \in RowNames /\ UpsertProfile(name, mark, body) => ProjInv'
  <2> SUFFICES ASSUME name \in RowNames, UpsertProfile(name, mark, body) PROVE ProjInv'
    OBVIOUS
  <2>0. FirstTime(name) \in Nat
    BY <1>1, <1>7, FoundIs
  <2>1. PICK row \in Recs : row = Record(name, mark, body, FirstTime(name))
    BY <1>4, <1>7, <2>0
  <2>2. kind = "creatorProfile" /\ Save(row)
    BY <2>1 DEF UpsertProfile
  <2>3. ~This.list /\ This.write = "upsert" /\ kind \notin Minted /\ kind \notin Second
    BY <1>1, <2>2, KindIs
  <2>4. Fits(This, kind, rows, row, saves + 1, now)
    BY <2>3 DEF Fits
  <2> QED BY <2>2, <2>4, SaveKeeps
<1>15. UpsertPersona(mark, body) => ProjInv'
  <2> SUFFICES ASSUME UpsertPersona(mark, body) PROVE ProjInv'
    OBVIOUS
  <2>1. PICK key \in Nat \ {0} : key = IF index[mark] = 0 THEN Fresh ELSE index[mark]
    BY <1>1, <1>5
  <2>2. FirstTime(key) \in Nat
    BY <1>1, FoundIs
  <2>3. PICK row \in Recs : /\ row = Record(key, mark, body, FirstTime(key))
                            /\ row.key = key /\ row.mark = mark
    BY <1>4, <2>2
  <2>4. kind = "creatorPersona" /\ Save(row)
    BY <2>1, <2>3 DEF UpsertPersona
  <2>5. kind \in Minted /\ kind \in Second /\ ~This.list /\ This.write = "upsert"
    <3>1. This = CreatorPersona
      BY <2>4 DEF This, Bundle
    <3> QED BY <2>4, <3>1 DEF Minted, Second, CreatorPersona, Traits
  <2>6. /\ \A r \in Of(rows) : index[r.mark] = r.key
        /\ \A m \in Marks : index[m] # 0 => \E r \in Of(rows) : r.mark = m /\ r.key = index[m]
    BY <1>9, <2>5
  <2>7. key <= saves + 1
    <3>1. CASE index[mark] = 0
      BY <1>1, <1>5, <2>1, <3>1
    <3>2. CASE index[mark] # 0
      <4>1. PICK r \in Of(rows) : r.key = index[mark]
        BY <2>6, <3>2
      <4>2. r.key <= saves
        BY <2>5 DEF ProjInv, Numbered
      <4> QED BY <1>1, <2>1, <3>2, <4>1, <4>2
    <3> QED BY <3>1, <3>2
  <2>8. ASSUME NEW r \in Of(rows) PROVE r.mark = mark <=> r.key = key
    <3>1. CASE index[mark] = 0
      BY <1>2, <1>6, <2>1, <2>5, <2>6, <3>1
    <3>2. CASE index[mark] # 0
      <4>1. PICK s \in Of(rows) : s.mark = mark /\ s.key = index[mark]
        BY <2>6, <3>2
      <4>2. \A a, b \in Of(rows) : a.key = b.key => a = b
        BY <2>5 DEF ProjInv, Keyed, Of
      <4> QED BY <2>1, <2>6, <3>2, <4>1, <4>2
    <3> QED BY <3>1, <3>2
  <2>9. Fits(This, kind, rows, row, saves + 1, now)
    BY <2>3, <2>5, <2>7, <2>8 DEF Fits
  <2> QED BY <2>4, <2>9, SaveKeeps
<1> QED BY <1>10, <1>11, <1>12, <1>13, <1>14, <1>15

\* A deletion leaves some of the rows.
LEMMA DropKeeps ==
  ASSUME ProjInv, NEW op \in Ops, op \notin WriteOps, Enqueue(op),
         rows' \in Seq(Recs), index' \in [Marks -> Nat],
         Answers(This, Of(rows')) = Following(This, op, Answers(This, Of(rows))),
         Of(rows') \subseteq Of(rows), ~This.list => Keyed(rows'), This.list => Rises(rows'),
         IndexIs(This, rows', index')
  PROVE  ProjInv'
<1>1. /\ kind' = kind /\ table' = table /\ now' = now /\ refused' = refused /\ This' = This
      /\ saves' = saves + 1 /\ inLife' = inLife + 1 /\ pending' = Append(pending, op)
  BY DEF Enqueue, This
<1>2. ProjTypes /\ kind \in Kinds /\ rows \in Seq(Recs) /\ pending \in Seq(Ops) /\ table \in SUBSET Filed
      /\ saves \in Nat /\ now \in Nat
  BY DEF ProjInv, ProjTypes
<1>3. op.op \in {"delete", "clear"}
  BY OpIs
<1>5. PICK n \in Nat : n = Len(pending)
  BY <1>2, LenProperties
<1>6. /\ pending' \in Seq(Ops) /\ Len(pending') = n + 1
      /\ \A j \in 1..n : pending'[j] = pending[j]
      /\ pending'[n + 1] = op
  BY <1>1, <1>2, <1>5, AppendProperties
<1>10. ProjTypes'
  <2>1. IsFiniteSet(table) /\ inLife + 1 \in Nat /\ saves + 1 \in Nat /\ now \in Nat /\ refused \in BOOLEAN
    BY <1>2 DEF ProjTypes
  <2> QED BY <1>1, <1>2, <1>6, <2>1 DEF ProjTypes
<1>11. \A j \in 1..(n + 1) : Left(This, pending', table, j) = Left(This, pending, table, j)
  BY <1>1, <1>2, <1>5, LeftKept
<1>12. Left(This, pending', table, n + 2) = Following(This, op, Left(This, pending, table, n + 1))
  <2>1. n + 1 \in 1..Len(pending') /\ (n + 1) + 1 = n + 2
    BY <1>6
  <2>2. Left(This, pending', table, (n + 1) + 1) = Following(This, pending'[n + 1], Left(This, pending', table, n + 1))
    BY <1>2, <1>6, <2>1, LeftNext
  <2>3. n + 1 \in 1..(n + 1)
    OBVIOUS
  <2> QED BY <1>6, <1>11, <2>1, <2>2, <2>3
<1>13. Doomed(This, pending', table) <=> Doomed(This, pending, table)
  <2>1. \A j : j \in 1..(n + 1) <=> j \in 1..n \/ j = n + 1
    OBVIOUS
  <2>2. \A set : ~Bars(This, op, set)
    BY <1>3 DEF Bars
  <2> HIDE DEF Left, Bars
  <2> QED BY <1>5, <1>6, <1>11, <2>1, <2>2 DEF Doomed
<1>16. ~refused' => Agrees(This, rows', pending', table')
  <2>1. ~refused => Agrees(This, rows, pending, table)
    BY DEF ProjInv
  <2>2. Len(pending') + 1 = n + 2
    BY <1>6
  <2> HIDE DEF Left, Doomed, Answers
  <2> QED BY <1>1, <1>5, <1>12, <1>13, <2>1, <2>2 DEF Agrees
<1>17. kind # "requestLog" => ~refused' /\ ~Doomed(This, pending', table')
  BY <1>1, <1>13 DEF ProjInv
<1>18. kind \in Minted => Numbered(rows', pending', table', saves')
  <2> SUFFICES ASSUME kind \in Minted PROVE Numbered(rows', pending', table', saves')
    OBVIOUS
  <2>1. Numbered(rows, pending, table, saves)
    BY DEF ProjInv
  <2>2. \A k \in Nat : k <= saves => k <= saves + 1
    BY <1>2
  <2>3. \A r \in Of(rows') : r.key <= saves + 1
    BY <1>2, <2>1, <2>2, OfIs DEF Numbered
  <2>4. \A c \in table : c.key <= saves + 1
    <3>1. \A c \in table : c.key \in Nat
      BY <1>2 DEF Filed
    <3> QED BY <2>1, <2>2, <3>1 DEF Numbered
  <2>5. \A j \in 1..(n + 1) : pending'[j] \in WriteOps => pending'[j].row.key <= saves + 1
    <3>1. \A j \in 1..n : pending[j] \in Ops
      BY <1>2, <1>5, LenProperties
    <3>2. \A j \in 1..n : pending[j].row.key \in Nat
      BY <3>1, OpIs
    <3>3. \A j \in 1..(n + 1) : j \in 1..n \/ j = n + 1
      OBVIOUS
    <3> QED BY <1>5, <1>6, <2>1, <2>2, <3>2, <3>3 DEF Numbered
  <2> QED BY <1>1, <1>6, <2>3, <2>4, <2>5 DEF Numbered
<1>20. TableIs(This, table')
  BY <1>1 DEF ProjInv
<1>22. This.list => Timed(rows', pending', table', now')
  <2> SUFFICES ASSUME This.list PROVE Timed(rows', pending', table', now')
    OBVIOUS
  <2>1. Timed(rows, pending, table, now) /\ Rises(rows')
    BY DEF ProjInv
  <2>7. \A r \in Of(rows') : r.time <= now
    BY <2>1 DEF Timed
  <2>9. \A j \in 1..(n + 1) : pending'[j] \in WriteOps => pending'[j].row.time <= now
    <3>1. \A j \in 1..(n + 1) : j \in 1..n \/ j = n + 1
      OBVIOUS
    <3> QED BY <1>5, <1>6, <2>1, <3>1 DEF Timed
  <2> QED BY <1>1, <1>6, <2>1, <2>7, <2>9 DEF Timed
<1> QED BY <1>1, <1>10, <1>16, <1>17, <1>18, <1>20, <1>22 DEF ProjInv

LEMMA ClearKeeps == ASSUME ProjInv, ClearRows PROVE ProjInv'
<1> DEFINE op == [op |-> "clear", row |-> Record(0, 0, 0, 0)]
<1>1. op \in Ops /\ op \notin WriteOps /\ op.op = "clear"
  BY DEF Ops, WriteOps, Record
<1>2. Enqueue(op) /\ rows' = <<>> /\ index' = NoIndex
  BY DEF ClearRows
<1> HIDE DEF op
<1>3. Of(rows') = {} /\ rows' \in Seq(Recs) /\ Keyed(rows') /\ Rises(rows')
  <2>1. DOMAIN <<>> = {}
    OBVIOUS
  <2> QED BY <1>2, <2>1, EmptySeq DEF Of, Keyed, Rises
<1>4. Answers(This, Of(rows')) = Following(This, op, Answers(This, Of(rows)))
  BY <1>1, <1>3 DEF Answers, Following
<1>5. index' \in [Marks -> Nat] /\ \A m \in Marks : index'[m] = 0
  BY <1>2 DEF NoIndex
<1>6. IndexIs(This, rows', index')
  BY <1>2, <1>3, <1>5 DEF IndexIs
<1> QED BY <1>1, <1>2, <1>3, <1>4, <1>5, <1>6, DropKeeps

\* The one row of a key is cut out.
LEMMA CutIs ==
  ASSUME NEW line \in Seq(Recs), Keyed(line), NEW i \in DOMAIN line, NEW cut,
         cut = SubSeq(line, 1, i - 1) \o SubSeq(line, i + 1, Len(line))
  PROVE  cut \in Seq(Recs) /\ Keyed(cut) /\ Of(cut) = {r \in Of(line) : r.key # line[i].key}
<1>1. PICK n \in Nat : n = Len(line) /\ DOMAIN line = 1..n /\ i \in 1..n
  BY LenProperties
<1>2. PICK f \in Nat, g \in Nat : f + 1 = i /\ f + 1 + g = n
  <2>1. i \in Nat /\ 1 <= i /\ i <= n
    BY <1>1
  <2>2. i - 1 \in Nat /\ n - i \in Nat
    BY <2>1
  <2>3. (i - 1) + 1 = i /\ (i - 1) + 1 + (n - i) = n
    BY <2>1
  <2> QED BY <2>2, <2>3
<1>5. PICK h, l : h = SubSeq(line, 1, f) /\ l = SubSeq(line, f + 2, n)
  OBVIOUS
<1>0. \A k \in 1..n : line[k] \in Recs
  BY <1>1, LenProperties
<1>3. h \in Seq(Recs) /\ Len(h) = f /\ \A k \in 1..f : h[k] = line[k]
  <2>1. \A k \in 1..f : line[k] \in Recs
    BY <1>0, <1>2
  <2>2. /\ SubSeq(line, 1, f) \in Seq(Recs)
        /\ Len(SubSeq(line, 1, f)) = IF 1 <= f THEN f - 1 + 1 ELSE 0
        /\ \A k \in 1..(f - 1 + 1) : SubSeq(line, 1, f)[k] = line[1 + k - 1]
    BY <2>1, SubSeqProperties
  <2>3. (IF 1 <= f THEN f - 1 + 1 ELSE 0) = f /\ f - 1 + 1 = f
    OBVIOUS
  <2>4. \A k \in 1..f : 1 + k - 1 = k
    OBVIOUS
  <2> QED BY <1>5, <2>2, <2>3, <2>4
<1>4. l \in Seq(Recs) /\ Len(l) = g /\ \A k \in 1..g : l[k] = line[f + 1 + k]
  <2>0. PICK e \in Nat : e = f + 2
    OBVIOUS
  <2>1. \A k \in e..n : line[k] \in Recs
    BY <1>0, <2>0
  <2>2. /\ SubSeq(line, e, n) \in Seq(Recs)
        /\ Len(SubSeq(line, e, n)) = IF e <= n THEN n - e + 1 ELSE 0
        /\ \A k \in 1..(n - e + 1) : SubSeq(line, e, n)[k] = line[e + k - 1]
    BY <2>1, SubSeqProperties
  <2>3. (IF e <= n THEN n - e + 1 ELSE 0) = g /\ n - e + 1 = g
    BY <1>2, <2>0
  <2>4. \A k \in 1..g : e + k - 1 = f + 1 + k
    BY <2>0
  <2>5. l = SubSeq(line, e, n)
    BY <1>5, <2>0
  <2> QED BY <2>2, <2>3, <2>4, <2>5
<1>6. cut = h \o l
  <2>1. i - 1 = f /\ i + 1 = f + 2
    BY <1>2
  <2> QED BY <1>1, <1>5, <2>1
<1>7. cut \in Seq(Recs) /\ Len(cut) = f + g
      /\ \A k \in 1..(f + g) : cut[k] = IF k <= f THEN h[k] ELSE l[k - f]
  <2>1. /\ h \o l \in Seq(Recs)
        /\ Len(h \o l) = Len(h) + Len(l)
        /\ \A k \in 1..(Len(h) + Len(l)) : (h \o l)[k] = IF k <= Len(h) THEN h[k] ELSE l[k - Len(h)]
    BY <1>3, <1>4, ConcatProperties
  <2> QED BY <1>3, <1>4, <1>6, <2>1
<1>8. DOMAIN cut = 1..(f + g)
  BY <1>7, LenProperties
<1>9. \A k \in 1..(f + g) : k <= f => cut[k] = line[k] /\ k \in 1..n /\ k # i
  <2>1. \A k \in 1..(f + g) : k <= f => k \in 1..f /\ k \in 1..n /\ k # i
    BY <1>2
  <2> QED BY <1>3, <1>7, <2>1
<1>10. ASSUME NEW k \in 1..(f + g), ~(k <= f) PROVE cut[k] = line[k + 1] /\ k + 1 \in 1..n /\ k + 1 # i
  <2>1. k - f \in 1..g /\ f + 1 + (k - f) = k + 1
    BY <1>10
  <2>2. l[k - f] = line[f + 1 + (k - f)]
    BY <1>4, <2>1
  <2>3. k + 1 \in 1..n /\ k + 1 # i
    BY <1>2, <1>10
  <2> QED BY <1>7, <1>10, <2>1, <2>2, <2>3
<1>11. ASSUME NEW k \in 1..n, k # i PROVE \E m \in 1..(f + g) : cut[m] = line[k]
  <2>1. CASE k <= f
    <3>1. k \in 1..(f + g)
      BY <2>1
    <3> QED BY <1>9, <2>1, <3>1
  <2>2. CASE ~(k <= f)
    <3>1. k - 1 \in 1..(f + g) /\ ~(k - 1 <= f) /\ (k - 1) + 1 = k
      BY <1>2, <1>11, <2>2
    <3>2. cut[k - 1] = line[(k - 1) + 1]
      BY <1>10, <3>1
    <3> QED BY <3>1, <3>2
  <2> QED BY <2>1, <2>2
<1>12. Keyed(cut)
  <2> SUFFICES ASSUME NEW a \in 1..(f + g), NEW b \in 1..(f + g), cut[a].key = cut[b].key PROVE a = b
    BY <1>8 DEF Keyed
  <2>1. \A k, m \in 1..n : line[k].key = line[m].key => k = m
    BY <1>1 DEF Keyed
  <2>2. CASE a <= f /\ b <= f
    BY <1>9, <2>1, <2>2
  <2>3. CASE a <= f /\ ~(b <= f)
    <3>1. cut[a] = line[a] /\ a \in 1..n /\ a # b + 1
      BY <1>9, <2>3
    <3>2. cut[b] = line[b + 1] /\ b + 1 \in 1..n
      BY <1>10, <2>3
    <3>3. a = b + 1
      BY <2>1, <3>1, <3>2
    <3> QED BY <3>1, <3>3
  <2>4. CASE ~(a <= f) /\ b <= f
    <3>1. cut[b] = line[b] /\ b \in 1..n /\ b # a + 1
      BY <1>9, <2>4
    <3>2. cut[a] = line[a + 1] /\ a + 1 \in 1..n
      BY <1>10, <2>4
    <3>3. b = a + 1
      BY <2>1, <3>1, <3>2
    <3> QED BY <3>1, <3>3
  <2>5. CASE ~(a <= f) /\ ~(b <= f)
    <3>1. cut[b] = line[b + 1] /\ b + 1 \in 1..n /\ cut[a] = line[a + 1] /\ a + 1 \in 1..n
      BY <1>10, <2>5
    <3>2. a + 1 = b + 1
      BY <2>1, <3>1
    <3> QED BY <3>2
  <2> QED BY <2>2, <2>3, <2>4, <2>5
<1>13. \A k \in 1..n : line[k].key = line[i].key <=> k = i
  BY <1>1 DEF Keyed
<1>14. ASSUME NEW r PROVE r \in Of(cut) <=> r \in Of(line) /\ r.key # line[i].key
  <2>1. r \in Of(line) <=> \E k \in 1..n : r = line[k]
    BY <1>1 DEF Of
  <2>2. r \in Of(cut) <=> \E k \in 1..(f + g) : r = cut[k]
    BY <1>8 DEF Of
  <2>3. ASSUME NEW k \in 1..(f + g) PROVE \E m \in 1..n : cut[k] = line[m] /\ m # i
    <3>1. CASE k <= f
      BY <1>9, <3>1
    <3>2. CASE ~(k <= f)
      BY <1>10, <3>2
    <3> QED BY <3>1, <3>2
  <2>4. ASSUME r \in Of(cut) PROVE r \in Of(line) /\ r.key # line[i].key
    <3>1. PICK m \in 1..n : r = line[m] /\ m # i
      BY <2>2, <2>3, <2>4
    <3> QED BY <1>13, <2>1, <3>1
  <2>5. ASSUME r \in Of(line), r.key # line[i].key PROVE r \in Of(cut)
    <3>1. PICK m \in 1..n : r = line[m]
      BY <2>1, <2>5
    <3>2. m # i
      BY <2>5, <3>1
    <3> QED BY <1>11, <2>2, <3>1, <3>2
  <2> QED BY <2>4, <2>5
<1> QED BY <1>7, <1>12, <1>14

LEMMA DeleteKeeps == ASSUME ProjInv, NEW token \in Nat, DeleteSession(token) PROVE ProjInv'
<1> DEFINE op == [op |-> "delete", row |-> Record(token, 0, 0, 0)]
<1>1. op \in Ops /\ op \notin WriteOps /\ op.op = "delete" /\ op.row.key = token
  BY DEF Ops, WriteOps, Record
<1>2. rows \in Seq(Recs) /\ kind \in Kinds /\ index \in [Marks -> Nat]
  BY DEF ProjInv, ProjTypes
<1>3. kind = "session" /\ ~This.list /\ ~This.unique /\ Keyed(rows)
  BY <1>2, KindIs DEF DeleteSession, ProjInv
<1>4. Enqueue(op) /\ index' = index
  BY DEF DeleteSession
<1>5. PICK i \in DOMAIN rows :
        rows[i].key = token /\ rows' = SubSeq(rows, 1, i - 1) \o SubSeq(rows, i + 1, Len(rows))
  BY DEF DeleteSession, InRows
<1> HIDE DEF op
<1>6. rows' \in Seq(Recs) /\ Keyed(rows') /\ Of(rows') = {r \in Of(rows) : r.key # token}
  <2>1. rows \in Seq(Recs) /\ Keyed(rows)
    BY <1>2, <1>3
  <2>2. rows' \in Seq(Recs) /\ Keyed(rows') /\ Of(rows') = {r \in Of(rows) : r.key # rows[i].key}
    BY <1>5, <2>1, CutIs, Zenon
  <2> QED BY <1>5, <2>2, Zenon
<1>7. Answers(This, Of(rows')) = Following(This, op, Answers(This, Of(rows)))
  <2>1. \A r \in Of(rows) : Told(This, r).key = r.key
    BY <1>2, OfIs, ToldIs
  <2>2. Following(This, op, Answers(This, Of(rows))) = {a \in Answers(This, Of(rows)) : a.key # token}
    BY <1>1 DEF Following
  <2> HIDE DEF Told
  <2> QED BY <1>6, <2>1, <2>2 DEF Answers
<1>8. IndexIs(This, rows', index')
  BY <1>3, <1>4 DEF ProjInv, IndexIs
<1> QED BY <1>1, <1>2, <1>3, <1>4, <1>6, <1>7, <1>8, DropKeeps

-----------------------------------------------------------------------------
(* The first write is executed. *)

LEMMA StoredIs ==
  ASSUME NEW row \in Recs, table \in SUBSET Filed, now \in Nat
  PROVE  /\ Stored(row) \in Filed /\ Stored(row).key = row.key /\ Stored(row).mark = row.mark
         /\ This.time = "kept" => Stored(row).time = row.time
         /\ Told(This, Back(Stored(row))) = Told(This, row)
<1>1. PICK old : old = {r \in table : r.key = row.key}
  OBVIOUS
<1>2. PICK time : time = IF This.time = "kept" THEN row.time
                         ELSE IF This.time = "touched" \/ old = {} THEN now
                         ELSE (CHOOSE r \in old : TRUE).time
  OBVIOUS
<1>3. \A c \in table : c.time \in Nat
  BY DEF Filed
<1>4. row.time \in Nat /\ row.key \in Nat \ {0} /\ row.mark \in Marks /\ row.body \in Bodies
      /\ row = [key |-> row.key, mark |-> row.mark, body |-> row.body, time |-> row.time]
  BY DEF Recs
<1>5. time \in Nat /\ (This.time = "kept" => time = row.time)
  <2>1. CASE This.time = "kept"
    BY <1>2, <1>4, <2>1
  <2>2. CASE This.time # "kept" /\ (This.time = "touched" \/ old = {})
    BY <1>2, <2>2
  <2>3. CASE This.time # "kept" /\ ~(This.time = "touched" \/ old = {})
    <3>1. (CHOOSE r \in old : TRUE) \in table
      BY <1>1, <2>3
    <3> QED BY <1>2, <1>3, <2>3, <3>1
  <2> QED BY <2>1, <2>2, <2>3
<1>6. Stored(row) = [row EXCEPT !.body = ToColumn(row.body), !.time = time]
  BY <1>1, <1>2 DEF Stored
<1>7. Stored(row) = [key |-> row.key, mark |-> row.mark, body |-> ToColumn(row.body), time |-> time]
  BY <1>4, <1>6
<1>8. ToColumn(row.body) \in {"said", "null"} /\ FromColumn(ToColumn(row.body)) = row.body
  BY <1>4 DEF Bodies, ToColumn, FromColumn
<1>9. Back(Stored(row)) = [key |-> row.key, mark |-> row.mark, body |-> row.body, time |-> time]
  BY <1>7, <1>8 DEF Back
<1>10. Told(This, Back(Stored(row))) = Told(This, row)
  <2>1. CASE This.time = "kept"
    BY <1>4, <1>5, <1>9, <2>1 DEF Told
  <2>2. CASE This.time # "kept"
    BY <1>4, <1>9, <2>2 DEF Told
  <2> QED BY <2>1, <2>2
<1> QED BY <1>4, <1>5, <1>7, <1>8, <1>10 DEF Filed

LEMMA ReadBack ==
  ASSUME NEW this, NEW cell \in Filed
  PROVE  Told(this, Back(cell)).key = cell.key /\ Told(this, Back(cell)).mark = cell.mark
BY ToldIs, BackIs

LEMMA RunsWhole ==
  ASSUME ProjTypes, TableIs(This, table), NEW op \in Ops, ~Collides(op)
  PROVE  /\ Execute1(op) \in SUBSET Filed /\ IsFiniteSet(Execute1(op))
         /\ TableIs(This, Execute1(op))
         /\ \A c \in Execute1(op) :
              c \in table \/ (op \in WriteOps /\ c.key = op.row.key /\ (This.time = "kept" => c.time = op.row.time))
         /\ Answers(This, {Back(c) : c \in Execute1(op)}) = Following(This, op, Answers(This, {Back(c) : c \in table}))
<1>1. table \in SUBSET Filed /\ IsFiniteSet(table) /\ now \in Nat
  BY DEF ProjTypes
<1>2. PICK stay : stay = {r \in table : r.key # op.row.key}
  OBVIOUS
<1>3. stay \subseteq table /\ IsFiniteSet(stay)
  BY <1>1, <1>2, FS_Subset
<1>4. \A c \in table : Told(This, Back(c)).key = c.key
  BY <1>1, ReadBack
<1> HIDE DEF Told, Back, Stored
<1>5. CASE op.op = "clear"
  <2>1. Execute1(op) = {}
    BY <1>5 DEF Execute1
  <2> QED BY <1>5, <2>1, FS_EmptySet DEF TableIs, Following, Answers
<1>6. CASE op.op = "delete"
  <2>1. Execute1(op) = stay
    BY <1>2, <1>6 DEF Execute1
  <2>2. op \notin WriteOps
    BY <1>6, OpIs
  <2>3. Answers(This, {Back(c) : c \in stay}) = Following(This, op, Answers(This, {Back(c) : c \in table}))
    BY <1>2, <1>4, <1>6, <2>2 DEF Following, Answers
  <2> QED BY <1>1, <1>3, <2>1, <2>3 DEF TableIs
<1>7. CASE op \in WriteOps
  <2>1. op.row \in Recs /\ op.op \in {"create", "upsert"}
    BY <1>7, OpIs
  <2>2. PICK cell \in Filed :
          /\ cell = Stored(op.row) /\ cell.key = op.row.key /\ cell.mark = op.row.mark
          /\ This.time = "kept" => cell.time = op.row.time
          /\ Told(This, Back(cell)) = Told(This, op.row)
    BY <1>1, <2>1, StoredIs
  <2>3. Execute1(op) = stay \cup {cell}
    BY <1>2, <2>1, <2>2 DEF Execute1
  <2>4. IsFiniteSet(stay \cup {cell})
    BY <1>3, FS_AddElement
  <2>5. \A c, d \in stay \cup {cell} : c.key = d.key => c = d
    BY <1>2, <2>2 DEF TableIs
  <2>6. This.unique => \A c, d \in stay \cup {cell} : c.mark = d.mark => c = d
    <3> SUFFICES ASSUME This.unique PROVE \A c, d \in stay \cup {cell} : c.mark = d.mark => c = d
      OBVIOUS
    <3>1. \A c \in stay : c.mark # cell.mark
      BY <1>2, <2>1, <2>2 DEF Collides
    <3>2. \A c, d \in stay : c.mark = d.mark => c = d
      BY <1>3 DEF TableIs
    <3> QED BY <3>1, <3>2
  <2>7. Following(This, op, Answers(This, {Back(c) : c \in table})) =
          {a \in Answers(This, {Back(c) : c \in table}) : a.key # op.row.key} \cup {Told(This, op.row)}
    BY <1>7, <2>1 DEF Following
  <2>8. Answers(This, {Back(c) : c \in stay \cup {cell}}) =
          {a \in Answers(This, {Back(c) : c \in table}) : a.key # op.row.key} \cup {Told(This, op.row)}
    BY <1>2, <1>4, <2>2 DEF Answers
  <2> QED BY <1>1, <1>3, <1>7, <2>2, <2>3, <2>4, <2>5, <2>6, <2>7, <2>8 DEF TableIs
<1> QED BY <1>5, <1>6, <1>7, OpIs

LEMMA BarsIs ==
  ASSUME table \in SUBSET Filed, NEW op
  PROVE  Collides(op) <=> Bars(This, op, Answers(This, {Back(c) : c \in table}))
<1>1. \A c \in table : \E a \in Answers(This, {Back(d) : d \in table}) : a.key = c.key /\ a.mark = c.mark
  BY ReadBack DEF Answers
<1>2. \A a \in Answers(This, {Back(d) : d \in table}) : \E c \in table : a.key = c.key /\ a.mark = c.mark
  BY ReadBack DEF Answers
<1>3. PICK set : set = Answers(This, {Back(d) : d \in table})
  OBVIOUS
<1>4. /\ \A c \in table : \E a \in set : a.key = c.key /\ a.mark = c.mark
      /\ \A a \in set : \E c \in table : a.key = c.key /\ a.mark = c.mark
  BY <1>1, <1>2, <1>3
<1>5. (\E r \in table : r.key = op.row.key) <=> \E r \in set : r.key = op.row.key
  BY <1>4
<1>6. (\E r \in table : r.mark = op.row.mark /\ r.key # op.row.key)
      <=> \E r \in set : r.mark = op.row.mark /\ r.key # op.row.key
  BY <1>4
<1>7. Collides(op) <=> Bars(This, op, set)
  BY <1>5, <1>6 DEF Collides, Bars
<1> QED BY <1>3, <1>7

LEMMA RunKeeps == ASSUME ProjInv, RunPending PROVE ProjInv'
<1>1. ProjTypes /\ kind \in Kinds /\ pending \in Seq(Ops) /\ table \in SUBSET Filed
      /\ rows \in Seq(Recs) /\ saves \in Nat /\ now \in Nat
  BY DEF ProjInv, ProjTypes
<1>2. PICK op, rest : op = pending[1] /\ rest = Tail(pending)
  OBVIOUS
<1>3. pending # <<>> /\ op = Head(pending) /\ rest \in Seq(Ops) /\ pending[1] \in Ops /\ op \in Ops
  <2>1. pending # <<>>
    BY DEF RunPending
  <2>2. Len(pending) \in Nat /\ Len(pending) # 0
    BY <1>1, <2>1, EmptySeq, LenProperties
  <2>3. 1 \in DOMAIN pending
    BY <1>1, <2>2, LenProperties
  <2> QED BY <1>1, <1>2, <2>1, <2>3, HeadTailProperties
<1>4. /\ table' = Execute1(op) /\ pending' = rest /\ refused' = (refused \/ Collides(op))
      /\ kind' = kind /\ rows' = rows /\ index' = index /\ saves' = saves /\ inLife' = inLife /\ now' = now
      /\ This' = This
  BY <1>2, <1>3 DEF RunPending, This
<1>5. PICK n \in Nat, m \in Nat : n = Len(pending) /\ m + 1 = n /\ m = Len(rest)
  <2>1. Len(pending) \in Nat /\ Len(pending) # 0
    BY <1>1, <1>3, EmptySeq, LenProperties
  <2>2. Len(rest) = Len(pending) - 1
    BY <1>1, <1>2, <1>3, HeadTailProperties
  <2>3. Len(pending) - 1 \in Nat /\ (Len(pending) - 1) + 1 = Len(pending)
    BY <2>1
  <2> QED BY <2>1, <2>2, <2>3
<1>6. \A j \in 1..m : rest[j] = pending[j + 1]
  BY <1>1, <1>2, <1>3, <1>5, HeadTailProperties
<1>7. TableIs(This, table) /\ (kind \in Minted => Numbered(rows, pending, table, saves))
      /\ (This.list => Timed(rows, pending, table, now))
  BY DEF ProjInv
<1>8. Left(This, pending, table, 1) = Answers(This, {Back(c) : c \in table})
  BY <1>1, LeftFirst
<1>9. Collides(op) <=> Bars(This, pending[1], Left(This, pending, table, 1))
  BY <1>1, <1>2, <1>8, BarsIs
<1>10. 1 \in 1..n
  BY <1>5
<1>11. Collides(op) => Doomed(This, pending, table)
  BY <1>5, <1>9, <1>10 DEF Doomed
<1>12. /\ table' \in SUBSET Filed /\ IsFiniteSet(table') /\ TableIs(This, table')
       /\ \A c \in table' : c \in table \/
            (op \in WriteOps /\ c.key = op.row.key /\ (This.time = "kept" => c.time = op.row.time))
  <2>1. CASE Collides(op)
    <3>1. table' = table
      <4>1. op.op # "clear" /\ op.op # "delete"
        BY <2>1 DEF Collides
      <4>2. Execute1(op) = table
        BY <2>1, <4>1 DEF Execute1
      <4> QED BY <1>4, <4>2
    <3> QED BY <1>1, <1>7, <3>1 DEF ProjTypes
  <2>2. CASE ~Collides(op)
    BY <1>1, <1>3, <1>4, <1>7, <2>2, RunsWhole
  <2> QED BY <2>1, <2>2
<1>13. ProjTypes'
  <2>1. refused' \in BOOLEAN /\ index \in [Marks -> Nat] /\ inLife \in Nat
    BY <1>1, <1>4 DEF ProjTypes
  <2> QED BY <1>1, <1>3, <1>4, <1>12, <2>1 DEF ProjTypes
<1>14. ASSUME ~Collides(op), NEW j \in 1..n PROVE Left(This, rest, table', j) = Left(This, pending, table, j + 1)
  <2>1. Answers(This, {Back(c) : c \in table'}) = Following(This, op, Answers(This, {Back(c) : c \in table}))
    BY <1>1, <1>3, <1>4, <1>7, <1>14, RunsWhole
  <2>2. Brought(This, Tail(pending), table', 0) = Following(This, pending[1], Brought(This, pending, table, 0))
    BY <1>2, <2>1 DEF Brought
  <2>3. j \in 1..Len(pending)
    BY <1>5
  <2>4. Left(This, Tail(pending), table', j) = Left(This, pending, table, j + 1)
    BY <1>1, <1>3, <1>12, <2>2, <2>3, LeftShifts
  <2> QED BY <1>2, <2>4
<1>15. ASSUME ~Collides(op) PROVE Doomed(This, rest, table') <=> Doomed(This, pending, table)
  <2>1. \A j \in 1..m : j \in 1..n /\ j + 1 \in 1..n
    BY <1>5
  <2>2. \A j \in 1..m : Left(This, rest, table', j) = Left(This, pending, table, j + 1)
    BY <1>14, <1>15, <2>1
  <2>3. ASSUME NEW j \in 1..n, j # 1 PROVE \E i \in 1..m : i + 1 = j
    <3>1. j - 1 \in 1..m /\ (j - 1) + 1 = j
      BY <1>5, <2>3
    <3> QED BY <3>1
  <2>4. \A j \in 1..m : Bars(This, rest[j], Left(This, rest, table', j))
                        <=> Bars(This, pending[j + 1], Left(This, pending, table, j + 1))
    BY <1>6, <2>2
  <2>5. ~Bars(This, pending[1], Left(This, pending, table, 1))
    BY <1>9, <1>15
  <2> HIDE DEF Bars, Left
  <2>6. ASSUME Doomed(This, rest, table') PROVE Doomed(This, pending, table)
    BY <1>5, <2>1, <2>4, <2>6 DEF Doomed
  <2>7. ASSUME Doomed(This, pending, table) PROVE Doomed(This, rest, table')
    <3>1. PICK j \in 1..n : Bars(This, pending[j], Left(This, pending, table, j))
      BY <1>5, <2>7 DEF Doomed
    <3>2. PICK i \in 1..m : i + 1 = j
      BY <2>3, <2>5, <3>1
    <3>3. Bars(This, rest[i], Left(This, rest, table', i))
      BY <2>4, <3>1, <3>2
    <3> QED BY <1>5, <3>3 DEF Doomed
  <2> QED BY <2>6, <2>7
<1>16. ~refused' => Agrees(This, rows', pending', table')
  <2> SUFFICES ASSUME ~refused', ~Doomed(This, rest, table')
               PROVE  Answers(This, Of(rows)) = Left(This, rest, table', m + 1)
    BY <1>4, <1>5 DEF Agrees
  <2>1. ~refused /\ ~Collides(op)
    BY <1>1, <1>4 DEF ProjTypes
  <2>2. Answers(This, Of(rows)) = Left(This, pending, table, n + 1)
    BY <1>5, <1>15, <2>1 DEF ProjInv, Agrees
  <2>3. n \in 1..n
    BY <1>5
  <2> QED BY <1>5, <1>14, <2>1, <2>2, <2>3
<1>17. kind # "requestLog" => ~refused' /\ ~Doomed(This, pending', table')
  BY <1>4, <1>11, <1>15 DEF ProjInv
<1>18. \A j \in 1..m : j + 1 \in 1..n
  BY <1>5
<1>19. kind \in Minted => Numbered(rows', pending', table', saves')
  <2> SUFFICES ASSUME kind \in Minted PROVE Numbered(rows, rest, table', saves)
    BY <1>4
  <2>1. Numbered(rows, pending, table, saves)
    BY <1>7
  <2>2. \A j \in 1..m : rest[j] \in WriteOps => rest[j].row.key <= saves
    BY <1>5, <1>6, <1>18, <2>1 DEF Numbered
  <2>3. op \in WriteOps => op.row.key <= saves
    BY <1>2, <1>5, <1>10, <2>1 DEF Numbered
  <2>4. \A c \in table' : c.key <= saves
    BY <1>12, <2>1, <2>3 DEF Numbered
  <2> QED BY <1>5, <2>1, <2>2, <2>4 DEF Numbered
<1>20. This.list => Timed(rows', pending', table', now')
  <2> SUFFICES ASSUME This.list PROVE Timed(rows, rest, table', now)
    BY <1>4
  <2>1. Timed(rows, pending, table, now) /\ This.time = "kept"
    BY <1>1, <1>7, TraitsAre
  <2>2. \A j \in 1..m : rest[j] \in WriteOps => rest[j].row.time <= now
    BY <1>5, <1>6, <1>18, <2>1 DEF Timed
  <2>3. op \in WriteOps => op.row.time <= now
    BY <1>2, <1>5, <1>10, <2>1 DEF Timed
  <2>4. \A c \in table' : c.time <= now
    BY <1>12, <2>1, <2>3 DEF Timed
  <2> QED BY <1>5, <2>1, <2>2, <2>4 DEF Timed
<1> QED BY <1>4, <1>12, <1>13, <1>16, <1>17, <1>19, <1>20 DEF ProjInv

-----------------------------------------------------------------------------
(* The next process. *)

LEMMA OrderIs ==
  ASSUME ProjTypes, NEW s \in Orders(table)
  PROVE  /\ \A i, j \in DOMAIN s : s[i] = s[j] => i = j
         /\ {s[i] : i \in DOMAIN s} = table
         /\ \E n \in Nat : DOMAIN s = 1..n
<1>1. IsFiniteSet(table) /\ Cardinality(table) \in Nat
  BY FS_CardinalityType DEF ProjTypes
<1>2. PICK n \in Nat : n = Cardinality(table)
  BY <1>1
<1>3. s \in [1..n -> table] /\ \A i, j \in DOMAIN s : i # j => s[i] # s[j]
  BY <1>2 DEF Orders
<1>4. s \in Injection(1..n, table)
  BY <1>3, Fun_IsInj
<1>5. Cardinality(1..n) = n
  BY FS_Interval
<1>6. s \in Surjection(1..n, table)
  BY <1>1, <1>2, <1>4, <1>5, FS_Injection
<1>7. \A c \in table : \E i \in 1..n : s[i] = c
  BY <1>6 DEF Surjection
<1> QED BY <1>3, <1>7

LEMMA RestartKeeps == ASSUME ProjInv, Restart PROVE ProjInv'
<1>1. ProjTypes /\ kind \in Kinds /\ table \in SUBSET Filed /\ saves \in Nat /\ now \in Nat
      /\ TableIs(This, table)
  BY DEF ProjInv, ProjTypes
<1>2. PICK s \in Orders(table) : rows' = [i \in DOMAIN s |-> [s[i] EXCEPT !.body = FromColumn(@)]]
  BY DEF Restart
<1>3. /\ index' = IndexOf(table) /\ pending' = <<>> /\ inLife' = 0 /\ refused' = FALSE
      /\ kind' = kind /\ table' = table /\ saves' = saves /\ now' = now /\ This' = This
  BY DEF Restart, This
<1>4. PICK n \in Nat : DOMAIN s = 1..n
  BY <1>1, OrderIs
<1>5. DOMAIN rows' = 1..n /\ \A i \in 1..n : rows'[i] = Back(s[i])
  BY <1>2, <1>4 DEF Back
<1>6. /\ \A i, j \in 1..n : s[i] = s[j] => i = j
      /\ \A i \in 1..n : s[i] \in table
      /\ \A c \in table : \E i \in 1..n : s[i] = c
  BY <1>1, <1>4, OrderIs
<1>7. \A c \in table : Back(c) \in Recs /\ Back(c).key = c.key /\ Back(c).mark = c.mark /\ Back(c).time = c.time
  BY <1>1, BackIs
<1>8. rows' \in Seq(Recs)
  <2>1. rows' = [i \in 1..n |-> Back(s[i])]
    BY <1>2, <1>4 DEF Back
  <2>2. rows' \in [1..n -> Recs]
    BY <1>6, <1>7, <2>1
  <2> QED BY <2>2, SeqDef
<1>9. Of(rows') = {Back(c) : c \in table}
  BY <1>5, <1>6 DEF Of
<1>10. \A c \in table : c.key \in Nat \ {0} /\ c.mark \in Marks /\ c.time \in Nat
  BY <1>1 DEF Filed
<1> HIDE DEF Back
<1>11. index' \in [Marks -> Nat]
  <2>1. \A m \in Marks : (\E r \in table : r.mark = m) => (CHOOSE r \in table : r.mark = m) \in table
    OBVIOUS
  <2> QED BY <1>3, <1>10, <2>1 DEF IndexOf
<1>12. <<>> \in Seq(Ops) /\ Len(<<>>) = 0
  BY EmptySeq
<1>13. ProjTypes'
  <2>1. IsFiniteSet(table)
    BY <1>1 DEF ProjTypes
  <2> QED BY <1>1, <1>3, <1>8, <1>11, <1>12, <2>1 DEF ProjTypes
<1>14. ~Doomed(This, pending', table')
  BY <1>3, <1>12 DEF Doomed
<1>15. Agrees(This, rows', pending', table')
  <2>1. Left(This, <<>>, table, 1) = Answers(This, {Back(cell) : cell \in table})
    BY <1>1, <1>12, LeftFirst
  <2>2. Len(pending') + 1 = 1
    BY <1>3, <1>12
  <2> QED BY <1>3, <1>9, <2>1, <2>2 DEF Agrees
<1>16. kind \in Minted => Numbered(rows', pending', table', saves')
  <2>1. Numbered(rows, pending, table, saves) => \A c \in table : c.key <= saves
    BY DEF Numbered
  <2>2. (\A c \in table : c.key <= saves) => \A r \in Of(rows') : r.key <= saves
    BY <1>7, <1>9
  <2> QED BY <1>3, <1>12, <2>1, <2>2 DEF ProjInv, Numbered
<1>17. Keyed(rows')
  <2> SUFFICES ASSUME NEW i \in 1..n, NEW j \in 1..n, rows'[i].key = rows'[j].key PROVE i = j
    BY <1>5 DEF Keyed
  <2>1. s[i].key = s[j].key
    BY <1>5, <1>6, <1>7
  <2>2. s[i] = s[j]
    BY <1>1, <1>6, <2>1 DEF TableIs
  <2> QED BY <1>6, <2>2
<1>18. IndexIs(This, rows', index')
  <2>1. CASE This.unique /\ ~This.list
    <3>1. \A c, d \in table : c.mark = d.mark => c = d
      BY <1>1, <2>1 DEF TableIs
    <3>2. \A c \in table : index'[c.mark] = c.key
      <4> SUFFICES ASSUME NEW c \in table PROVE index'[c.mark] = c.key
        OBVIOUS
      <4>1. (CHOOSE r \in table : r.mark = c.mark) = c
        BY <3>1
      <4> QED BY <1>3, <1>10, <2>1, <4>1 DEF IndexOf
    <3>3. ASSUME NEW m \in Marks, index'[m] # 0 PROVE \E c \in table : c.mark = m /\ c.key = index'[m]
      <4>1. \E c \in table : c.mark = m
        BY <1>3, <3>3 DEF IndexOf
      <4> QED BY <3>2, <4>1
    <3>4. \A r \in Of(rows') : \E c \in table : r.key = c.key /\ r.mark = c.mark
      BY <1>7, <1>9
    <3>5. \A c \in table : \E r \in Of(rows') : r.key = c.key /\ r.mark = c.mark
      BY <1>7, <1>9
    <3>6. \A r \in Of(rows') : index'[r.mark] = r.key
      BY <3>2, <3>4
    <3>7. ASSUME NEW m \in Marks, index'[m] # 0 PROVE \E r \in Of(rows') : r.mark = m /\ r.key = index'[m]
      BY <3>3, <3>5, <3>7
    <3> QED BY <2>1, <3>6, <3>7 DEF IndexIs
  <2>2. CASE ~(This.unique /\ ~This.list)
    BY <1>3, <2>2 DEF IndexIs, IndexOf, NoIndex
  <2> QED BY <2>1, <2>2
<1>19. This.list => Timed(rows', pending', table', now')
  <2> SUFFICES ASSUME This.list PROVE Timed(rows', pending', table', now')
    OBVIOUS
  <2>1. Timed(rows, pending, table, now) /\ This.ordered
    BY <1>1, TraitsAre DEF ProjInv
  <2>2. \A c \in table : c.time <= now
    BY <2>1 DEF Timed
  <2>3. \A r \in Of(rows') : r.time <= now
    BY <1>7, <1>9, <2>2
  <2>4. \A i, j \in 1..n : i < j => s[i].time <= s[j].time
    BY <1>4, <2>1 DEF Orders
  <2>5. \A i \in 1..n : rows'[i].time = s[i].time
    BY <1>5, <1>6, <1>7
  <2>6. Rises(rows')
    BY <1>5, <2>4, <2>5 DEF Rises
  <2> QED BY <1>3, <1>12, <2>2, <2>3, <2>6 DEF Timed
<1> QED BY <1>1, <1>3, <1>13, <1>14, <1>15, <1>16, <1>17, <1>18, <1>19 DEF ProjInv

LEMMA LaterKeeps == ASSUME ProjInv, Later PROVE ProjInv'
<1>1. /\ kind' = kind /\ rows' = rows /\ index' = index /\ pending' = pending /\ table' = table
      /\ saves' = saves /\ inLife' = inLife /\ refused' = refused /\ This' = This /\ now' = now + 1
  BY DEF Later, This
<1>2. ProjTypes /\ rows \in Seq(Recs) /\ pending \in Seq(Ops) /\ table \in SUBSET Filed /\ now \in Nat
  BY DEF ProjInv, ProjTypes
<1>3. ProjTypes'
  BY <1>1, <1>2 DEF ProjTypes
<1>4. This.list => Timed(rows', pending', table', now')
  <2> SUFFICES ASSUME This.list PROVE Timed(rows, pending, table, now + 1)
    BY <1>1
  <2>1. Timed(rows, pending, table, now)
    BY DEF ProjInv
  <2>2. \A k \in Nat : k <= now => k <= now + 1
    BY <1>2
  <2>3. \A r \in Of(rows) : r.time <= now + 1
    BY <1>2, <2>1, <2>2, OfIs DEF Timed
  <2>4. \A c \in table : c.time <= now + 1
    <3>1. \A c \in table : c.time \in Nat
      BY <1>2 DEF Filed
    <3> QED BY <2>1, <2>2, <3>1 DEF Timed
  <2>5. \A j \in 1..Len(pending) : pending[j] \in WriteOps => pending[j].row.time <= now + 1
    <3>1. \A j \in 1..Len(pending) : pending[j] \in WriteOps => pending[j].row.time \in Nat
      BY DEF WriteOps, Recs
    <3> QED BY <2>1, <2>2, <3>1 DEF Timed
  <2> QED BY <2>1, <2>3, <2>4, <2>5 DEF Timed
<1> QED BY <1>1, <1>3, <1>4 DEF ProjInv

LEMMA ProjStep == ProjInv /\ [ProjectionNext]_projectionVars => ProjInv'
<1> SUFFICES ASSUME ProjInv, [ProjectionNext]_projectionVars PROVE ProjInv'
  OBVIOUS
<1>1. ASSUME NEW mark \in Marks, NEW body \in Bodies, LogRow(mark, body) PROVE ProjInv'
  BY <1>1, SavesKeep
<1>2. ASSUME NEW email \in Marks, NewUser(email) \/ NewSession(email) PROVE ProjInv'
  BY <1>2, SavesKeep DEF Bodies
<1>3. ASSUME NEW key \in RowNames, NEW mark \in Marks, NEW body \in Bodies,
             Upsert(key, mark, body) \/ UpsertProfile(key, mark, body)
      PROVE  ProjInv'
  BY <1>3, SavesKeep
<1>4. ASSUME NEW persona \in Marks, NEW body \in Bodies, UpsertPersona(persona, body) PROVE ProjInv'
  BY <1>4, SavesKeep
<1>5. ASSUME NEW token \in 1..MaxSaves, DeleteSession(token) PROVE ProjInv'
  <2>1. token \in Nat
    BY MaxSavesAssumption
  <2> QED BY <1>5, <2>1, DeleteKeeps
<1>6. CASE UNCHANGED projectionVars
  <2>1. /\ kind' = kind /\ rows' = rows /\ index' = index /\ pending' = pending /\ table' = table
        /\ saves' = saves /\ inLife' = inLife /\ refused' = refused /\ now' = now
    BY <1>6 DEF projectionVars
  <2>2. This' = This
    BY <2>1 DEF This
  <2>3. ProjTypes'
    BY <2>1 DEF ProjInv, ProjTypes
  <2> QED BY <2>1, <2>2, <2>3 DEF ProjInv
<1> QED
  BY <1>1, <1>2, <1>3, <1>4, <1>5, <1>6, ClearKeeps, RunKeeps, RestartKeeps, LaterKeeps DEF ProjectionNext

LEMMA ProjHolds == ProjInv => RestartAnswersAlike
<1> SUFFICES ASSUME ProjInv PROVE RestartAnswersAlike
  OBVIOUS
<1>1. ProjTypes /\ kind \in Kinds /\ rows \in Seq(Recs) /\ table \in SUBSET Filed /\ index \in [Marks -> Nat]
  BY DEF ProjInv, ProjTypes
<1>2. refused => kind = "requestLog"
  BY DEF ProjInv
<1>3. ASSUME pending = <<>>, ~refused PROVE Answers(This, Of(rows)) = Answers(This, {Back(c) : c \in table})
  <2>1. <<>> \in Seq(Ops) /\ Len(<<>>) = 0
    BY EmptySeq
  <2>2. ~Doomed(This, pending, table)
    BY <1>3, <2>1 DEF Doomed
  <2>3. Len(pending) + 1 = 1
    BY <1>3, <2>1
  <2>4. Answers(This, Of(rows)) = Left(This, pending, table, 1)
    BY <1>3, <2>2, <2>3 DEF ProjInv, Agrees
  <2>5. Left(This, pending, table, 1) = Answers(This, {Back(c) : c \in table})
    BY <1>1, <1>3, <2>1, LeftFirst
  <2> QED BY <2>4, <2>5
<1>4. ASSUME pending = <<>>, ~refused
      PROVE  {Answer(r) : r \in InRows} = {Answer([r EXCEPT !.body = FromColumn(@)]) : r \in table}
  <2>1. \A r : Answer(r) = Told(This, r)
    BY DEF Answer, Told
  <2>2. InRows = Of(rows)
    BY DEF InRows, Of
  <2>3. {Answer([r EXCEPT !.body = FromColumn(@)]) : r \in table} = Answers(This, {Back(c) : c \in table})
    <3> HIDE DEF Told
    <3> QED BY <2>1 DEF Answers, Back
  <2> QED BY <1>3, <1>4, <2>1, <2>2, <2>3 DEF Answers
<1>5. ASSUME pending = <<>>, ~refused PROVE index = IndexOf(table)
  <2>1. CASE This.unique /\ ~This.list
    <3>1. /\ \A r \in Of(rows) : index[r.mark] = r.key
          /\ \A m \in Marks : index[m] # 0 => \E r \in Of(rows) : r.mark = m /\ r.key = index[m]
      BY <2>1 DEF ProjInv, IndexIs
    <3>2. \A r \in Of(rows) : r \in Recs
      BY <1>1, OfIs
    <3>3. \A c \in table : \E r \in Of(rows) : r.key = c.key /\ r.mark = c.mark
      <4> SUFFICES ASSUME NEW c \in table PROVE \E r \in Of(rows) : r.key = c.key /\ r.mark = c.mark
        OBVIOUS
      <4>1. Told(This, Back(c)) \in Answers(This, Of(rows))
        BY <1>3, <1>5 DEF Answers
      <4>2. PICK r \in Of(rows) : Told(This, r) = Told(This, Back(c))
        BY <4>1 DEF Answers
      <4>3. Told(This, r).key = r.key /\ Told(This, r).mark = r.mark
        BY <3>2, ToldIs
      <4> QED BY <1>1, <4>2, <4>3, ReadBack
    <3>4. \A r \in Of(rows) : \E c \in table : r.key = c.key /\ r.mark = c.mark
      <4> SUFFICES ASSUME NEW r \in Of(rows) PROVE \E c \in table : r.key = c.key /\ r.mark = c.mark
        OBVIOUS
      <4>1. Told(This, r) \in Answers(This, {Back(c) : c \in table})
        BY <1>3, <1>5 DEF Answers
      <4>2. PICK c \in table : Told(This, r) = Told(This, Back(c))
        BY <4>1 DEF Answers
      <4>3. Told(This, r).key = r.key /\ Told(This, r).mark = r.mark
        BY <3>2, ToldIs
      <4> QED BY <1>1, <4>2, <4>3, ReadBack
    <3>5. \A c \in table : index[c.mark] = c.key
      BY <3>1, <3>3
    <3>6. ASSUME NEW m \in Marks
          PROVE  index[m] = IF \E r \in table : r.mark = m THEN (CHOOSE r \in table : r.mark = m).key ELSE 0
      <4>1. CASE \E r \in table : r.mark = m
        <5>1. PICK c \in table : c = (CHOOSE r \in table : r.mark = m) /\ c.mark = m
          BY <4>1
        <5> QED BY <3>5, <4>1, <5>1
      <4>2. CASE ~\E r \in table : r.mark = m
        BY <3>1, <3>4, <4>2
      <4> QED BY <4>1, <4>2
    <3> QED BY <1>1, <2>1, <3>6 DEF IndexOf
  <2>2. CASE ~(This.unique /\ ~This.list)
    BY <2>2 DEF ProjInv, IndexIs, IndexOf, NoIndex
  <2> QED BY <2>1, <2>2
<1>6. This.list => \A i, j \in DOMAIN rows : i < j => rows[i].time <= rows[j].time
  BY DEF ProjInv, Timed, Rises
<1> QED BY <1>2, <1>4, <1>5, <1>6 DEF RestartAnswersAlike

\* A process hydrated from the table answers every read as the one before it did when
\* its queue had drained, and only the request log, whose ids start again in every
\* process, ever has a write refused (repositories.ts over prisma_repos.ts).
THEOREM ProcessesAnswerAlike == ProjectionInit /\ [][ProjectionNext]_projectionVars => []RestartAnswersAlike
<1>1. ProjectionInit /\ [][ProjectionNext]_projectionVars => []ProjInv
  BY ProjStarts, ProjStep, PTL
<1> QED BY <1>1, ProjHolds, PTL

-----------------------------------------------------------------------------
(* All of it, in one behaviour, which moves one of the parts. *)

partsVars == <<part, vars, redisVars, storeVars, projectionVars, kafkaVars, batchVars, portraitVars>>

\* A step of the whole is a step of each part, or leaves it as it is.
LEMMA PartsStep ==
  [PartsNext]_partsVars =>
    /\ [Next]_vars /\ [RedisNext]_redisVars /\ [StoreNext]_storeVars
    /\ [ProjectionNext]_projectionVars /\ [PortraitNext]_portraitVars
BY DEF PartsNext, partsVars

\* What has to outlive a crash, whichever part moves: no worker that lost a slice has
\* the token of its holder, and the lease is a lock; on a network without delays the
\* Redis lease excludes; Postgres mirrors what readers see, knows no session without
\* its account and has all of what a clean exit flushed; the next process answers as
\* the last one did; and a portrait is its own style's and persona's.
THEOREM DurableHolds ==
  PartsSpec =>
    /\ [](/\ NoDoubleClaim /\ StaleIsFenced /\ RedisNoDoubleClaim /\ Mirror /\ NoOrphanSession
         /\ RestartAnswersAlike /\ LikenessIsOwn)
    /\ ImplementsLock /\ CleanExitIsDurable
<1>1. PartsInit => LeaseInv /\ RedisInv /\ StoreInv /\ ProjInv /\ PortraitInv
  BY LeaseStarts, InitRedisInv, StoreStarts, ProjStarts, PortraitInitial DEF PartsInit
<1>2. /\ LeaseInv /\ [PartsNext]_partsVars => LeaseInv'
      /\ RedisInv /\ [PartsNext]_partsVars => RedisInv'
      /\ StoreInv /\ [PartsNext]_partsVars => StoreInv'
      /\ ProjInv /\ [PartsNext]_partsVars => ProjInv'
      /\ PortraitInv /\ [PartsNext]_partsVars => PortraitInv'
  BY PartsStep, LeaseStep, NextInv, StoreStep, ProjStep, PortraitStep
<1>3. PartsSpec => [](LeaseInv /\ RedisInv /\ StoreInv /\ ProjInv /\ PortraitInv)
  BY <1>1, <1>2, PTL DEF PartsSpec, partsVars
<1>4. LeaseInv => NoDoubleClaim /\ StaleIsFenced
  BY DEF LeaseInv, ClaimsMatch, NoDoubleClaim
<1>5. RedisInv => RedisNoDoubleClaim
  BY RedisInvSuffices
<1>6. StoreInv => Mirror /\ NoOrphanSession
  BY DEF StoreInv, NoOrphansAhead, NoOrphanSession
<1>7. ProjInv => RestartAnswersAlike
  BY ProjHolds
<1>8. PortraitInv => LikenessIsOwn
  BY PortraitInvSuffices
<1>9. PartsSpec => ImplementsLock
  <2>1. PartsInit => Lock!Init
    BY LockInit DEF PartsInit
  <2>2. LeaseInv /\ [PartsNext]_partsVars => [Lock!Next]_<<Owner, tokens>>
    BY PartsStep, LockStep
  <2> QED BY <1>3, <2>1, <2>2, PTL DEF PartsSpec, partsVars, ImplementsLock, Lock!Spec
<1>10. PartsSpec => CleanExitIsDurable
  <2>1. StoreInv /\ [PartsNext]_partsVars => [ExitClean => Drained]_storeVars
    BY PartsStep, CleanExitStep
  <2>2. PartsSpec => [][ExitClean => Drained]_storeVars
    BY <1>3, <2>1, PTL DEF PartsSpec, partsVars
  <2> QED BY <2>2, PTL DEF CleanExitIsDurable, Drained
<1> QED BY <1>3, <1>4, <1>5, <1>6, <1>7, <1>8, <1>9, <1>10, PTL
=============================================================================
