-------------------------- MODULE CreatorPayoutProofs --------------------------
(***************************************************************************)
(* Theorems about creator payouts, for any number of creators, requests,   *)
(* accounts and verification sessions.                                     *)
(***************************************************************************)
EXTENDS CreatorPayout, FiniteSetTheorems, TLAPS

VerifySteps == {"account", "session", "link"}
CheckSteps == {"check", "checkSession", "checkAccount", "checked"}
Identity == [owner : Creators, status : Statuses]
ProfileSet(n, m) == [account : 0..n, session : 0..m, cache : Caches]
RequestSet(n, m) ==
  [step : {"idle"} \cup VerifySteps \cup CheckSteps, creator : Creators \cup {Nobody},
   cache : Caches, account : 0..n, session : 0..m, passed : BOOLEAN, fresh : BOOLEAN]

\* The ids that a profile or a request holds are of things made for its creator.
Owns(p, c, cs, ids) ==
  /\ p.account # 0 => cs[p.account] = c
  /\ p.session # 0 => ids[p.session].owner = c

\* What a payout knows of the checks it has made.
Checked(q, ids, en) == q.step \in CheckSteps =>
  /\ q.account \in en => q.fresh
  /\ q.step \in {"checkAccount", "checked"} /\ q.passed => ids[q.session].status = "verified"
  /\ q.step \in {"checkSession", "checked"} /\ q.passed => q.fresh

Sound(q, cs, ids, en) ==
  /\ q.step = "idle" => q = Idle
  /\ q.step # "idle" =>
       /\ q.creator \in Creators /\ Owns(q, q.creator, cs, ids)
       /\ q.account = 0 <=> q.step = "account"
       /\ q.step \notin {"account", "session"} => q.session # 0
       /\ Checked(q, ids, en)

ProfilesOwn == \A c \in Creators : Owns(profile[c], c, connects, identities)
RequestsSound == \A r \in Requests : Sound(request[r], connects, identities, enabled)
EventsTrue == \A e \in sent : e.status = "verified" => identities[e.session].status = "verified"

\* Where the one account of an undisturbed creator is known.
Busy(q, c) == q.creator = c /\ q.step \in VerifySteps
AccountKnown(c) ==
  /\ \A a \in DOMAIN connects : connects[a] = c =>
       a = profile[c].account \/ \E r \in Requests : Busy(request[r], c) /\ request[r].account = a
  /\ profile[c].account # 0 =>
       \A r \in Requests : Busy(request[r], c) => request[r].account = profile[c].account
  /\ profile[c].account = 0 =>
       \A r, s \in Requests : Busy(request[r], c) /\ Busy(request[s], c) => r = s
AccountsKnown == \A c \in Creators \ disturbed : AccountKnown(c)

IInv == /\ PayoutTypeOK /\ ProfilesOwn /\ RequestsSound /\ EventsTrue
        /\ CacheHonest /\ AccountsKnown

-----------------------------------------------------------------------------
(* Types. *)

\* The type invariant in the terms of this module.
LEMMA TypesUnfolded ==
  PayoutTypeOK <=>
    /\ connects \in Seq(Creators) /\ identities \in Seq(Identity)
    /\ enabled \subseteq DOMAIN connects
    /\ sent \subseteq [session : DOMAIN identities, status : Statuses]
    /\ profile \in [Creators -> ProfileSet(Len(connects), Len(identities))]
    /\ request \in [Requests -> RequestSet(Len(connects), Len(identities))]
    /\ disturbed \subseteq Creators
<1>1. {"idle", "account", "session", "link", "check", "checkSession", "checkAccount", "checked"}
        = {"idle"} \cup VerifySteps \cup CheckSteps
  BY DEF VerifySteps, CheckSteps
<1> QED BY <1>1, Zenon DEF PayoutTypeOK, Identity, ProfileSet, RequestSet, Profiles

LEMMA TypesUnfoldedNext ==
  PayoutTypeOK' <=>
    /\ connects' \in Seq(Creators) /\ identities' \in Seq(Identity)
    /\ enabled' \subseteq DOMAIN connects'
    /\ sent' \subseteq [session : DOMAIN identities', status : Statuses]
    /\ profile' \in [Creators -> ProfileSet(Len(connects'), Len(identities'))]
    /\ request' \in [Requests -> RequestSet(Len(connects'), Len(identities'))]
    /\ disturbed' \subseteq Creators
<1>1. {"idle", "account", "session", "link", "check", "checkSession", "checkAccount", "checked"}
        = {"idle"} \cup VerifySteps \cup CheckSteps
  BY DEF VerifySteps, CheckSteps
<1> QED BY <1>1, Zenon DEF PayoutTypeOK, Identity, ProfileSet, RequestSet, Profiles

\* What is typed stays so when Stripe has made more.
LEMMA SetsGrow ==
  ASSUME NEW n \in Nat, NEW m \in Nat, NEW n2 \in Nat, NEW m2 \in Nat, n <= n2, m <= m2
  PROVE  /\ ProfileSet(n, m) \subseteq ProfileSet(n2, m2)
         /\ RequestSet(n, m) \subseteq RequestSet(n2, m2)
<1>1. 0..n \subseteq 0..n2 /\ 0..m \subseteq 0..m2
  OBVIOUS
<1> QED BY <1>1, Zenon DEF ProfileSet, RequestSet

LEMMA Fields ==
  ASSUME PayoutTypeOK
  PROVE  /\ Len(connects) \in Nat /\ Len(identities) \in Nat
         /\ DOMAIN connects = 1..Len(connects) /\ DOMAIN identities = 1..Len(identities)
         /\ \A a \in DOMAIN connects : connects[a] \in Creators
         /\ \A s \in DOMAIN identities : identities[s] \in Identity
         /\ \A c \in Creators : profile[c] \in ProfileSet(Len(connects), Len(identities))
         /\ \A r \in Requests : request[r] \in RequestSet(Len(connects), Len(identities))
BY TypesUnfolded

\* A step of one request that Stripe has no part in.
LEMMA RequestTypes ==
  ASSUME PayoutTypeOK, NEW r \in Requests,
         NEW new \in RequestSet(Len(connects), Len(identities)),
         request' = [request EXCEPT ![r] = new],
         profile' \in [Creators -> ProfileSet(Len(connects), Len(identities))],
         UNCHANGED stripe, disturbed' \subseteq Creators
  PROVE  PayoutTypeOK'
<1>1. request' \in [Requests -> RequestSet(Len(connects), Len(identities))]
  BY TypesUnfolded
<1> QED BY <1>1, TypesUnfolded, TypesUnfoldedNext, Zenon DEF stripe

LEMMA IdleTyped ==
  ASSUME NEW n \in Nat, NEW m \in Nat
  PROVE  Idle \in RequestSet(n, m) /\ NoProfile \in ProfileSet(n, m)
<1>1. 0 \in 0..n /\ 0 \in 0..m
  OBVIOUS
<1>2. "none" \in Caches
  BY DEF Caches
<1> QED BY <1>1, <1>2, Zenon DEF Idle, NoProfile, RequestSet, ProfileSet

LEMMA TypesInit == PayoutInit => PayoutTypeOK
<1> SUFFICES ASSUME PayoutInit PROVE PayoutTypeOK
  OBVIOUS
<1>1. Len(connects) = 0 /\ Len(identities) = 0 /\ connects \in Seq(Creators) /\ identities \in Seq(Identity)
  BY DEF PayoutInit
<1>2. Idle \in RequestSet(0, 0) /\ NoProfile \in ProfileSet(0, 0)
  BY IdleTyped
<1> QED BY <1>1, <1>2, TypesUnfolded, Zenon DEF PayoutInit

LEMMA StartVerificationTypes ==
  ASSUME PayoutTypeOK, NEW r \in Requests, NEW c \in Creators, StartVerification(r, c)
  PROVE  PayoutTypeOK'
<1> DEFINE new == [Idle EXCEPT !.step = NextNeeded(profile[c]), !.creator = c,
                               !.cache = profile[c].cache, !.account = profile[c].account]
<1>1. /\ Idle \in RequestSet(Len(connects), Len(identities))
      /\ profile[c] \in ProfileSet(Len(connects), Len(identities))
  BY Fields, IdleTyped
<1>2. NextNeeded(profile[c]) \in VerifySteps
  BY DEF NextNeeded, VerifySteps
<1>3. new \in RequestSet(Len(connects), Len(identities))
  BY <1>1, <1>2 DEF RequestSet, ProfileSet
<1>4. request' = [request EXCEPT ![r] = new] /\ disturbed' \subseteq Creators
  BY TypesUnfolded DEF StartVerification
<1> HIDE DEF new
<1> QED BY <1>3, <1>4, RequestTypes, TypesUnfolded DEF StartVerification

LEMMA StartPayoutTypes ==
  ASSUME PayoutTypeOK, NEW r \in Requests, NEW c \in Creators, StartPayout(r, c)
  PROVE  PayoutTypeOK'
<1> DEFINE fresh == profile[c].account \in enabled
           new == [Idle EXCEPT !.step = "check", !.creator = c, !.account = profile[c].account,
                               !.session = profile[c].session, !.fresh = fresh]
<1>1. /\ Idle \in RequestSet(Len(connects), Len(identities))
      /\ profile[c] \in ProfileSet(Len(connects), Len(identities))
  BY Fields, IdleTyped
<1>2. fresh \in BOOLEAN
  OBVIOUS
<1>4. request' = [request EXCEPT ![r] = new] /\ disturbed' \subseteq Creators
  BY TypesUnfolded DEF StartPayout
<1>3. new \in RequestSet(Len(connects), Len(identities))
  <2> HIDE DEF fresh
  <2> QED BY <1>1, <1>2 DEF RequestSet, ProfileSet, CheckSteps
<1> HIDE DEF new
<1> QED BY <1>3, <1>4, RequestTypes, TypesUnfolded DEF StartPayout

\* A step that hands the slot of a request back.
LEMMA ReturnTypes ==
  ASSUME PayoutTypeOK, NEW r \in Requests, Return(r),
         profile' \in [Creators -> ProfileSet(Len(connects), Len(identities))],
         UNCHANGED stripe, disturbed' \subseteq Creators
  PROVE  PayoutTypeOK'
<1>1. Idle \in RequestSet(Len(connects), Len(identities))
  BY Fields, IdleTyped
<1> QED BY <1>1, RequestTypes DEF Return

LEMMA PersistTypes ==
  ASSUME PayoutTypeOK, NEW r \in Requests, request[r].creator \in Creators, Persist(r)
  PROVE  PayoutTypeOK'
<1> DEFINE q == request[r]
           new == [account |-> q.account, session |-> q.session,
                   cache |-> IF q.cache = "none" THEN "pending" ELSE q.cache]
<1>1. q \in RequestSet(Len(connects), Len(identities))
  BY Fields
<1>2. new \in ProfileSet(Len(connects), Len(identities))
  <2> HIDE DEF q
  <2> QED BY <1>1 DEF RequestSet, ProfileSet, Caches
<1>3. profile' = [profile EXCEPT ![q.creator] = new]
  BY DEF Persist
<1> HIDE DEF new
<1>4. profile' \in [Creators -> ProfileSet(Len(connects), Len(identities))]
  BY <1>2, <1>3, TypesUnfolded
<1> QED BY <1>4, ReturnTypes, TypesUnfolded DEF Persist

LEMMA EndTypes ==
  ASSUME PayoutTypeOK, NEW r \in Requests, request[r].step # "idle" => request[r].creator \in Creators,
         BlockPayout(r) \/ Transfer(r) \/ Throw(r)
  PROVE  PayoutTypeOK'
<1>1. Return(r) /\ UNCHANGED <<profile, stripe>> /\ disturbed' \subseteq Creators
  BY TypesUnfolded DEF BlockPayout, Transfer, Throw, Ended
<1> QED BY <1>1, ReturnTypes, TypesUnfolded

LEMMA RetrieveTypes ==
  ASSUME PayoutTypeOK, NEW r \in Requests, RetrieveSession(r) \/ RetrieveAccount(r)
  PROVE  PayoutTypeOK'
<1> DEFINE q == request[r]
           new(step, passed) == [q EXCEPT !.step = step, !.passed = passed]
<1>1. q \in RequestSet(Len(connects), Len(identities))
  BY Fields
<1>2. ASSUME NEW step \in CheckSteps, NEW passed \in BOOLEAN
      PROVE  new(step, passed) \in RequestSet(Len(connects), Len(identities))
  <2> HIDE DEF q
  <2> QED BY <1>1 DEF RequestSet
<1>3. \E step \in CheckSteps, passed \in BOOLEAN : request' = [request EXCEPT ![r] = new(step, passed)]
  <2>1. CASE RetrieveSession(r)
    <3> DEFINE passed == q.passed /\ identities[q.session].status = "verified"
               step == IF q.step = "check" THEN "checkAccount" ELSE "checked"
    <3>1. request' = [request EXCEPT ![r] = new(step, passed)]
      BY <2>1, <1>1, TypesUnfolded, Zenon DEF RetrieveSession
    <3>2. step \in CheckSteps /\ passed \in BOOLEAN
      BY DEF CheckSteps
    <3> HIDE DEF new, step, passed
    <3> QED BY <3>1, <3>2
  <2>2. CASE RetrieveAccount(r)
    <3> DEFINE passed == q.passed /\ q.account \in enabled
               step == IF q.step = "check" THEN "checkSession" ELSE "checked"
    <3>1. request' = [request EXCEPT ![r] = new(step, passed)]
      BY <2>2, <1>1, TypesUnfolded, Zenon DEF RetrieveAccount
    <3>2. step \in CheckSteps /\ passed \in BOOLEAN
      BY DEF CheckSteps
    <3> HIDE DEF new, step, passed
    <3> QED BY <3>1, <3>2
  <2> QED BY <2>1, <2>2
<1>4. UNCHANGED stripe /\ UNCHANGED profile /\ UNCHANGED disturbed
  BY DEF RetrieveSession, RetrieveAccount
<1>5. PICK step \in CheckSteps, passed \in BOOLEAN : request' = [request EXCEPT ![r] = new(step, passed)]
  BY <1>3
<1>6. profile' \in [Creators -> ProfileSet(Len(connects), Len(identities))] /\ disturbed' \subseteq Creators
  BY <1>4, TypesUnfolded
<1> HIDE DEF new
<1>7. new(step, passed) \in RequestSet(Len(connects), Len(identities))
  BY <1>2
<1> QED BY <1>4, <1>5, <1>6, <1>7, RequestTypes

LEMMA ApplyTypes ==
  ASSUME PayoutTypeOK, NEW c \in Creators, Apply(c)
  PROVE  PayoutTypeOK'
<1>1. NoProfile \in ProfileSet(Len(connects), Len(identities))
  BY Fields, IdleTyped
<1>2. profile' \in [Creators -> ProfileSet(Len(connects), Len(identities))]
  BY <1>1, TypesUnfolded DEF Apply
<1>3. disturbed' \subseteq Creators
  BY TypesUnfolded DEF Apply
<1> QED BY <1>2, <1>3, TypesUnfolded, TypesUnfoldedNext, Zenon DEF Apply, stripe

LEMMA CacheOfTyped == \A status \in Statuses : CacheOf(status) \in Caches /\ (CacheOf(status) = "verified" => status = "verified")
BY DEF Statuses, CacheOf, Caches

LEMMA WebhookTypes ==
  ASSUME PayoutTypeOK, NEW event \in sent, Webhook(event)
  PROVE  PayoutTypeOK'
<1> DEFINE c == identities[event.session].owner
           cache == CacheOf(event.status)
<1>1. event.session \in DOMAIN identities /\ event.status \in Statuses
  BY TypesUnfolded
<1>2. c \in Creators /\ cache \in Caches
  BY <1>1, CacheOfTyped, Fields DEF Identity
<1>3. profile' = [profile EXCEPT ![c] = [profile[c] EXCEPT !.cache = cache]]
  BY <1>2, TypesUnfolded, Zenon DEF Webhook
<1> HIDE DEF c, cache
<1>4. profile[c] \in ProfileSet(Len(connects), Len(identities))
  BY <1>2, Fields
<1>5. [profile[c] EXCEPT !.cache = cache] \in ProfileSet(Len(connects), Len(identities))
  BY <1>2, <1>4 DEF ProfileSet
<1>6. profile' \in [Creators -> ProfileSet(Len(connects), Len(identities))]
  BY <1>3, <1>5, TypesUnfolded
<1> QED BY <1>6, TypesUnfolded, TypesUnfoldedNext, Zenon DEF Webhook, stripe

\* A step of Stripe's own: what profiles and requests hold goes on being typed.
LEMMA StripeTypes ==
  ASSUME PayoutTypeOK,
         connects' \in Seq(Creators), identities' \in Seq(Identity),
         Len(connects) <= Len(connects'), Len(identities) <= Len(identities'),
         enabled' \subseteq DOMAIN connects',
         sent' \subseteq [session : DOMAIN identities', status : Statuses],
         request' \in [Requests -> RequestSet(Len(connects'), Len(identities'))],
         UNCHANGED <<profile, disturbed>>
  PROVE  PayoutTypeOK'
<1>1. ProfileSet(Len(connects), Len(identities)) \subseteq ProfileSet(Len(connects'), Len(identities'))
  BY SetsGrow, Fields
<1>2. profile' \in [Creators -> ProfileSet(Len(connects'), Len(identities'))]
  BY <1>1, TypesUnfolded
<1> QED BY <1>2, TypesUnfolded, TypesUnfoldedNext

LEMMA CreateAccountTypes ==
  ASSUME PayoutTypeOK, NEW r \in Requests, request[r].creator \in Creators, CreateAccount(r)
  PROVE  /\ PayoutTypeOK'
         /\ Len(connects') = Len(connects) + 1 /\ connects'[Len(connects')] = request[r].creator
         /\ \A a \in DOMAIN connects : connects'[a] = connects[a]
         /\ request' = [request EXCEPT ![r] = [request[r] EXCEPT !.step = "session", !.account = Len(connects')]]
<1> DEFINE n == Len(connects')
           new == [request[r] EXCEPT !.step = "session", !.account = n]
<1>1. connects' \in Seq(Creators) /\ n = Len(connects) + 1
  BY TypesUnfolded DEF CreateAccount
<1>2. connects'[n] = request[r].creator /\ \A a \in DOMAIN connects : connects'[a] = connects[a]
  BY TypesUnfolded DEF CreateAccount
<1>3. request' = [request EXCEPT ![r] = new]
  BY TypesUnfolded, Zenon DEF CreateAccount
<1>4. request[r] \in RequestSet(n, Len(identities)) /\ n \in Nat /\ Len(connects) \in Nat /\ Len(identities) \in Nat
      /\ RequestSet(Len(connects), Len(identities)) \subseteq RequestSet(n, Len(identities))
  BY <1>1, SetsGrow, Fields
<1>5. new \in RequestSet(n, Len(identities))
  <2>1. n \in 0..n /\ "session" \in VerifySteps
    BY <1>4 DEF VerifySteps
  <2> HIDE DEF n
  <2> QED BY <1>4, <2>1 DEF RequestSet
<1>6. request' \in [Requests -> RequestSet(n, Len(identities))]
  BY <1>3, <1>4, <1>5, TypesUnfolded
<1>7. UNCHANGED <<identities, enabled, sent, profile, disturbed>>
  BY DEF CreateAccount
<1>8. DOMAIN connects \subseteq DOMAIN connects'
  BY <1>1, Fields
<1>9. PayoutTypeOK'
  BY <1>1, <1>4, <1>6, <1>7, <1>8, StripeTypes, TypesUnfolded
<1> QED BY <1>1, <1>2, <1>3, <1>9

LEMMA CreateSessionTypes ==
  ASSUME PayoutTypeOK, NEW r \in Requests, request[r].creator \in Creators, CreateSession(r)
  PROVE  /\ PayoutTypeOK'
         /\ Len(identities') = Len(identities) + 1
         /\ identities'[Len(identities')] = [owner |-> request[r].creator, status |-> "requires_input"]
         /\ \A s \in DOMAIN identities : identities'[s] = identities[s]
         /\ request' = [request EXCEPT ![r] = [request[r] EXCEPT !.step = "link", !.session = Len(identities')]]
<1> DEFINE m == Len(identities')
           new == [request[r] EXCEPT !.step = "link", !.session = m]
           made == [owner |-> request[r].creator, status |-> "requires_input"]
<1>0. made \in Identity
  BY DEF Identity, Statuses
<1>a. identities' = Append(identities, made)
  BY DEF CreateSession
<1>1. identities' \in Seq(Identity) /\ m = Len(identities) + 1
      /\ identities'[m] = made /\ \A s \in DOMAIN identities : identities'[s] = identities[s]
  <2> HIDE DEF made
  <2> QED BY <1>0, <1>a, TypesUnfolded
<1>3. request' = [request EXCEPT ![r] = new]
  BY TypesUnfolded, Zenon DEF CreateSession
<1>4. request[r] \in RequestSet(Len(connects), m) /\ m \in Nat /\ Len(connects) \in Nat /\ Len(identities) \in Nat
      /\ RequestSet(Len(connects), Len(identities)) \subseteq RequestSet(Len(connects), m)
  <2> HIDE DEF made
  <2> QED BY <1>1, SetsGrow, Fields
<1>5. new \in RequestSet(Len(connects), m)
  <2>1. m \in 0..m /\ "link" \in VerifySteps
    BY <1>4 DEF VerifySteps
  <2> HIDE DEF m, made
  <2> QED BY <1>4, <2>1 DEF RequestSet
<1>6. request' \in [Requests -> RequestSet(Len(connects), m)]
  <2> HIDE DEF m
  <2> QED BY <1>3, <1>4, <1>5, TypesUnfolded
<1>7. UNCHANGED <<connects, enabled, sent, profile, disturbed>>
  BY DEF CreateSession
<1>8. sent' \subseteq [session : DOMAIN identities', status : Statuses]
  <2>1. DOMAIN identities \subseteq DOMAIN identities'
    <3> HIDE DEF made
    <3> QED BY <1>1, Fields
  <2> QED BY <1>7, <2>1, TypesUnfolded
<1>9. PayoutTypeOK'
  <2>1. /\ connects' \in Seq(Creators) /\ enabled' \subseteq DOMAIN connects' /\ Len(connects') = Len(connects)
        /\ UNCHANGED <<profile, disturbed>>
    BY <1>7, TypesUnfolded
  <2>2. Len(identities) <= Len(identities') /\ identities' \in Seq(Identity)
    <3> HIDE DEF made
    <3> QED BY <1>1, <1>4
  <2>3. request' \in [Requests -> RequestSet(Len(connects'), Len(identities'))]
    BY <1>6, <1>7, Zenon
  <2>4. Len(connects) <= Len(connects')
    BY <1>4, <2>1
  <2> HIDE DEF made, new
  <2> QED BY <1>8, <2>1, <2>2, <2>3, <2>4, StripeTypes
<1> QED BY <1>1, <1>3, <1>9, Zenon

LEMMA AnswerTypes ==
  ASSUME PayoutTypeOK, NEW s \in DOMAIN identities, NEW status \in Statuses, Answer(s, status)
  PROVE  /\ PayoutTypeOK' /\ Len(identities') = Len(identities)
         /\ identities'[s] = [owner |-> identities[s].owner, status |-> status]
         /\ \A t \in DOMAIN identities \ {s} : identities'[t] = identities[t]
<1> DEFINE new == [identities[s] EXCEPT !.status = status]
<1>1. identities[s] \in Identity
  BY Fields
<1>2. new \in Identity /\ new = [owner |-> identities[s].owner, status |-> status]
  BY <1>1 DEF Identity
<1>3. identities' = [identities EXCEPT ![s] = new]
  BY DEF Answer
<1> HIDE DEF new
<1>4. /\ identities' \in Seq(Identity) /\ Len(identities') = Len(identities)
      /\ identities'[s] = new /\ \A t \in DOMAIN identities \ {s} : identities'[t] = identities[t]
  BY <1>2, <1>3, TypesUnfolded
<1>5. DOMAIN identities' = DOMAIN identities
  BY <1>3
<1>6. [session |-> s, status |-> status] \in [session : DOMAIN identities', status : Statuses]
  BY <1>5
<1>7. sent' \subseteq [session : DOMAIN identities', status : Statuses]
  BY <1>5, <1>6, TypesUnfolded DEF Answer
<1>8. PayoutTypeOK'
  BY <1>4, <1>7, TypesUnfolded, TypesUnfoldedNext DEF Answer
<1> QED BY <1>2, <1>4, <1>8

LEMMA EnableTypes ==
  ASSUME PayoutTypeOK, NEW a \in DOMAIN connects, Enable(a) \/ Disable(a)
  PROVE  PayoutTypeOK'
<1>1. CASE Disable(a)
  <2>1. enabled' \subseteq DOMAIN connects
    BY <1>1, TypesUnfolded DEF Disable
  <2> QED BY <1>1, <2>1, TypesUnfolded, TypesUnfoldedNext DEF Disable
<1>2. CASE Enable(a)
  <2>1. enabled' \subseteq DOMAIN connects
    BY <1>2, TypesUnfolded DEF Enable
  <2>2. ASSUME NEW r \in Requests
        PROVE  request'[r] \in RequestSet(Len(connects), Len(identities))
    <3> DEFINE q == request[r]
               fresh == q.fresh \/ (Checking(r) /\ q.account = a)
    <3>1. request'[r] = [q EXCEPT !.fresh = fresh]
      BY <1>2, Zenon DEF Enable
    <3>2. q \in RequestSet(Len(connects), Len(identities)) /\ fresh \in BOOLEAN
      BY Fields
    <3> HIDE DEF fresh, q
    <3> QED BY <3>1, <3>2 DEF RequestSet
  <2>3. request' \in [Requests -> RequestSet(Len(connects), Len(identities))]
    BY <1>2, <2>2, Zenon DEF Enable
  <2> QED BY <1>2, <2>1, <2>3, TypesUnfolded, TypesUnfoldedNext DEF Enable
<1> QED BY <1>1, <1>2

-----------------------------------------------------------------------------
(* What requests hold is of their creator, and what a payout found is true. *)

\* Stripe forgets nothing that it has made, and a verified identity stays so.
Grown(cs, ids, cs2, ids2) ==
  /\ Len(cs) <= Len(cs2) /\ \A a \in 1..Len(cs) : cs2[a] = cs[a]
  /\ Len(ids) <= Len(ids2)
  /\ \A s \in 1..Len(ids) : /\ ids2[s].owner = ids[s].owner
                            /\ ids[s].status = "verified" => ids2[s].status = "verified"

LEMMA OwnsGrows ==
  ASSUME NEW cs, NEW ids, NEW cs2, NEW ids2, Grown(cs, ids, cs2, ids2),
         Len(cs) \in Nat, Len(ids) \in Nat, NEW p, NEW c,
         p.account \in 0..Len(cs), p.session \in 0..Len(ids), Owns(p, c, cs, ids)
  PROVE  Owns(p, c, cs2, ids2)
BY DEF Grown, Owns

LEMMA SoundGrows ==
  ASSUME NEW cs, NEW ids, NEW cs2, NEW ids2, Grown(cs, ids, cs2, ids2),
         Len(cs) \in Nat, Len(ids) \in Nat, NEW en, NEW en2,
         NEW q \in RequestSet(Len(cs), Len(ids)), Sound(q, cs, ids, en),
         q.step \in CheckSteps /\ q.account \in en2 => q.account \in en
  PROVE  Sound(q, cs2, ids2, en2)
<1>1. q.account \in 0..Len(cs) /\ q.session \in 0..Len(ids) /\ q.passed \in BOOLEAN /\ q.fresh \in BOOLEAN
  BY DEF RequestSet
<1>2. CASE q.step = "idle"
  BY <1>2, Zenon DEF Sound
<1>3. CASE q.step # "idle"
  <2>1. Owns(q, q.creator, cs2, ids2)
    BY <1>1, <1>3, OwnsGrows, Zenon DEF Sound
  <2>2. Checked(q, ids2, en2)
    <3>1. q.step \in CheckSteps => q.session \in 1..Len(ids)
      BY <1>1, <1>3 DEF Sound, CheckSteps
    <3>2. q.session \in 1..Len(ids) /\ ids[q.session].status = "verified" => ids2[q.session].status = "verified"
      BY DEF Grown
    <3>3. Checked(q, ids, en)
      BY <1>3, Zenon DEF Sound
    <3> QED BY <3>1, <3>2, <3>3, Zenon DEF Checked
  <2> QED BY <1>3, <2>1, <2>2, Zenon DEF Sound
<1> QED BY <1>2, <1>3

LEMMA SoundIdle == \A cs, ids, en : Sound(Idle, cs, ids, en)
BY DEF Sound, Idle

\* A step of one request that Stripe has no part in.
LEMMA OneRequestSound ==
  ASSUME PayoutTypeOK, RequestsSound, NEW r \in Requests, NEW new,
         request' = [request EXCEPT ![r] = new], Sound(new, connects, identities, enabled),
         UNCHANGED stripe
  PROVE  RequestsSound'
<1>1. connects' = connects /\ identities' = identities /\ enabled' = enabled
  BY DEF stripe
<1>2. ASSUME NEW s \in Requests PROVE Sound(request'[s], connects, identities, enabled)
  BY TypesUnfolded DEF RequestsSound
<1> QED BY <1>1, <1>2, Zenon DEF RequestsSound

LEMMA ReturnSound ==
  ASSUME PayoutTypeOK, RequestsSound, NEW r \in Requests, Return(r), UNCHANGED stripe
  PROVE  RequestsSound'
BY OneRequestSound, SoundIdle DEF Return

LEMMA StartVerificationSound ==
  ASSUME PayoutTypeOK, RequestsSound, ProfilesOwn,
         NEW r \in Requests, NEW c \in Creators, StartVerification(r, c)
  PROVE  RequestsSound'
<1> DEFINE p == profile[c]
           new == [Idle EXCEPT !.step = NextNeeded(p), !.creator = c, !.cache = p.cache, !.account = p.account]
<1>1. /\ new.step = NextNeeded(p) /\ new.creator = c /\ new.account = p.account /\ new.session = 0
  BY DEF Idle
<1>2. p \in ProfileSet(Len(connects), Len(identities)) /\ Owns(p, c, connects, identities)
  BY Fields DEF ProfilesOwn
<1>3. request' = [request EXCEPT ![r] = new] /\ UNCHANGED stripe
  BY DEF StartVerification
<1>5. NextNeeded(p) \in {"account", "session"} /\ (p.account = 0 <=> NextNeeded(p) = "account")
  BY DEF NextNeeded
<1> HIDE DEF new
<1>4. Sound(new, connects, identities, enabled)
  BY <1>1, <1>2, <1>5 DEF Sound, Owns, Checked, CheckSteps
<1> QED BY <1>3, <1>4, OneRequestSound

LEMMA StartPayoutSound ==
  ASSUME PayoutTypeOK, RequestsSound, ProfilesOwn,
         NEW r \in Requests, NEW c \in Creators, StartPayout(r, c)
  PROVE  RequestsSound'
<1> DEFINE p == profile[c]
           fresh == p.account \in enabled
           new == [Idle EXCEPT !.step = "check", !.creator = c, !.account = p.account,
                               !.session = p.session, !.fresh = fresh]
<1>1. new.step = "check" /\ new.creator = c /\ new.account = p.account /\ new.session = p.session
      /\ new.fresh = fresh
  <2> HIDE DEF fresh
  <2> QED BY DEF Idle
<1>2. Owns(p, c, connects, identities) /\ p.account # 0 /\ p.session # 0
  BY DEF ProfilesOwn, StartPayout
<1>3. request' = [request EXCEPT ![r] = new] /\ UNCHANGED stripe
  BY DEF StartPayout
<1>5. new.account \in enabled => new.fresh
  BY <1>1, Zenon
<1> HIDE DEF new, fresh
<1>6. Checked(new, identities, enabled)
  BY <1>1, <1>5 DEF Checked
<1>4. Sound(new, connects, identities, enabled)
  BY <1>1, <1>2, <1>6 DEF Sound, Owns
<1> QED BY <1>3, <1>4, OneRequestSound

LEMMA RetrieveSound ==
  ASSUME PayoutTypeOK, RequestsSound, NEW r \in Requests, RetrieveSession(r) \/ RetrieveAccount(r)
  PROVE  RequestsSound'
<1> DEFINE q == request[r]
           new(step, passed) == [q EXCEPT !.step = step, !.passed = passed]
<1>1. q \in RequestSet(Len(connects), Len(identities)) /\ Sound(q, connects, identities, enabled)
  BY Fields DEF RequestsSound
<1>2. q.passed \in BOOLEAN /\ q.fresh \in BOOLEAN
  BY <1>1 DEF RequestSet
<1>3. ASSUME NEW step \in CheckSteps, NEW passed \in BOOLEAN
      PROVE  LET n == new(step, passed) IN
             /\ n.step = step /\ n.passed = passed /\ n.creator = q.creator /\ n.account = q.account
             /\ n.session = q.session /\ n.fresh = q.fresh
  <2> HIDE DEF q
  <2> QED BY <1>1 DEF RequestSet
<1>4. ASSUME NEW step \in CheckSteps, NEW passed \in BOOLEAN, q.step \in CheckSteps,
             step \in {"checkAccount", "checked"} /\ passed => identities[q.session].status = "verified",
             step \in {"checkSession", "checked"} /\ passed => q.fresh
      PROVE  Sound(new(step, passed), connects, identities, enabled)
  <2> DEFINE n == new(step, passed)
  <2>1. /\ n.step = step /\ n.passed = passed /\ n.creator = q.creator /\ n.account = q.account
        /\ n.session = q.session /\ n.fresh = q.fresh
    BY <1>3
  <2>2. step \notin {"idle", "account", "session"} /\ q.step \notin {"idle", "account", "session"}
    BY <1>4 DEF CheckSteps
  <2>3. /\ q.creator \in Creators /\ Owns(q, q.creator, connects, identities)
        /\ q.account # 0 /\ q.session # 0 /\ Checked(q, identities, enabled)
    BY <1>1, <2>2, Zenon DEF Sound
  <2> HIDE DEF n, q, new
  <2>4. Checked(n, identities, enabled)
    BY <1>4, <2>1, <2>3, Zenon DEF Checked
  <2>5. Owns(n, n.creator, connects, identities)
    BY <2>1, <2>3 DEF Owns
  <2>6. Sound(n, connects, identities, enabled)
    BY <2>1, <2>2, <2>3, <2>4, <2>5 DEF Sound
  <2> QED BY <2>6 DEF n
<1>5. CASE RetrieveSession(r)
  <2> DEFINE passed == q.passed /\ identities[q.session].status = "verified"
             step == IF q.step = "check" THEN "checkAccount" ELSE "checked"
  <2>1. request' = [request EXCEPT ![r] = new(step, passed)] /\ UNCHANGED stripe
    BY <1>5, TypesUnfolded, Zenon DEF RetrieveSession
  <2>2. q.step \in {"check", "checkSession"} /\ q.step \in CheckSteps /\ step \in {"checkAccount", "checked"}
        /\ (step = "checked" => q.step = "checkSession") /\ step \in CheckSteps
    BY <1>5 DEF RetrieveSession, CheckSteps
  <2>3. Checked(q, identities, enabled) /\ passed \in BOOLEAN
    BY <1>1, <2>2, Zenon DEF Sound, CheckSteps
  <2>4. step \in {"checkSession", "checked"} => step = "checked"
    BY <2>2
  <2>5. step \in {"checkSession", "checked"} /\ passed => q.fresh
    BY <2>2, <2>3, <2>4, Zenon DEF Checked
  <2>6. Sound(new(step, passed), connects, identities, enabled)
    <3>1. passed => identities[q.session].status = "verified"
      OBVIOUS
    <3> HIDE DEF new, step, passed, q
    <3> QED BY <1>4, <2>2, <2>3, <2>5, <3>1
  <2> HIDE DEF new
  <2> QED BY <2>1, <2>6, OneRequestSound
<1>6. CASE RetrieveAccount(r)
  <2> DEFINE passed == q.passed /\ q.account \in enabled
             step == IF q.step = "check" THEN "checkSession" ELSE "checked"
  <2>1. request' = [request EXCEPT ![r] = new(step, passed)] /\ UNCHANGED stripe
    BY <1>6, TypesUnfolded, Zenon DEF RetrieveAccount
  <2>2. q.step \in {"check", "checkAccount"} /\ q.step \in CheckSteps /\ step \in {"checkSession", "checked"}
        /\ (step = "checked" => q.step = "checkAccount") /\ step \in CheckSteps
    BY <1>6 DEF RetrieveAccount, CheckSteps
  <2>3. Checked(q, identities, enabled) /\ passed \in BOOLEAN
    BY <1>1, <2>2, Zenon DEF Sound, CheckSteps
  <2>4. step \in {"checkAccount", "checked"} => step = "checked"
    BY <2>2
  <2>5. step \in {"checkAccount", "checked"} /\ passed => identities[q.session].status = "verified"
    BY <2>2, <2>3, <2>4, Zenon DEF Checked
  <2>6. Sound(new(step, passed), connects, identities, enabled)
    <3>1. passed => q.fresh
      BY <2>2, <2>3, Zenon DEF Checked
    <3> HIDE DEF new, step, passed, q
    <3> QED BY <1>4, <2>2, <2>3, <2>5, <3>1
  <2> HIDE DEF new
  <2> QED BY <2>1, <2>6, OneRequestSound
<1> QED BY <1>5, <1>6

LEMMA GrownSelf == ASSUME PayoutTypeOK PROVE Grown(connects, identities, connects, identities)
BY Fields DEF Grown

LEMMA GrownByAccount ==
  ASSUME PayoutTypeOK, NEW r \in Requests, request[r].creator \in Creators, CreateAccount(r)
  PROVE  Grown(connects, identities, connects', identities')
<1>1. Len(connects') = Len(connects) + 1 /\ \A a \in DOMAIN connects : connects'[a] = connects[a]
  BY CreateAccountTypes
<1>2. identities' = identities
  BY DEF CreateAccount
<1> QED BY <1>1, <1>2, Fields DEF Grown

LEMMA GrownBySession ==
  ASSUME PayoutTypeOK, NEW r \in Requests, request[r].creator \in Creators, CreateSession(r)
  PROVE  Grown(connects, identities, connects', identities')
<1>1. Len(identities') = Len(identities) + 1 /\ \A s \in DOMAIN identities : identities'[s] = identities[s]
  BY CreateSessionTypes
<1>2. connects' = connects
  BY DEF CreateSession
<1> QED BY <1>1, <1>2, Fields DEF Grown

LEMMA GrownByAnswer ==
  ASSUME PayoutTypeOK, NEW s \in DOMAIN identities, NEW status \in Statuses, Answer(s, status)
  PROVE  Grown(connects, identities, connects', identities')
<1>1. /\ Len(identities') = Len(identities)
      /\ identities'[s] = [owner |-> identities[s].owner, status |-> status]
      /\ \A t \in DOMAIN identities \ {s} : identities'[t] = identities[t]
  BY AnswerTypes
<1>2. connects' = connects /\ identities[s].status = "requires_input"
  BY DEF Answer
<1>3. ASSUME NEW t \in 1..Len(identities)
      PROVE  /\ identities'[t].owner = identities[t].owner
             /\ identities[t].status = "verified" => identities'[t].status = "verified"
  <2>1. CASE t = s
    BY <1>1, <1>2, <2>1
  <2>2. CASE t # s
    BY <1>1, <2>2, Fields
  <2> QED BY <2>1, <2>2
<1> QED BY <1>1, <1>2, <1>3, Fields DEF Grown

\* A step of Stripe's own: what profiles and requests hold goes on being true.
LEMMA GrownKeeps ==
  ASSUME PayoutTypeOK, ProfilesOwn, Grown(connects, identities, connects', identities'), UNCHANGED profile
  PROVE  ProfilesOwn'
<1>1. ASSUME NEW c \in Creators PROVE Owns(profile[c], c, connects', identities')
  <2>1. /\ profile[c].account \in 0..Len(connects) /\ profile[c].session \in 0..Len(identities)
        /\ Owns(profile[c], c, connects, identities) /\ Len(connects) \in Nat /\ Len(identities) \in Nat
    BY Fields DEF ProfilesOwn, ProfileSet
  <2> QED BY <2>1, OwnsGrows
<1> QED BY <1>1 DEF ProfilesOwn

LEMMA OthersGrow ==
  ASSUME PayoutTypeOK, RequestsSound, Grown(connects, identities, connects', identities'),
         NEW s \in Requests, request'[s] = request[s],
         request[s].step \in CheckSteps /\ request[s].account \in enabled' => request[s].account \in enabled
  PROVE  Sound(request'[s], connects', identities', enabled')
<1>1. /\ request[s] \in RequestSet(Len(connects), Len(identities))
      /\ Sound(request[s], connects, identities, enabled) /\ Len(connects) \in Nat /\ Len(identities) \in Nat
  BY Fields DEF RequestsSound
<1> QED BY <1>1, SoundGrows

LEMMA CreateAccountSound ==
  ASSUME PayoutTypeOK, RequestsSound, NEW r \in Requests, CreateAccount(r)
  PROVE  RequestsSound'
<1> DEFINE q == request[r]
           n == Len(connects')
           new == [q EXCEPT !.step = "session", !.account = n]
<1>1. /\ q \in RequestSet(Len(connects), Len(identities)) /\ Sound(q, connects, identities, enabled)
      /\ q.step = "account"
  BY Fields DEF RequestsSound, CreateAccount
<1>2. q.creator \in Creators /\ Owns(q, q.creator, connects, identities)
  BY <1>1 DEF Sound
<1>3. /\ n = Len(connects) + 1 /\ connects'[n] = q.creator
      /\ request' = [request EXCEPT ![r] = new] /\ identities' = identities /\ enabled' = enabled
  BY <1>2, CreateAccountTypes DEF CreateAccount
<1>4. new.step = "session" /\ new.account = n /\ new.session = q.session /\ new.creator = q.creator
  <2> HIDE DEF q, n
  <2> QED BY <1>1 DEF RequestSet
<1>5. Sound(new, connects', identities', enabled')
  <2>1. n # 0
    BY <1>3, Fields
  <2>2. q.session # 0 => identities'[q.session].owner = q.creator
    BY <1>2, <1>3 DEF Owns
  <2> HIDE DEF new, q, n
  <2>3. Owns(new, new.creator, connects', identities')
    BY <1>3, <1>4, <2>2 DEF Owns
  <2>4. Checked(new, identities', enabled')
    BY <1>4 DEF Checked, CheckSteps
  <2> QED BY <1>2, <1>4, <2>1, <2>3, <2>4 DEF Sound
<1>6. Grown(connects, identities, connects', identities')
  BY <1>2, GrownByAccount
<1>7. ASSUME NEW s \in Requests PROVE Sound(request'[s], connects', identities', enabled')
  <2>1. CASE s = r
    <3> HIDE DEF new
    <3> QED BY <1>3, <1>5, <2>1, TypesUnfolded
  <2>2. CASE s # r
    <3>1. request'[s] = request[s]
      <4> HIDE DEF new
      <4> QED BY <1>3, <2>2, TypesUnfolded
    <3> QED BY <1>3, <1>6, <3>1, OthersGrow
  <2> QED BY <2>1, <2>2
<1> QED BY <1>7 DEF RequestsSound

LEMMA CreateSessionSound ==
  ASSUME PayoutTypeOK, RequestsSound, NEW r \in Requests, CreateSession(r)
  PROVE  RequestsSound'
<1> DEFINE q == request[r]
           m == Len(identities')
           new == [q EXCEPT !.step = "link", !.session = m]
<1>1. /\ q \in RequestSet(Len(connects), Len(identities)) /\ Sound(q, connects, identities, enabled)
      /\ q.step = "session"
  BY Fields DEF RequestsSound, CreateSession
<1>2. q.creator \in Creators /\ Owns(q, q.creator, connects, identities) /\ q.account # 0
  BY <1>1 DEF Sound
<1>3. /\ m = Len(identities) + 1 /\ identities'[m].owner = q.creator
      /\ request' = [request EXCEPT ![r] = new] /\ connects' = connects /\ enabled' = enabled
  <2>1. /\ m = Len(identities) + 1
        /\ identities'[m] = [owner |-> q.creator, status |-> "requires_input"]
        /\ request' = [request EXCEPT ![r] = new]
    <3> HIDE DEF new
    <3>1. request' = [request EXCEPT ![r] = [request[r] EXCEPT !.step = "link", !.session = Len(identities')]]
      BY <1>2, CreateSessionTypes
    <3> QED BY <1>2, <3>1, CreateSessionTypes DEF new
  <2>2. identities'[m].owner = q.creator
    <3> HIDE DEF m, q, new
    <3> QED BY <2>1
  <2>3. connects' = connects /\ enabled' = enabled
    BY DEF CreateSession
  <2> QED BY <2>1, <2>2, <2>3
<1>4. new.step = "link" /\ new.account = q.account /\ new.session = m /\ new.creator = q.creator
  <2> HIDE DEF q, m
  <2> QED BY <1>1 DEF RequestSet
<1>5. Sound(new, connects', identities', enabled')
  <2>1. m # 0
    BY <1>3, Fields
  <2>2. connects'[q.account] = q.creator
    BY <1>2, <1>3 DEF Owns
  <2> HIDE DEF new, q, m
  <2>3. Owns(new, new.creator, connects', identities')
    BY <1>3, <1>4, <2>2 DEF Owns
  <2>4. Checked(new, identities', enabled')
    BY <1>4 DEF Checked, CheckSteps
  <2> QED BY <1>2, <1>4, <2>1, <2>3, <2>4 DEF Sound
<1>6. Grown(connects, identities, connects', identities')
  BY <1>2, GrownBySession
<1>7. ASSUME NEW s \in Requests PROVE Sound(request'[s], connects', identities', enabled')
  <2>1. CASE s = r
    <3> HIDE DEF new
    <3> QED BY <1>3, <1>5, <2>1, TypesUnfolded
  <2>2. CASE s # r
    <3>1. request'[s] = request[s]
      <4> HIDE DEF new
      <4> QED BY <1>3, <2>2, TypesUnfolded
    <3> QED BY <1>3, <1>6, <3>1, OthersGrow
  <2> QED BY <2>1, <2>2
<1> QED BY <1>7 DEF RequestsSound

LEMMA AnswerSound ==
  ASSUME PayoutTypeOK, RequestsSound, NEW s \in DOMAIN identities, NEW status \in Statuses, Answer(s, status)
  PROVE  RequestsSound'
<1>1. Grown(connects, identities, connects', identities')
  BY GrownByAnswer
<1>2. request' = request /\ enabled' = enabled
  BY DEF Answer
<1>3. \A t \in Requests : Sound(request'[t], connects', identities', enabled')
  BY <1>1, <1>2, OthersGrow
<1> QED BY <1>3 DEF RequestsSound

\* While a payout checks, Stripe may enable its account, which makes the check
\* fresh, or disable it.
LEMMA EnableSound ==
  ASSUME PayoutTypeOK, RequestsSound, NEW a \in DOMAIN connects, Enable(a) \/ Disable(a)
  PROVE  RequestsSound'
<1>1. connects' = connects /\ identities' = identities
  BY DEF Enable, Disable
<1>2. Grown(connects, identities, connects', identities')
  BY <1>1, GrownSelf
<1>3. CASE Disable(a)
  <2>1. request' = request /\ enabled' \subseteq enabled
    BY <1>3 DEF Disable
  <2>2. \A t \in Requests : Sound(request'[t], connects', identities', enabled')
    BY <1>2, <2>1, OthersGrow
  <2> QED BY <2>2 DEF RequestsSound
<1>4. CASE Enable(a)
  <2>1. ASSUME NEW t \in Requests PROVE Sound(request'[t], connects', identities', enabled')
    <3> DEFINE q == request[t]
               fresh == q.fresh \/ (Checking(t) /\ q.account = a)
               new == [q EXCEPT !.fresh = fresh]
    <3>1. request'[t] = new /\ enabled' = enabled \cup {a}
      BY <1>4, Zenon DEF Enable
    <3>2. /\ q \in RequestSet(Len(connects), Len(identities)) /\ Sound(q, connects, identities, enabled)
          /\ fresh \in BOOLEAN
      BY Fields DEF RequestsSound
    <3>3. q.passed \in BOOLEAN /\ q.fresh \in BOOLEAN
      BY <3>2 DEF RequestSet
    <3>4. /\ new.step = q.step /\ new.creator = q.creator /\ new.account = q.account
          /\ new.session = q.session /\ new.passed = q.passed /\ new.fresh = fresh
      <4> HIDE DEF q, fresh
      <4> QED BY <3>2 DEF RequestSet
    <3>5. CASE q.step = "idle"
      <4>1. q = Idle
        BY <3>2, <3>5 DEF Sound
      <4>2. fresh = FALSE
        <5>1. q.fresh = FALSE
          BY <4>1 DEF Idle
        <5>2. ~Checking(t)
          BY <3>5 DEF Checking
        <5> QED BY <5>1, <5>2, Zenon
      <4>3. new = Idle
        <5>1. [Idle EXCEPT !.fresh = FALSE] = Idle
          <6>1. Idle = [Idle EXCEPT !.fresh = Idle.fresh] /\ Idle.fresh = FALSE
            BY DEF Idle
          <6> QED BY <6>1, Zenon
        <5>2. new = [Idle EXCEPT !.fresh = FALSE]
          <6> HIDE DEF fresh, q
          <6> QED BY <4>1, <4>2
        <5> QED BY <5>1, <5>2
      <4>4. request'[t] = Idle
        <5> HIDE DEF new
        <5> QED BY <3>1, <4>3
      <4>5. Sound(Idle, connects', identities', enabled')
        BY SoundIdle
      <4> QED BY <4>4, <4>5
    <3>6. CASE q.step # "idle"
      <4>1. Checked(new, identities, enabled')
        <5>1. Checked(q, identities, enabled)
          BY <3>2, <3>6, Zenon DEF Sound
        <5>2. q.step \in CheckSteps => (Checking(t) <=> TRUE)
          BY DEF Checking, CheckSteps
        <5>3. q.fresh => fresh
          OBVIOUS
        <5>4. q.step \in CheckSteps /\ q.account = a => fresh
          BY <5>2, Zenon
        <5>5. q.account \in enabled' => q.account \in enabled \/ q.account = a
          BY <3>1
        <5> HIDE DEF new, fresh, q
        <5> QED BY <3>4, <5>1, <5>3, <5>4, <5>5, Zenon DEF Checked
      <4>2. Owns(new, new.creator, connects, identities)
        <5>1. Owns(q, q.creator, connects, identities)
          BY <3>2, <3>6 DEF Sound
        <5> HIDE DEF new, fresh, q
        <5> QED BY <3>4, <5>1 DEF Owns
      <4>3. Sound(new, connects, identities, enabled')
        <5> HIDE DEF new, fresh, q
        <5> QED BY <3>2, <3>4, <3>6, <4>1, <4>2 DEF Sound
      <4> QED BY <1>1, <3>1, <4>3
    <3> QED BY <3>5, <3>6
  <2> QED BY <2>1 DEF RequestsSound
<1> QED BY <1>3, <1>4

-----------------------------------------------------------------------------
(* What is on file is the creator's own, and an event tells what happened. *)

LEMMA PersistOwn ==
  ASSUME PayoutTypeOK, RequestsSound, ProfilesOwn, NEW r \in Requests, Persist(r)
  PROVE  /\ ProfilesOwn' /\ request[r].creator \in Creators
         /\ profile'[request[r].creator].account = request[r].account
         /\ profile'[request[r].creator].cache =
              IF request[r].cache = "none" THEN "pending" ELSE request[r].cache
         /\ \A c \in Creators \ {request[r].creator} : profile'[c] = profile[c]
<1> DEFINE q == request[r]
           new == [account |-> q.account, session |-> q.session,
                   cache |-> IF q.cache = "none" THEN "pending" ELSE q.cache]
<1>1. /\ Sound(q, connects, identities, enabled) /\ q.step = "link"
      /\ profile' = [profile EXCEPT ![q.creator] = new] /\ UNCHANGED stripe
  BY DEF RequestsSound, Persist
<1>2. q.creator \in Creators /\ Owns(q, q.creator, connects, identities)
  BY <1>1 DEF Sound
<1>3. Owns(new, q.creator, connects, identities)
  BY <1>2 DEF Owns
<1>4. /\ new.account = q.account
      /\ new.cache = IF q.cache = "none" THEN "pending" ELSE q.cache
  OBVIOUS
<1> HIDE DEF new
<1>5. profile'[q.creator] = new /\ \A c \in Creators \ {q.creator} : profile'[c] = profile[c]
  BY <1>1, <1>2, TypesUnfolded
<1>6. \A c \in Creators : Owns(profile'[c], c, connects, identities)
  <2> HIDE DEF q
  <2> QED BY <1>3, <1>5 DEF ProfilesOwn
<1> QED BY <1>1, <1>2, <1>4, <1>5, <1>6 DEF ProfilesOwn, stripe

LEMMA WebhookKeeps ==
  ASSUME PayoutTypeOK, ProfilesOwn, NEW event \in sent, Webhook(event)
  PROVE  LET c == identities[event.session].owner IN
         /\ ProfilesOwn' /\ c \in Creators /\ event.session \in DOMAIN identities
         /\ profile'[c].account = profile[c].account
         /\ profile'[c].cache = "verified" => event.status = "verified"
         /\ \A d \in Creators \ {c} : profile'[d] = profile[d]
<1> DEFINE c == identities[event.session].owner
           cache == CacheOf(event.status)
           new == [profile[c] EXCEPT !.cache = cache]
<1>1. event.session \in DOMAIN identities /\ event.status \in Statuses
  BY TypesUnfolded
<1>2. c \in Creators
  BY <1>1, Fields DEF Identity
<1>3. profile' = [profile EXCEPT ![c] = new] /\ UNCHANGED stripe
  BY <1>2, TypesUnfolded, Zenon DEF Webhook
<1>4. profile[c] \in ProfileSet(Len(connects), Len(identities)) /\ Owns(profile[c], c, connects, identities)
  BY <1>2, Fields DEF ProfilesOwn
<1>5. new.account = profile[c].account /\ new.session = profile[c].session /\ new.cache = cache
  <2> HIDE DEF c, cache
  <2> QED BY <1>4 DEF ProfileSet
<1>6. cache = "verified" => event.status = "verified"
  BY <1>1, CacheOfTyped
<1> HIDE DEF new, cache
<1>7. profile'[c] = new /\ \A d \in Creators \ {c} : profile'[d] = profile[d]
  <2> HIDE DEF c
  <2> QED BY <1>2, <1>3, TypesUnfolded
<1>8. Owns(new, c, connects, identities)
  <2> HIDE DEF c
  <2> QED BY <1>4, <1>5 DEF Owns
<1>9. \A d \in Creators : Owns(profile'[d], d, connects, identities)
  <2> HIDE DEF c
  <2> QED BY <1>7, <1>8 DEF ProfilesOwn
<1>10. ProfilesOwn'
  BY <1>3, <1>9 DEF ProfilesOwn, stripe
<1> QED BY <1>1, <1>2, <1>5, <1>6, <1>7, <1>10

LEMMA ApplyKeeps ==
  ASSUME PayoutTypeOK, ProfilesOwn, NEW c \in Creators, Apply(c)
  PROVE  /\ ProfilesOwn' /\ profile'[c].account = 0 /\ profile'[c].cache = "none"
         /\ \A d \in Creators \ {c} : profile'[d] = profile[d]
<1>1. /\ profile' = [profile EXCEPT ![c] = NoProfile] /\ UNCHANGED stripe
  BY DEF Apply
<1>2. profile'[c] = NoProfile /\ \A d \in Creators \ {c} : profile'[d] = profile[d]
  BY <1>1, TypesUnfolded
<1>3. Owns(NoProfile, c, connects, identities) /\ NoProfile.account = 0 /\ NoProfile.cache = "none"
  BY DEF Owns, NoProfile
<1>4. \A d \in Creators : Owns(profile'[d], d, connects, identities)
  BY <1>2, <1>3 DEF ProfilesOwn
<1> QED BY <1>1, <1>2, <1>3, <1>4 DEF ProfilesOwn, stripe

\* What a step makes of Stripe, and which steps touch the profiles.
ProfileSteps == (\E r \in Requests : Persist(r)) \/ (\E c \in Creators : Apply(c)) \/ (\E e \in sent : Webhook(e))

LEMMA Grows ==
  ASSUME PayoutTypeOK, RequestsSound, [PayoutNext]_payoutVars
  PROVE  /\ Grown(connects, identities, connects', identities')
         /\ UNCHANGED profile \/ ProfileSteps
<1>1. CASE UNCHANGED payoutVars
  BY <1>1, GrownSelf DEF payoutVars, stripe
<1>2. ASSUME NEW r \in Requests, Call(r)
      PROVE  Grown(connects, identities, connects', identities') /\ (UNCHANGED profile \/ ProfileSteps)
  <2>1. CASE CreateAccount(r)
    <3>1. request[r].creator \in Creators
      BY <2>1 DEF RequestsSound, Sound, CreateAccount
    <3> QED BY <2>1, <3>1, GrownByAccount DEF CreateAccount
  <2>2. CASE CreateSession(r)
    <3>1. request[r].creator \in Creators
      BY <2>2 DEF RequestsSound, Sound, CreateSession
    <3> QED BY <2>2, <3>1, GrownBySession DEF CreateSession
  <2>3. CASE Persist(r)
    BY <2>3, GrownSelf DEF Persist, stripe, ProfileSteps
  <2>4. CASE RetrieveSession(r) \/ RetrieveAccount(r)
    BY <2>4, GrownSelf DEF RetrieveSession, RetrieveAccount, stripe
  <2>5. CASE BlockPayout(r) \/ Transfer(r) \/ Throw(r)
    BY <2>5, GrownSelf DEF BlockPayout, Transfer, Throw, Ended, stripe
  <2>6. CASE \E c \in Creators : StartVerification(r, c) \/ StartPayout(r, c)
    BY <2>6, GrownSelf DEF StartVerification, StartPayout, stripe
  <2> QED BY <1>2, <2>1, <2>2, <2>3, <2>4, <2>5, <2>6 DEF Call
<1>3. CASE Outside
  <2>1. CASE \E c \in Creators : Apply(c)
    BY <2>1, GrownSelf DEF Apply, stripe, ProfileSteps
  <2>2. CASE \E event \in sent : Webhook(event)
    BY <2>2, GrownSelf DEF Webhook, stripe, ProfileSteps
  <2>3. ASSUME NEW s \in DOMAIN identities, NEW status \in {"verified", "requires_input", "canceled"},
               Answer(s, status)
        PROVE  Grown(connects, identities, connects', identities') /\ UNCHANGED profile
    <3>1. status \in Statuses
      BY DEF Statuses
    <3> QED BY <2>3, <3>1, GrownByAnswer DEF Answer
  <2>4. CASE \E a \in DOMAIN connects : Enable(a) \/ Disable(a)
    BY <2>4, GrownSelf DEF Enable, Disable
  <2> QED BY <1>3, <2>1, <2>2, <2>3, <2>4 DEF Outside
<1> QED BY <1>1, <1>2, <1>3 DEF PayoutNext

LEMMA OwnStep ==
  ASSUME PayoutTypeOK, RequestsSound, ProfilesOwn, [PayoutNext]_payoutVars
  PROVE  ProfilesOwn'
<1>1. CASE UNCHANGED profile
  BY <1>1, Grows, GrownKeeps
<1>2. CASE ProfileSteps
  BY <1>2, PersistOwn, ApplyKeeps, WebhookKeeps DEF ProfileSteps
<1> QED BY <1>1, <1>2, Grows

LEMMA EventsStep ==
  ASSUME PayoutTypeOK, RequestsSound, EventsTrue, [PayoutNext]_payoutVars
  PROVE  EventsTrue'
<1>1. Grown(connects, identities, connects', identities')
  BY Grows
<1>2. ASSUME NEW e \in sent, e.status = "verified" PROVE identities'[e.session].status = "verified"
  BY <1>1, <1>2, TypesUnfolded, Fields DEF EventsTrue, Grown
<1>3. CASE sent' = sent
  BY <1>2, <1>3 DEF EventsTrue
<1>4. ASSUME NEW s \in DOMAIN identities, NEW status \in {"verified", "requires_input", "canceled"},
             Answer(s, status)
      PROVE  EventsTrue'
  <2>1. sent' = sent \cup {[session |-> s, status |-> status]}
    BY <1>4 DEF Answer
  <2>2. identities'[s].status = status
    <3>1. status \in Statuses
      BY DEF Statuses
    <3>2. identities'[s] = [owner |-> identities[s].owner, status |-> status]
      BY <1>4, <3>1, AnswerTypes
    <3> QED BY <3>2
  <2>3. \A e \in sent' : e.status = "verified" => identities'[e.session].status = "verified"
    <3>1. ASSUME NEW e \in sent', e.status = "verified" PROVE identities'[e.session].status = "verified"
      <4>1. CASE e \in sent
        BY <1>2, <3>1, <4>1
      <4>2. CASE e = [session |-> s, status |-> status]
        BY <2>2, <3>1, <4>2
      <4> QED BY <2>1, <4>1, <4>2
    <3> QED BY <3>1
  <2> QED BY <2>3 DEF EventsTrue
<1>5. sent' = sent \/ \E s \in DOMAIN identities, status \in {"verified", "requires_input", "canceled"} : Answer(s, status)
  BY DEF payoutVars, stripe, PayoutNext, Call, Outside, StartVerification, StartPayout, CreateAccount,
         CreateSession, Persist, RetrieveSession, RetrieveAccount, BlockPayout, Transfer, Throw, Ended,
         Apply, Webhook, Enable, Disable
<1> QED BY <1>3, <1>4, <1>5

\* Verified, of any value of identities.
VerifiedAs(c, ids) == \E s \in DOMAIN ids : ids[s] = [owner |-> c, status |-> "verified"]

\* A verified creator stays one.
LEMMA VerifiedStays ==
  ASSUME PayoutTypeOK, Grown(connects, identities, connects', identities'), NEW c, Verified(c),
         identities' \in Seq(Identity)
  PROVE  VerifiedAs(c, identities')
<1>1. PICK s \in DOMAIN identities : identities[s] = [owner |-> c, status |-> "verified"]
  BY DEF Verified
<1>2. s \in DOMAIN identities' /\ s \in 1..Len(identities)
  BY Fields DEF Grown
<1>3. identities[s].owner = c /\ identities[s].status = "verified"
  BY <1>1
<1>4. identities'[s].owner = c /\ identities'[s].status = "verified" /\ identities'[s] \in Identity
  BY <1>2, <1>3 DEF Grown
<1>5. identities'[s] = [owner |-> c, status |-> "verified"]
  BY <1>4 DEF Identity
<1> QED BY <1>2, <1>5 DEF VerifiedAs

\* A request's own idea of the cache is the profile's when it began.
LEMMA RequestCaches ==
  ASSUME PayoutTypeOK, RequestsSound, [PayoutNext]_payoutVars, NEW r \in Requests,
         request'[r].cache = "verified"
  PROVE  \/ request[r].cache = "verified" /\ request'[r].creator = request[r].creator
         \/ request'[r].creator \in Creators /\ profile[request'[r].creator].cache = "verified"
<1> DEFINE q == request[r]
<1>0. q \in RequestSet(Len(connects), Len(identities))
  BY Fields
<1>a. Idle.cache = "none"
  BY DEF Idle
<1>1. CASE request'[r] = q
  BY <1>1
<1>2. ASSUME NEW s \in Requests, Return(s)
      PROVE  request'[r] \in {q, Idle}
  BY <1>2, TypesUnfolded DEF Return
<1>3. ASSUME NEW s \in Requests, CreateAccount(s) \/ CreateSession(s)
      PROVE  request'[r].cache = q.cache /\ request'[r].creator = q.creator
  <2>1. request[s].creator \in Creators
    BY <1>3 DEF RequestsSound, Sound, CreateAccount, CreateSession
  <2>2. CASE CreateAccount(s)
    <3> DEFINE n == Len(connects')
    <3>1. request' = [request EXCEPT ![s] = [request[s] EXCEPT !.step = "session", !.account = n]]
      BY <2>1, <2>2, CreateAccountTypes
    <3>2. r = s => request'[r] = [q EXCEPT !.step = "session", !.account = n]
      BY <3>1, TypesUnfolded, Zenon
    <3>3. r # s => request'[r] = q
      BY <3>1, TypesUnfolded, Zenon
    <3> HIDE DEF q, n
    <3> QED BY <1>0, <3>2, <3>3 DEF RequestSet
  <2>3. CASE CreateSession(s)
    <3> DEFINE m == Len(identities')
    <3>1. request' = [request EXCEPT ![s] = [request[s] EXCEPT !.step = "link", !.session = m]]
      BY <2>1, <2>3, CreateSessionTypes
    <3>2. r = s => request'[r] = [q EXCEPT !.step = "link", !.session = m]
      BY <3>1, TypesUnfolded, Zenon
    <3>3. r # s => request'[r] = q
      BY <3>1, TypesUnfolded, Zenon
    <3> HIDE DEF q, m
    <3> QED BY <1>0, <3>2, <3>3 DEF RequestSet
  <2> QED BY <1>3, <2>2, <2>3
<1>4. ASSUME NEW s \in Requests, RetrieveSession(s) \/ RetrieveAccount(s)
      PROVE  request'[r].cache = q.cache /\ request'[r].creator = q.creator
  <2>1. CASE r # s
    BY <1>4, <2>1, TypesUnfolded DEF RetrieveSession, RetrieveAccount
  <2>2. CASE r = s
    <3>1. \E step, passed : request'[r] = [q EXCEPT !.step = step, !.passed = passed]
      <4>1. CASE RetrieveSession(s)
        BY <2>2, <4>1, TypesUnfolded, Zenon DEF RetrieveSession
      <4>2. CASE RetrieveAccount(s)
        BY <2>2, <4>2, TypesUnfolded, Zenon DEF RetrieveAccount
      <4> QED BY <1>4, <4>1, <4>2
    <3> HIDE DEF q
    <3> QED BY <1>0, <3>1 DEF RequestSet
  <2> QED BY <2>1, <2>2
<1>5. ASSUME NEW s \in Requests, NEW c \in Creators, StartVerification(s, c)
      PROVE  \/ request'[r] = q
             \/ request'[r].creator = c /\ request'[r].cache = profile[c].cache
  <2> DEFINE new == [Idle EXCEPT !.step = NextNeeded(profile[c]), !.creator = c,
                                 !.cache = profile[c].cache, !.account = profile[c].account]
  <2>1. new.creator = c /\ new.cache = profile[c].cache
    BY DEF Idle
  <2>2. request' = [request EXCEPT ![s] = new]
    BY <1>5 DEF StartVerification
  <2> HIDE DEF new
  <2> QED BY <2>1, <2>2, TypesUnfolded
<1>6. ASSUME NEW s \in Requests, NEW c \in Creators, StartPayout(s, c)
      PROVE  request'[r] = q \/ request'[r].cache = "none"
  <2> DEFINE fresh == profile[c].account \in enabled
             new == [Idle EXCEPT !.step = "check", !.creator = c, !.account = profile[c].account,
                                 !.session = profile[c].session, !.fresh = fresh]
  <2>1. new.cache = "none"
    <3> HIDE DEF fresh
    <3> QED BY DEF Idle
  <2>2. request' = [request EXCEPT ![s] = new]
    BY <1>6 DEF StartPayout
  <2> HIDE DEF new
  <2> QED BY <2>1, <2>2, TypesUnfolded
<1>7. ASSUME NEW a \in DOMAIN connects, Enable(a)
      PROVE  request'[r].cache = q.cache /\ request'[r].creator = q.creator
  <2>1. \E fresh : request'[r] = [q EXCEPT !.fresh = fresh]
    BY <1>7, Zenon DEF Enable
  <2> HIDE DEF q
  <2> QED BY <1>0, <2>1 DEF RequestSet
<1>8. \/ request' = request
      \/ \E s \in Requests : \/ Return(s) \/ CreateAccount(s) \/ CreateSession(s)
                             \/ RetrieveSession(s) \/ RetrieveAccount(s)
                             \/ \E c \in Creators : StartVerification(s, c) \/ StartPayout(s, c)
      \/ \E a \in DOMAIN connects : Enable(a)
  BY DEF payoutVars, PayoutNext, Call, Outside, Persist, BlockPayout, Transfer, Throw, Ended,
         Apply, Webhook, Answer, Disable
<1> HIDE DEF q
<1>9. CASE \E s \in Requests : Return(s)
  BY <1>9, <1>2, <1>a, <1>1
<1>10. CASE \E s \in Requests : CreateAccount(s) \/ CreateSession(s) \/ RetrieveSession(s) \/ RetrieveAccount(s)
  BY <1>10, <1>3, <1>4 DEF q
<1>11. CASE \E s \in Requests, c \in Creators : StartVerification(s, c) \/ StartPayout(s, c)
  BY <1>11, <1>5, <1>6 DEF q
<1>12. CASE \E a \in DOMAIN connects : Enable(a)
  BY <1>12, <1>7 DEF q
<1> QED BY <1>1, <1>8, <1>9, <1>10, <1>11, <1>12 DEF q

\* The profile's cache and the requests' idea of it are honest.
LEMMA HonestStep ==
  ASSUME PayoutTypeOK, PayoutTypeOK', RequestsSound, ProfilesOwn, EventsTrue, CacheHonest,
         [PayoutNext]_payoutVars
  PROVE  CacheHonest'
<1>1. Grown(connects, identities, connects', identities') /\ identities' \in Seq(Identity)
  BY Grows, TypesUnfoldedNext
<1>2. ASSUME NEW c, Verified(c) PROVE VerifiedAs(c, identities')
  BY <1>1, <1>2, VerifiedStays
<1>3. ASSUME NEW r \in Requests, request'[r].cache = "verified" PROVE VerifiedAs(request'[r].creator, identities')
  <2>1. Verified(request'[r].creator)
    BY <1>3, RequestCaches DEF CacheHonest
  <2> QED BY <1>2, <2>1
<1>4. ASSUME NEW c \in Creators, profile'[c].cache = "verified" PROVE Verified(c)
  <2>1. CASE UNCHANGED profile
    BY <1>4, <2>1 DEF CacheHonest
  <2>2. ASSUME NEW r \in Requests, Persist(r) PROVE Verified(c)
    <3>1. CASE c = request[r].creator
      <4>1. request[r].cache = "verified"
        BY <1>4, <2>2, <3>1, PersistOwn
      <4> QED BY <3>1, <4>1 DEF CacheHonest
    <3>2. CASE c # request[r].creator
      BY <1>4, <2>2, <3>2, PersistOwn DEF CacheHonest
    <3> QED BY <3>1, <3>2
  <2>3. ASSUME NEW d \in Creators, Apply(d) PROVE Verified(c)
    BY <1>4, <2>3, ApplyKeeps DEF CacheHonest
  <2>4. ASSUME NEW e \in sent, Webhook(e) PROVE Verified(c)
    <3> DEFINE s == e.session
    <3>1. CASE c = identities[s].owner
      <4>1. s \in DOMAIN identities /\ e.status = "verified"
        BY <1>4, <2>4, <3>1, WebhookKeeps
      <4>2. identities[s].status = "verified" /\ identities[s] \in Identity
        BY <4>1, Fields DEF EventsTrue
      <4>3. identities[s] = [owner |-> c, status |-> "verified"]
        BY <3>1, <4>2 DEF Identity
      <4> QED BY <4>1, <4>3 DEF Verified
    <3>2. CASE c # identities[s].owner
      BY <1>4, <2>4, <3>2, WebhookKeeps DEF CacheHonest
    <3> QED BY <3>1, <3>2
  <2> QED BY <2>1, <2>2, <2>3, <2>4, Grows DEF ProfileSteps
<1>5. \A c \in Creators : profile'[c].cache = "verified" => VerifiedAs(c, identities')
  BY <1>2, <1>4
<1> QED BY <1>3, <1>5 DEF CacheHonest, Verified, VerifiedAs

-----------------------------------------------------------------------------
(* Every step keeps the types and what requests hold. *)

LEMMA TypesStep ==
  ASSUME PayoutTypeOK, RequestsSound, [PayoutNext]_payoutVars
  PROVE  PayoutTypeOK'
<1>1. CASE UNCHANGED payoutVars
  BY <1>1, TypesUnfolded, TypesUnfoldedNext, Zenon DEF payoutVars, stripe
<1>2. ASSUME NEW r \in Requests, Call(r) PROVE PayoutTypeOK'
  <2>1. request[r].step # "idle" => request[r].creator \in Creators
    BY DEF RequestsSound, Sound
  <2>2. CASE \E c \in Creators : StartVerification(r, c) \/ StartPayout(r, c)
    BY <2>2, StartVerificationTypes, StartPayoutTypes
  <2>3. CASE CreateAccount(r)
    BY <2>1, <2>3, CreateAccountTypes DEF CreateAccount
  <2>4. CASE CreateSession(r)
    BY <2>1, <2>4, CreateSessionTypes DEF CreateSession
  <2>5. CASE Persist(r)
    BY <2>1, <2>5, PersistTypes DEF Persist
  <2>6. CASE RetrieveSession(r) \/ RetrieveAccount(r)
    BY <2>6, RetrieveTypes
  <2>7. CASE BlockPayout(r) \/ Transfer(r) \/ Throw(r)
    BY <2>1, <2>7, EndTypes
  <2> QED BY <1>2, <2>2, <2>3, <2>4, <2>5, <2>6, <2>7 DEF Call
<1>3. CASE Outside
  <2>1. {"verified", "requires_input", "canceled"} = Statuses
    BY DEF Statuses
  <2> QED BY <1>3, <2>1, ApplyTypes, WebhookTypes, AnswerTypes, EnableTypes DEF Outside
<1> QED BY <1>1, <1>2, <1>3 DEF PayoutNext

LEMMA SoundStep ==
  ASSUME PayoutTypeOK, RequestsSound, ProfilesOwn, [PayoutNext]_payoutVars
  PROVE  RequestsSound'
<1>1. CASE UNCHANGED <<request, stripe>>
  BY <1>1 DEF RequestsSound, stripe
<1>2. ASSUME NEW r \in Requests, Call(r) PROVE RequestsSound'
  <2>1. CASE \E c \in Creators : StartVerification(r, c) \/ StartPayout(r, c)
    BY <2>1, StartVerificationSound, StartPayoutSound
  <2>2. CASE CreateAccount(r) \/ CreateSession(r)
    BY <2>2, CreateAccountSound, CreateSessionSound
  <2>3. CASE Persist(r) \/ BlockPayout(r) \/ Transfer(r) \/ Throw(r)
    BY <2>3, ReturnSound DEF Persist, BlockPayout, Transfer, Throw, Ended
  <2>4. CASE RetrieveSession(r) \/ RetrieveAccount(r)
    BY <2>4, RetrieveSound
  <2> QED BY <1>2, <2>1, <2>2, <2>3, <2>4 DEF Call
<1>3. CASE Outside
  <2>1. {"verified", "requires_input", "canceled"} = Statuses
    BY DEF Statuses
  <2>2. CASE \E c \in Creators : Apply(c)
    BY <1>1, <2>2 DEF Apply
  <2>3. CASE \E event \in sent : Webhook(event)
    BY <1>1, <2>3 DEF Webhook
  <2> QED BY <1>3, <2>1, <2>2, <2>3, AnswerSound, EnableSound DEF Outside
<1>4. UNCHANGED payoutVars => UNCHANGED <<request, stripe>>
  BY DEF payoutVars
<1> QED BY <1>1, <1>2, <1>3, <1>4 DEF PayoutNext

-----------------------------------------------------------------------------
(* The one account of an undisturbed creator. *)

LEMMA DisturbedGrows ==
  ASSUME [PayoutNext]_payoutVars
  PROVE  disturbed \subseteq disturbed'
BY DEF payoutVars, PayoutNext, Call, Outside, StartVerification, StartPayout, CreateAccount, CreateSession,
       Persist, RetrieveSession, RetrieveAccount, BlockPayout, Transfer, Throw, Apply, Webhook, Answer,
       Enable, Disable

\* What is known stays known while Stripe makes no account for the creator and
\* no request that holds one lets it go.
LEMMA KnownKept ==
  ASSUME NEW c, AccountKnown(c),
         \A a \in DOMAIN connects' : connects'[a] = c => a \in DOMAIN connects /\ connects[a] = c /\ a # 0,
         profile'[c].account = profile[c].account,
         \A r \in Requests :
           /\ Busy(request'[r], c) => Busy(request[r], c) /\ request'[r].account = request[r].account
           /\ Busy(request[r], c) /\ request[r].account # 0 =>
                Busy(request'[r], c) /\ request'[r].account = request[r].account
  PROVE  AccountKnown(c)'
BY DEF AccountKnown

\* The step of one request, as far as the creator c is concerned.
LEMMA KnownKeptByOne ==
  ASSUME PayoutTypeOK, NEW c, AccountKnown(c), connects' = connects,
         profile'[c].account = profile[c].account,
         NEW r \in Requests, NEW new, request' = [request EXCEPT ![r] = new],
         Busy(new, c) => Busy(request[r], c) /\ new.account = request[r].account,
         Busy(request[r], c) /\ request[r].account # 0 => Busy(new, c)
  PROVE  AccountKnown(c)'
<1>1. request'[r] = new /\ \A s \in Requests \ {r} : request'[s] = request[s]
  BY TypesUnfolded
<1>2. \A a \in DOMAIN connects : a # 0
  BY Fields
<1> QED BY <1>1, <1>2, KnownKept

LEMMA IdleIsNotBusy == \A c \in Creators : ~Busy(Idle, c)
BY DEF Busy, Idle, VerifySteps

LEMMA KnownByStart ==
  ASSUME PayoutTypeOK, RequestsSound, NEW r \in Requests, NEW d \in Creators, StartVerification(r, d),
         NEW c \in Creators, c \notin disturbed', AccountKnown(c)
  PROVE  AccountKnown(c)'
<1> DEFINE new == [Idle EXCEPT !.step = NextNeeded(profile[d]), !.creator = d,
                               !.cache = profile[d].cache, !.account = profile[d].account]
<1>1. new.creator = d /\ new.step = NextNeeded(profile[d]) /\ new.account = profile[d].account
  BY DEF Idle
<1>2. request[r] = Idle /\ request' = [request EXCEPT ![r] = new] /\ UNCHANGED <<profile, connects>>
  BY DEF StartVerification, stripe
<1> HIDE DEF new
<1>3. CASE c # d
  <2>1. ~Busy(new, c) /\ ~Busy(request[r], c)
    BY <1>1, <1>2, <1>3, IdleIsNotBusy DEF Busy
  <2> QED BY <1>2, <2>1, KnownKeptByOne
<1>4. CASE c = d
  <2>1. request'[r] = new /\ \A s \in Requests \ {r} : request'[s] = request[s]
    BY <1>2, TypesUnfolded
  <2>2. ~Busy(request[r], c)
    BY <1>2, IdleIsNotBusy
  <2>3. profile[c].account = 0 => \A s \in Requests : ~Busy(request[s], c)
    <3>1. profile[c].account = 0 => ~Verifying(c)
      BY <1>4 DEF StartVerification
    <3> QED BY <3>1 DEF Verifying, Busy, VerifySteps
  <2> QED BY <1>1, <1>2, <1>4, <2>1, <2>2, <2>3 DEF AccountKnown
<1> QED BY <1>3, <1>4

LEMMA KnownByAccount ==
  ASSUME PayoutTypeOK, RequestsSound, NEW r \in Requests, CreateAccount(r),
         NEW c \in Creators, AccountKnown(c)
  PROVE  AccountKnown(c)'
<1> DEFINE q == request[r]
           n == Len(connects')
           new == [q EXCEPT !.step = "session", !.account = n]
<1>1. q.step = "account" /\ q.creator \in Creators /\ q.account = 0
  BY DEF RequestsSound, Sound, CreateAccount
<1>2. /\ n = Len(connects) + 1 /\ connects'[n] = q.creator
      /\ \A a \in DOMAIN connects : connects'[a] = connects[a]
      /\ request' = [request EXCEPT ![r] = new] /\ PayoutTypeOK' /\ profile' = profile
  BY <1>1, CreateAccountTypes DEF CreateAccount
<1>3. new.step = "session" /\ new.account = n /\ new.creator = q.creator
  <2>1. q \in RequestSet(Len(connects), Len(identities))
    BY Fields
  <2> HIDE DEF q, n
  <2> QED BY <2>1 DEF RequestSet
<1>4. DOMAIN connects' = 1..n /\ DOMAIN connects = 1..Len(connects) /\ Len(connects) \in Nat
  BY <1>2, Fields, TypesUnfoldedNext
<1>5. request'[r] = new /\ \A s \in Requests \ {r} : request'[s] = request[s]
  <2> HIDE DEF new
  <2> QED BY <1>2, TypesUnfolded
<1>6. Busy(q, q.creator) /\ Busy(new, q.creator)
  <2> HIDE DEF new
  <2> QED BY <1>1, <1>3 DEF Busy, VerifySteps
<1>7. \A a \in DOMAIN connects' : a = n \/ a \in DOMAIN connects
  <2> HIDE DEF n
  <2> QED BY <1>2, <1>4
<1>8. CASE c # q.creator
  <2>1. ~Busy(q, c) /\ ~Busy(new, c)
    <3> HIDE DEF new
    <3> QED BY <1>3, <1>8 DEF Busy
  <2>2. \A a \in DOMAIN connects' : connects'[a] = c => a \in DOMAIN connects /\ connects[a] = c /\ a # 0
    <3> HIDE DEF n, q, new
    <3> QED BY <1>2, <1>4, <1>7, <1>8
  <2> HIDE DEF n, new
  <2> QED BY <1>2, <1>5, <2>1, <2>2, KnownKept
<1>9. CASE c = q.creator
  <2>1. profile[c].account = 0
    BY <1>1, <1>6, <1>9 DEF AccountKnown
  <2>2. \A s \in Requests : Busy(request[s], c) => s = r
    BY <1>6, <1>9, <2>1 DEF AccountKnown
  <2>3. \A a \in DOMAIN connects : connects[a] # c
    <3> SUFFICES ASSUME NEW a \in DOMAIN connects, connects[a] = c PROVE FALSE
      OBVIOUS
    <3>1. a # 0
      BY <1>4
    <3>2. a = profile[c].account \/ \E s \in Requests : Busy(request[s], c) /\ request[s].account = a
      BY DEF AccountKnown
    <3> QED BY <1>1, <2>1, <2>2, <3>1, <3>2
  <2>4. \A a \in DOMAIN connects' : connects'[a] = c => a = n
    <3> HIDE DEF n
    <3> QED BY <1>2, <1>7, <2>3
  <2>5. \A s \in Requests : Busy(request'[s], c) => s = r
    <3> HIDE DEF new
    <3> QED BY <1>5, <2>2
  <2> HIDE DEF n, new, q
  <2> QED BY <1>2, <1>3, <1>5, <1>6, <1>9, <2>1, <2>4, <2>5 DEF AccountKnown
<1> QED BY <1>8, <1>9

LEMMA KnownByPersist ==
  ASSUME PayoutTypeOK, RequestsSound, ProfilesOwn, NEW r \in Requests, Persist(r),
         NEW c \in Creators, AccountKnown(c)
  PROVE  AccountKnown(c)'
<1> DEFINE q == request[r]
<1>1. q.step = "link" /\ q.account # 0 /\ Busy(q, q.creator)
  BY DEF RequestsSound, Sound, Persist, Busy, VerifySteps
<1>2. request' = [request EXCEPT ![r] = Idle] /\ connects' = connects
  BY DEF Persist, Return, stripe
<1>3. request'[r] = Idle /\ \A s \in Requests \ {r} : request'[s] = request[s]
  BY <1>2, TypesUnfolded
<1>4. CASE c # q.creator
  <2>1. ~Busy(q, c) /\ profile'[c] = profile[c]
    BY <1>4, PersistOwn DEF Busy
  <2> QED BY <1>2, <2>1, IdleIsNotBusy, KnownKeptByOne
<1>5. CASE c = q.creator
  <2>1. profile'[c].account = q.account
    BY <1>5, PersistOwn
  <2>2. \A a \in DOMAIN connects : connects[a] = c => a = q.account
    <3> SUFFICES ASSUME NEW a \in DOMAIN connects, connects[a] = c PROVE a = q.account
      OBVIOUS
    <3>1. a # 0
      BY Fields
    <3>2. a = profile[c].account \/ \E s \in Requests : Busy(request[s], c) /\ request[s].account = a
      BY DEF AccountKnown
    <3>3. CASE profile[c].account = 0
      BY <1>1, <1>5, <3>1, <3>2, <3>3 DEF AccountKnown
    <3>4. CASE profile[c].account # 0
      BY <1>1, <1>5, <3>2, <3>4 DEF AccountKnown
    <3> QED BY <3>3, <3>4
  <2>3. \A s \in Requests : Busy(request'[s], c) => request'[s].account = q.account
    <3> SUFFICES ASSUME NEW s \in Requests, Busy(request'[s], c) PROVE request'[s].account = q.account
      OBVIOUS
    <3>1. s # r /\ request'[s] = request[s]
      BY <1>3, IdleIsNotBusy
    <3>2. profile[c].account # 0
      BY <1>1, <1>5, <3>1 DEF AccountKnown
    <3> QED BY <1>1, <1>5, <3>1, <3>2 DEF AccountKnown
  <2> HIDE DEF q
  <2> QED BY <1>1, <1>2, <2>1, <2>2, <2>3 DEF AccountKnown
<1> QED BY <1>4, <1>5

LEMMA KnownByThrow ==
  ASSUME PayoutTypeOK, RequestsSound, NEW r \in Requests, Throw(r),
         NEW c \in Creators, c \notin disturbed', AccountKnown(c)
  PROVE  AccountKnown(c)'
<1>1. request' = [request EXCEPT ![r] = Idle] /\ connects' = connects /\ profile' = profile
  BY DEF Throw, Ended, Return, stripe
<1>2. Busy(request[r], c) => request[r].account = 0
  <2>1. Busy(request[r], c) => request[r].step = "account"
    BY DEF Throw, Busy, VerifySteps
  <2>2. request[r].step = "account" => request[r].account = 0
    BY DEF RequestsSound, Sound
  <2> QED BY <2>1, <2>2
<1> QED BY <1>1, <1>2, IdleIsNotBusy, KnownKeptByOne

\* The steps that take no account of the creator's up and let none go.
LEMMA KnownByOthers ==
  ASSUME PayoutTypeOK, RequestsSound, NEW r \in Requests, NEW c \in Creators, AccountKnown(c),
         \/ CreateSession(r) \/ RetrieveSession(r) \/ RetrieveAccount(r) \/ BlockPayout(r) \/ Transfer(r)
         \/ \E d \in Creators : StartPayout(r, d)
  PROVE  AccountKnown(c)'
<1> DEFINE q == request[r]
<1>0. q \in RequestSet(Len(connects), Len(identities))
  BY Fields
<1>1. CASE CreateSession(r)
  <2> DEFINE m == Len(identities')
             new == [q EXCEPT !.step = "link", !.session = m]
  <2>1. q.creator \in Creators /\ q.step = "session"
    BY <1>1 DEF RequestsSound, Sound, CreateSession
  <2>2. request' = [request EXCEPT ![r] = new] /\ connects' = connects /\ profile' = profile
    <3>1. request' = [request EXCEPT ![r] = [request[r] EXCEPT !.step = "link", !.session = Len(identities')]]
      BY <1>1, <2>1, CreateSessionTypes
    <3>2. connects' = connects /\ profile' = profile
      BY <1>1 DEF CreateSession
    <3> QED BY <3>1, <3>2, Zenon
  <2>3. new.step = "link" /\ new.creator = q.creator /\ new.account = q.account
    <3> HIDE DEF q, m
    <3> QED BY <1>0 DEF RequestSet
  <2> HIDE DEF new
  <2>4. Busy(new, c) <=> Busy(q, c)
    BY <2>1, <2>3 DEF Busy, VerifySteps
  <2> QED BY <2>2, <2>3, <2>4, KnownKeptByOne
<1>2. CASE RetrieveSession(r) \/ RetrieveAccount(r)
  <2>1. \E step, passed :
          /\ step \in CheckSteps /\ connects' = connects /\ profile' = profile
          /\ request' = [request EXCEPT ![r] = [q EXCEPT !.step = step, !.passed = passed]]
    <3>1. CASE RetrieveSession(r)
      <4>1. connects' = connects /\ profile' = profile
        BY <3>1 DEF RetrieveSession, stripe
      <4>2. request' = [request EXCEPT ![r] = [q EXCEPT !.step = IF q.step = "check" THEN "checkAccount" ELSE "checked",
                                                       !.passed = q.passed /\ identities[q.session].status = "verified"]]
        BY <1>0, <3>1, TypesUnfolded, Zenon DEF RetrieveSession
      <4>3. (IF q.step = "check" THEN "checkAccount" ELSE "checked") \in CheckSteps
        BY DEF CheckSteps
      <4> QED BY <4>1, <4>2, <4>3, Zenon
    <3>2. CASE RetrieveAccount(r)
      <4>1. connects' = connects /\ profile' = profile
        BY <3>2 DEF RetrieveAccount, stripe
      <4>2. request' = [request EXCEPT ![r] = [q EXCEPT !.step = IF q.step = "check" THEN "checkSession" ELSE "checked",
                                                       !.passed = q.passed /\ q.account \in enabled]]
        BY <1>0, <3>2, TypesUnfolded, Zenon DEF RetrieveAccount
      <4>3. (IF q.step = "check" THEN "checkSession" ELSE "checked") \in CheckSteps
        BY DEF CheckSteps
      <4> QED BY <4>1, <4>2, <4>3, Zenon
    <3> QED BY <1>2, <3>1, <3>2
  <2>2. PICK step, passed :
          /\ step \in CheckSteps /\ connects' = connects /\ profile' = profile
          /\ request' = [request EXCEPT ![r] = [q EXCEPT !.step = step, !.passed = passed]]
    BY <2>1
  <2> DEFINE new == [q EXCEPT !.step = step, !.passed = passed]
  <2>3. new.step = step
    <3> HIDE DEF q
    <3> QED BY <1>0 DEF RequestSet
  <2>4. q.step \in CheckSteps
    BY <1>2 DEF RetrieveSession, RetrieveAccount, CheckSteps
  <2>5. request' = [request EXCEPT ![r] = new]
    BY <2>2
  <2> HIDE DEF new
  <2>6. ~Busy(new, c) /\ ~Busy(q, c)
    BY <2>2, <2>3, <2>4 DEF Busy, VerifySteps, CheckSteps
  <2> QED BY <2>2, <2>5, <2>6, KnownKeptByOne
<1>3. CASE BlockPayout(r) \/ Transfer(r)
  <2>1. /\ request' = [request EXCEPT ![r] = Idle] /\ connects' = connects /\ profile' = profile
        /\ q.step = "checked"
    BY <1>3 DEF BlockPayout, Transfer, Ended, Return, stripe
  <2>2. ~Busy(q, c)
    BY <2>1 DEF Busy, VerifySteps
  <2> QED BY <2>1, <2>2, IdleIsNotBusy, KnownKeptByOne
<1>4. ASSUME NEW d \in Creators, StartPayout(r, d) PROVE AccountKnown(c)'
  <2> DEFINE fresh == profile[d].account \in enabled
             new == [Idle EXCEPT !.step = "check", !.creator = d, !.account = profile[d].account,
                                 !.session = profile[d].session, !.fresh = fresh]
  <2>1. request' = [request EXCEPT ![r] = new] /\ connects' = connects /\ profile' = profile /\ q = Idle
    BY <1>4 DEF StartPayout, stripe
  <2>2. new.step = "check"
    <3> HIDE DEF fresh
    <3> QED BY DEF Idle
  <2> HIDE DEF new
  <2>3. ~Busy(new, c) /\ ~Busy(q, c)
    BY <2>1, <2>2, IdleIsNotBusy DEF Busy, VerifySteps
  <2> QED BY <2>1, <2>3, KnownKeptByOne
<1> QED BY <1>1, <1>2, <1>3, <1>4

\* Steps in which no request moves on.
LEMMA KnownByOutside ==
  ASSUME PayoutTypeOK, ProfilesOwn, Outside, NEW c \in Creators, c \notin disturbed', AccountKnown(c)
  PROVE  AccountKnown(c)'
<1>0. \A a \in DOMAIN connects : a # 0
  BY Fields
<1>1. ASSUME connects' = connects, request' = request, profile'[c].account = profile[c].account
      PROVE  AccountKnown(c)'
  BY <1>0, <1>1, KnownKept
<1>2. ASSUME NEW d \in Creators, Apply(d) PROVE AccountKnown(c)'
  <2>1. connects' = connects /\ request' = request
    BY <1>2 DEF Apply, stripe
  <2>2. profile'[c].account = profile[c].account
    <3>1. CASE c = d
      <4>1. profile[c].account = 0
        BY <1>2, <3>1 DEF Apply
      <4> QED BY <1>2, <3>1, <4>1, ApplyKeeps
    <3>2. CASE c # d
      BY <1>2, <3>2, ApplyKeeps
    <3> QED BY <3>1, <3>2
  <2> QED BY <1>1, <2>1, <2>2
<1>3. ASSUME NEW event \in sent, Webhook(event) PROVE AccountKnown(c)'
  <2>1. connects' = connects /\ request' = request
    BY <1>3 DEF Webhook, stripe
  <2>2. profile'[c].account = profile[c].account
    <3> DEFINE d == identities[event.session].owner
    <3>1. profile'[d].account = profile[d].account /\ \A e \in Creators \ {d} : profile'[e] = profile[e]
      BY <1>3, WebhookKeeps
    <3> HIDE DEF d
    <3> QED BY <3>1
  <2> QED BY <1>1, <2>1, <2>2
<1>4. ASSUME NEW s \in DOMAIN identities, NEW status, Answer(s, status) PROVE AccountKnown(c)'
  BY <1>1, <1>4 DEF Answer
<1>5. ASSUME NEW a \in DOMAIN connects, Disable(a) PROVE AccountKnown(c)'
  BY <1>1, <1>5 DEF Disable
<1>6. ASSUME NEW a \in DOMAIN connects, Enable(a) PROVE AccountKnown(c)'
  <2>1. ASSUME NEW t \in Requests
        PROVE  /\ request'[t].step = request[t].step /\ request'[t].creator = request[t].creator
               /\ request'[t].account = request[t].account
    <3> DEFINE q == request[t]
               fresh == q.fresh \/ (Checking(t) /\ q.account = a)
    <3>1. request'[t] = [q EXCEPT !.fresh = fresh] /\ q \in RequestSet(Len(connects), Len(identities))
      BY <1>6, Fields, Zenon DEF Enable
    <3> HIDE DEF q, fresh
    <3>2. request'[t].step = q.step /\ request'[t].creator = q.creator /\ request'[t].account = q.account
      BY <3>1 DEF RequestSet
    <3> QED BY <3>2 DEF q
  <2>2. connects' = connects /\ profile' = profile
    BY <1>6 DEF Enable
  <2>3. \A t \in Requests : Busy(request'[t], c) <=> Busy(request[t], c)
    BY <2>1 DEF Busy
  <2> QED BY <1>0, <2>1, <2>2, <2>3, KnownKept
<1> QED BY <1>2, <1>3, <1>4, <1>5, <1>6 DEF Outside

LEMMA KnownStep ==
  ASSUME PayoutTypeOK, RequestsSound, ProfilesOwn, AccountsKnown, [PayoutNext]_payoutVars
  PROVE  AccountsKnown'
<1> SUFFICES ASSUME NEW c \in Creators, c \notin disturbed' PROVE AccountKnown(c)'
  BY DEF AccountsKnown
<1>1. AccountKnown(c)
  BY DisturbedGrows DEF AccountsKnown
<1>2. CASE UNCHANGED payoutVars
  BY <1>1, <1>2 DEF payoutVars, stripe, AccountKnown
<1>3. ASSUME NEW r \in Requests, Call(r) PROVE AccountKnown(c)'
  BY <1>1, <1>3, KnownByStart, KnownByAccount, KnownByPersist, KnownByThrow, KnownByOthers DEF Call
<1>4. CASE Outside
  BY <1>1, <1>4, KnownByOutside
<1> QED BY <1>2, <1>3, <1>4 DEF PayoutNext

-----------------------------------------------------------------------------
(* The theorems. *)

LEMMA InitIInv == PayoutInit => IInv
<1> SUFFICES ASSUME PayoutInit PROVE IInv
  OBVIOUS
<1>1. PayoutTypeOK
  BY TypesInit
<1>2. /\ \A c \in Creators : profile[c] = NoProfile
      /\ \A r \in Requests : request[r] = Idle
      /\ connects = <<>> /\ sent = {}
  BY DEF PayoutInit
<1>3. NoProfile.account = 0 /\ NoProfile.session = 0 /\ NoProfile.cache # "verified"
  BY DEF NoProfile
<1>4. Idle.cache # "verified"
  BY DEF Idle
<1>5. ProfilesOwn /\ EventsTrue /\ CacheHonest
  BY <1>2, <1>3, <1>4 DEF ProfilesOwn, Owns, EventsTrue, CacheHonest
<1>6. RequestsSound
  BY <1>2, SoundIdle DEF RequestsSound
<1>7. AccountsKnown
  BY <1>2, <1>3, IdleIsNotBusy DEF AccountsKnown, AccountKnown
<1> QED BY <1>1, <1>5, <1>6, <1>7 DEF IInv

LEMMA InvariantStep == IInv /\ [PayoutNext]_payoutVars => IInv'
<1> SUFFICES ASSUME IInv, [PayoutNext]_payoutVars PROVE IInv'
  OBVIOUS
<1>1. /\ PayoutTypeOK /\ ProfilesOwn /\ RequestsSound /\ EventsTrue /\ CacheHonest /\ AccountsKnown
  BY DEF IInv
<1>2. PayoutTypeOK'
  BY <1>1, TypesStep
<1> QED BY <1>1, <1>2, OwnStep, SoundStep, EventsStep, HonestStep, KnownStep DEF IInv

LEMMA PayoutInvariant == PayoutSpec => []IInv
BY InitIInv, InvariantStep, PTL DEF PayoutSpec

\* The profiles, the requests and what Stripe holds have their types: an id on
\* file or in a request is always one that Stripe has made.
THEOREM PayoutTypes == PayoutSpec => []PayoutTypeOK
<1>1. IInv => PayoutTypeOK
  BY DEF IInv
<1> QED BY <1>1, PayoutInvariant, PTL

\* What is known of the account says that there is one at most.
LEMMA KnownIsOne ==
  ASSUME PayoutTypeOK, NEW c \in Creators, AccountKnown(c)
  PROVE  Cardinality({a \in DOMAIN connects : connects[a] = c}) <= 1
<1> DEFINE mine == {a \in DOMAIN connects : connects[a] = c}
<1>1. ASSUME NEW a \in mine, NEW b \in mine PROVE a = b
  <2>1. /\ a = profile[c].account \/ \E r \in Requests : Busy(request[r], c) /\ request[r].account = a
        /\ b = profile[c].account \/ \E r \in Requests : Busy(request[r], c) /\ request[r].account = b
        /\ a # 0 /\ b # 0
    BY Fields DEF AccountKnown
  <2>2. CASE profile[c].account = 0
    BY <2>1, <2>2 DEF AccountKnown
  <2>3. CASE profile[c].account # 0
    BY <2>1, <2>3 DEF AccountKnown
  <2> QED BY <2>2, <2>3
<1>2. mine = {} \/ \E a : mine = {a}
  <2> HIDE DEF mine
  <2> QED BY <1>1
<1> HIDE DEF mine
<1>3. CASE mine = {}
  BY <1>3, FS_EmptySet DEF mine
<1>4. ASSUME NEW a, mine = {a} PROVE Cardinality(mine) = 1
  BY <1>4, FS_Singleton
<1> QED BY <1>2, <1>3, <1>4 DEF mine

\* What the service keeps of a creator agrees with Stripe, however calls,
\* webhooks and Stripe's own steps interleave: a cached "verified" is true there,
\* and a creator whose requests were not cut short, doubled or applied over has
\* one account.
THEOREM PayoutStateSound == PayoutSpec => []PayoutStateIsSound
<1>1. IInv => PayoutStateIsSound
  <2> SUFFICES ASSUME IInv PROVE PayoutStateIsSound
    OBVIOUS
  <2>1. \A c \in Creators \ disturbed : Cardinality({a \in DOMAIN connects : connects[a] = c}) <= 1
    BY KnownIsOne DEF IInv, AccountsKnown
  <2> QED BY <2>1 DEF IInv, PayoutStateIsSound, AccountReused
<1> QED BY <1>1, PayoutInvariant, PTL

\* A transfer goes to the creator's own account, found enabled during this very
\* request, and only when an identity of that creator's stands verified at
\* Stripe: of the two retrievals that run at once neither is passed over, and no
\* interleaving makes the answer of one request serve another.
THEOREM OnlyVerifiedArePaid == PayoutSpec => PaidOnlyVerified
<1>1. ASSUME IInv, NEW r \in Requests, Transfer(r)
      PROVE  LET q == request[r] IN
             /\ identities[q.session] = [owner |-> q.creator, status |-> "verified"]
             /\ connects[q.account] = q.creator
             /\ q.fresh
  <2> DEFINE q == request[r]
  <2>1. q.step = "checked" /\ q.passed
    BY <1>1 DEF Transfer
  <2>2. Sound(q, connects, identities, enabled) /\ q \in RequestSet(Len(connects), Len(identities))
    BY <1>1, Fields DEF IInv, RequestsSound
  <2>3. /\ Owns(q, q.creator, connects, identities) /\ Checked(q, identities, enabled)
        /\ q.account # 0 /\ q.session # 0
    BY <2>1, <2>2 DEF Sound
  <2>4. identities[q.session].status = "verified" /\ q.fresh
    BY <2>1, <2>3, Zenon DEF Checked, CheckSteps
  <2>5. identities[q.session].owner = q.creator /\ connects[q.account] = q.creator
    BY <2>3 DEF Owns
  <2>6. q.session \in DOMAIN identities
    BY <1>1, <2>2, <2>3, Fields DEF IInv, RequestSet
  <2>7. identities[q.session] \in Identity
    BY <1>1, <2>6, Fields DEF IInv
  <2>8. identities[q.session] = [owner |-> q.creator, status |-> "verified"]
    BY <2>4, <2>5, <2>7 DEF Identity
  <2> QED BY <2>4, <2>5, <2>8
<1>2. IInv => (\A r \in Requests : Transfer(r) =>
                 LET q == request[r] IN
                 /\ identities[q.session] = [owner |-> q.creator, status |-> "verified"]
                 /\ connects[q.account] = q.creator
                 /\ q.fresh)
  BY <1>1
<1>3. PayoutSpec => []IInv
  BY PayoutInvariant
<1> QED BY <1>2, <1>3, PTL DEF PaidOnlyVerified
=============================================================================
