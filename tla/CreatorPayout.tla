----------------------------- MODULE CreatorPayout -----------------------------
(***************************************************************************)
(* Paying creators: the calls of the live Stripe provider                  *)
(* (creator/payout_stripe_live.ts), the webhook that keeps its cache       *)
(* (creator/stripe_webhook.ts) and the profile a creator applies with      *)
(* (creator/handlers.ts).  Every await of a call is a point where other    *)
(* calls, webhooks and Stripe itself go on.                                *)
(*                                                                         *)
(* Accounts and verification identities are numbered in the order Stripe     *)
(* makes them; 0 stands for an id that is not on file.                     *)
(***************************************************************************)
EXTENDS Naturals, Sequences, FiniteSets

CONSTANTS
  Creators,
  Nobody,      \* the creator of an idle slot
  Requests,    \* the requests in flight: one slot each
  MaxMade      \* bound: connects and identities that Stripe makes

ASSUME MaxMadeAssumption == MaxMade \in Nat
ASSUME NobodyAssumption == Nobody \notin Creators

VARIABLES
  profile,     \* the CreatorProfile rows, as far as Stripe's ids and answers go
  request,     \* where each request is, and what it read before its awaits
  connects,    \* Stripe: whose Connect connects, in order
  identities,    \* Stripe: whose verification identities, and how they stand
  enabled,     \* Stripe: connects with payouts_enabled
  sent,        \* Stripe: webhook events, delivered in any order, any number of times
  disturbed    \* history: creators whose account may have been made and forgotten

stripe == <<connects, identities, enabled, sent>>
payoutVars == <<profile, request, stripe, disturbed>>

NoProfile == [account |-> 0, session |-> 0, cache |-> "none"]
Idle == [step |-> "idle", creator |-> Nobody, cache |-> "none", account |-> 0, session |-> 0,
         passed |-> TRUE, fresh |-> FALSE]

PayoutInit ==
  /\ profile = [c \in Creators |-> NoProfile]
  /\ request = [r \in Requests |-> Idle]
  /\ connects = <<>> /\ identities = <<>> /\ enabled = {} /\ sent = {}
  /\ disturbed = {}

Return(r) == request' = [request EXCEPT ![r] = Idle]

-----------------------------------------------------------------------------
(* requestVerification. *)

Verifying(c) == \E r \in Requests : request[r].creator = c /\ request[r].step \in {"account", "session", "link"}

AlwaysAnAccount(p) == "account"   \* mutant of NextNeeded: an account on file is not reused
NextNeeded(p) == IF p.account = 0 THEN "account" ELSE "session"
StartVerification(r, c) ==
  /\ request[r] = Idle
  /\ request' = [request EXCEPT ![r] = [Idle EXCEPT !.step = NextNeeded(profile[c]), !.creator = c,
                                                    !.cache = profile[c].cache,
                                                    !.account = profile[c].account]]
  /\ disturbed' = disturbed \cup {x \in {c} : Verifying(x) /\ profile[x].account = 0}
  /\ UNCHANGED <<profile, stripe>>

CreateAccount(r) ==
  /\ request[r].step = "account" /\ Len(connects) + Len(identities) < MaxMade
  /\ connects' = Append(connects, request[r].creator)
  /\ request' = [request EXCEPT ![r].step = "session", ![r].account = Len(connects')]
  /\ UNCHANGED <<profile, identities, enabled, sent, disturbed>>

CreateSession(r) ==
  /\ request[r].step = "session" /\ Len(connects) + Len(identities) < MaxMade
  /\ identities' = Append(identities, [owner |-> request[r].creator, status |-> "requires_input"])
  /\ request' = [request EXCEPT ![r].step = "link", ![r].session = Len(identities')]
  /\ UNCHANGED <<profile, connects, enabled, sent, disturbed>>

\* The account link has come: persistProfile writes what was read before the
\* awaits, with the two new ids.
Persist(r) ==
  /\ request[r].step = "link"
  /\ profile' = [profile EXCEPT ![request[r].creator] =
       [account |-> request[r].account, session |-> request[r].session,
        cache |-> IF request[r].cache = "none" THEN "pending" ELSE request[r].cache]]
  /\ Return(r)
  /\ UNCHANGED <<stripe, disturbed>>

-----------------------------------------------------------------------------
(* requestPayout. *)

StartPayout(r, c) ==
  /\ request[r] = Idle /\ profile[c].account # 0 /\ profile[c].session # 0
  /\ request' = [request EXCEPT ![r] =
       [Idle EXCEPT !.step = "check", !.creator = c,
                    !.account = profile[c].account, !.session = profile[c].session,
                    !.fresh = profile[c].account \in enabled]]
  /\ UNCHANGED <<profile, stripe, disturbed>>

Checking(r) == request[r].step \in {"check", "checkSession", "checkAccount", "checked"}

\* Both retrievals run at once; each sees Stripe at a moment of its own.
TrustCache(r) ==   \* mutant of RetrieveSession: the local cache is believed
  /\ request[r].step \in {"check", "checkSession"}
  /\ request' = [request EXCEPT
       ![r].step = IF request[r].step = "check" THEN "checkAccount" ELSE "checked",
       ![r].passed = @ /\ profile[request[r].creator].cache = "verified"]
  /\ UNCHANGED <<profile, stripe, disturbed>>
RetrieveSession(r) ==
  /\ request[r].step \in {"check", "checkSession"}
  /\ request' = [request EXCEPT
       ![r].step = IF request[r].step = "check" THEN "checkAccount" ELSE "checked",
       ![r].passed = @ /\ identities[request[r].session].status = "verified"]
  /\ UNCHANGED <<profile, stripe, disturbed>>

RetrieveAccount(r) ==
  /\ request[r].step \in {"check", "checkAccount"}
  /\ request' = [request EXCEPT
       ![r].step = IF request[r].step = "check" THEN "checkSession" ELSE "checked",
       ![r].passed = @ /\ request[r].account \in enabled]
  /\ UNCHANGED <<profile, stripe, disturbed>>

Ended(r) == Return(r) /\ UNCHANGED <<profile, stripe>>

BlockPayout(r) ==
  /\ request[r].step = "checked" /\ ~request[r].passed
  /\ Ended(r) /\ UNCHANGED disturbed

Transfer(r) ==
  /\ request[r].step = "checked" /\ request[r].passed
  /\ Ended(r) /\ UNCHANGED disturbed

\* A call of Stripe's throws, and the request with it.
Throw(r) ==
  /\ request[r].step # "idle"
  /\ disturbed' = disturbed \cup {c \in {request[r].creator} : request[r].step \in {"session", "link"}}
  /\ Ended(r)

-----------------------------------------------------------------------------
(* The profile and the webhook. *)

\* handleCreatorApply builds the record anew, without Stripe's ids.
Apply(c) ==
  /\ profile' = [profile EXCEPT ![c] = NoProfile]
  /\ disturbed' = disturbed \cup {x \in {c} : profile[x].account # 0}
  /\ UNCHANGED <<request, stripe>>

AnyAnswerVerifies(status) == IF status = "canceled" THEN "unverified" ELSE "verified"   \* mutant of CacheOf
CacheOf(status) ==
  CASE status = "verified" -> "verified"
    [] status = "requires_input" -> "pending"
    [] status = "canceled" -> "unverified"

\* updateVerificationCache; the event stays, for it may be delivered again.
Webhook(event) ==
  /\ profile' = [profile EXCEPT ![identities[event.session].owner].cache = CacheOf(event.status)]
  /\ UNCHANGED <<request, stripe, disturbed>>

-----------------------------------------------------------------------------
(* Stripe. *)

\* The creator's documents are checked, or the session is canceled.
Answer(s, status) ==
  /\ identities[s].status = "requires_input"
  /\ identities' = [identities EXCEPT ![s].status = status]
  /\ sent' = sent \cup {[session |-> s, status |-> status]}
  /\ UNCHANGED <<profile, request, connects, enabled, disturbed>>

Enable(a) ==
  /\ a \notin enabled /\ enabled' = enabled \cup {a}
  /\ request' = [r \in Requests |->
       [request[r] EXCEPT !.fresh = @ \/ (Checking(r) /\ request[r].account = a)]]
  /\ UNCHANGED <<profile, connects, identities, sent, disturbed>>

Disable(a) ==
  /\ a \in enabled /\ enabled' = enabled \ {a}
  /\ UNCHANGED <<profile, request, connects, identities, sent, disturbed>>

Call(r) ==
  \/ \E c \in Creators : StartVerification(r, c) \/ StartPayout(r, c)
  \/ CreateAccount(r) \/ CreateSession(r) \/ Persist(r)
  \/ RetrieveSession(r) \/ RetrieveAccount(r) \/ BlockPayout(r) \/ Transfer(r)
  \/ Throw(r)

Outside ==
  \/ \E c \in Creators : Apply(c)
  \/ \E event \in sent : Webhook(event)
  \/ \E s \in DOMAIN identities, status \in {"verified", "requires_input", "canceled"} : Answer(s, status)
  \/ \E a \in DOMAIN connects : Enable(a) \/ Disable(a)

PayoutNext == (\E r \in Requests : Call(r)) \/ Outside

PayoutSpec == PayoutInit /\ [][PayoutNext]_payoutVars

-----------------------------------------------------------------------------
(* Properties. *)

Caches == {"none", "unverified", "pending", "verified"}
Statuses == {"requires_input", "verified", "canceled"}
Profiles == [account : 0..Len(connects), session : 0..Len(identities), cache : Caches]
PayoutTypeOK ==
  /\ connects \in Seq(Creators) /\ identities \in Seq([owner : Creators, status : Statuses])
  /\ enabled \subseteq DOMAIN connects
  /\ sent \subseteq [session : DOMAIN identities, status : Statuses]
  /\ profile \in [Creators -> Profiles]
  /\ request \in [Requests ->
       [step : {"idle", "account", "session", "link", "check", "checkSession", "checkAccount", "checked"},
        creator : Creators \cup {Nobody}, cache : Caches,
        account : 0..Len(connects), session : 0..Len(identities),
        passed : BOOLEAN, fresh : BOOLEAN]]
  /\ disturbed \subseteq Creators

\* "Re-verifies LIVE against Stripe's own API": money goes to an account of the
\* creator's own that was enabled during this very request, and only when a
\* session of that creator's stands verified at Stripe.
PaidOnlyVerified ==
  [][\A r \in Requests : Transfer(r) =>
       LET q == request[r] IN
       /\ identities[q.session] = [owner |-> q.creator, status |-> "verified"]
       /\ connects[q.account] = q.creator
       /\ q.fresh]_payoutVars

\* The cache, and what a request remembers of it, says "verified" only of a
\* creator Stripe has verified once, however late or often the webhooks come.
Verified(c) == \E s \in DOMAIN identities : identities[s] = [owner |-> c, status |-> "verified"]
CacheHonest ==
  /\ \A c \in Creators : profile[c].cache = "verified" => Verified(c)
  /\ \A r \in Requests : request[r].cache = "verified" => Verified(request[r].creator)

\* "Create (or reuse) a Connect account": a creator has one, if no request died
\* between making it and writing it down, no second one overlapped, and the
\* creator did not apply again.
AccountReused ==
  \A c \in Creators \ disturbed : Cardinality({a \in DOMAIN connects : connects[a] = c}) <= 1

\* What the service keeps of a creator's payouts agrees with Stripe: a cached
\* "verified" is true there, and a creator has one account unless a request died,
\* another overlapped it, or the creator applied again.
PayoutStateIsSound == CacheHonest /\ AccountReused
=============================================================================
