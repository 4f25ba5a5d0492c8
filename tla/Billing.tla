-------------------------------- MODULE Billing --------------------------------
(***************************************************************************)
(* What the platform charges: the price book (billing/pricing.ts), the     *)
(* tenants' allowance accounts (billing/allowance.ts), the meter that      *)
(* watches APEX's dispatches (billing/meter.ts), the checkout stub         *)
(* (billing/stripe_stub.ts) and the handlers of gateway/server.ts that     *)
(* drive them.  Every call is synchronous, so a step is a whole call.      *)
(* Money is counted in the smallest unit the code rounds to.               *)
(***************************************************************************)
EXTENDS Integers, Sequences, SequencesExt

CONSTANTS
  Tenants, DefaultTenant, \* DefaultTenant: the seeded tenant, which the meter bills
  Tiers, DefaultTier, SeedTier,
  Pricing,          \* per tier: config/pricing.json and the checkout's price
  Unlimited,        \* the hard cap of a tier without one
  Absent,           \* a field that a call leaves out
  MaxOccurrences,   \* the size of an account's ring of occurrences
  SessionTtl,
  Works, Costs,     \* bound: work and ledger costs of a dispatch
  Adjustments,      \* bound: what the operator asks for
  MaxEvents, MaxSessions, MaxClock   \* bounds

ASSUME TenantAssumption == DefaultTenant \in Tenants /\ {DefaultTier, SeedTier} \subseteq Tiers
ASSUME PricingAssumption ==
  Pricing \in [Tiers -> [perRequest : Nat, rate : Nat, overage : Nat, included : Nat,
                         cap : Nat \cup {Unlimited}, byok : BOOLEAN, fee : Nat, price : Nat]]
ASSUME MarkersAssumption == Unlimited \notin Nat /\ Absent \notin Nat \cup {Unlimited} \cup Tiers
ASSUME BoundsAssumption ==
  /\ Works \cup Costs \subseteq Nat
  /\ Adjustments \subseteq [tier : Tiers \cup {Absent}, included : Nat \cup {Absent},
                            cap : Nat \cup {Absent, Unlimited}]
  /\ MaxOccurrences \in Nat \ {0}
  /\ {SessionTtl, MaxEvents, MaxSessions, MaxClock} \subseteq Nat

VARIABLES
  accounts,   \* AllowanceStore: the tenants that have one
  meter,      \* MeterService's counters
  sessions,   \* StripeCheckoutStub's sessions, in the order they were created
  clock

vars == <<accounts, meter, sessions, clock>>

-----------------------------------------------------------------------------
(* The account. *)

Fresh(tier) == [tier |-> tier, included |-> Absent, cap |-> Absent, spent |-> 0,
                accepted |-> 0, rejected |-> 0, log |-> <<>>]
Account(t) == IF t \in DOMAIN accounts THEN accounts[t] ELSE Fresh(DefaultTier)
Put(t, account) ==
  accounts' = [u \in DOMAIN accounts \cup {t} |-> IF u = t THEN account ELSE accounts[u]]

Included(a) == IF a.included = Absent THEN Pricing[a.tier].included ELSE a.included
Cap(a) == IF a.cap = Absent THEN Pricing[a.tier].cap ELSE a.cap

\* A tier drops the overrides that came before it.
AdjustedAfresh(a, input) ==   \* mutant of Adjusted: another tier opens another account
  LET b == IF input.tier = Absent THEN a ELSE Fresh(input.tier)
  IN [b EXCEPT !.included = IF input.included = Absent THEN @ ELSE input.included,
               !.cap = IF input.cap = Absent THEN @ ELSE input.cap]
Adjusted(a, input) ==
  LET b == IF input.tier = Absent THEN a
           ELSE [a EXCEPT !.tier = input.tier, !.included = Absent, !.cap = Absent]
  IN [b EXCEPT !.included = IF input.included = Absent THEN @ ELSE input.included,
               !.cap = IF input.cap = Absent THEN @ ELSE input.cap]

Estimate(tier, work, prior) ==
  LET p == Pricing[tier]
      within == prior < p.included
  IN IF p.byok THEN [rate |-> "byok", cost |-> p.fee]
     ELSE [rate |-> IF within THEN "included" ELSE "overage",
           cost |-> p.perRequest + work * (IF within THEN p.rate ELSE p.overage)]

\* A use is some work, or some work at a cost that is known already.
Bill(a, use) ==
  IF Pricing[a.tier].byok \/ use.cost = Absent
  THEN Estimate(a.tier, use.work, a.spent)
  ELSE [rate |-> "included", cost |-> use.cost]

FitsBefore(a, cost) ==   \* mutant of Fits: what is being spent is not counted
  Pricing[a.tier].byok \/ Cap(a) = Unlimited \/ a.spent <= Cap(a)
Fits(a, cost) == Pricing[a.tier].byok \/ Cap(a) = Unlimited \/ a.spent + cost <= Cap(a)

Ring(log, r) == IF Len(log) = MaxOccurrences THEN Append(Tail(log), r) ELSE Append(log, r)

Consumed(a, use) ==
  LET bill == Bill(a, use)
      fits == Fits(a, bill.cost)
  IN [a EXCEPT !.spent = IF fits THEN @ + bill.cost ELSE @,
               !.accepted = IF fits THEN @ + 1 ELSE @,
               !.rejected = IF fits THEN @ ELSE @ + 1,
               !.log = Ring(@, [rate |-> bill.rate, cost |-> bill.cost, accepted |-> fits])]

-----------------------------------------------------------------------------
(* The meter: an observer of APEX's dispatches. *)

Skip ==
  /\ meter.metered + meter.skipped < MaxEvents
  /\ meter' = [meter EXCEPT !.skipped = @ + 1]
  /\ UNCHANGED <<accounts, sessions, clock>>

Meter(use) ==
  LET t == DefaultTenant
      a == Consumed(Account(t), use)
      bill == Bill(Account(t), use)
      fits == Fits(Account(t), bill.cost)
  IN /\ meter.metered + meter.skipped < MaxEvents
     /\ Put(t, a)
     /\ meter' = [meter EXCEPT !.metered = @ + 1,
                               !.rejected = IF fits THEN @ ELSE @ + 1,
                               !.attributed = IF fits THEN @ + bill.cost ELSE @]
     /\ UNCHANGED <<sessions, clock>>

\* A success at an ephemeral agent is priced by the personas it lit up, for at
\* least the shortest duration; any other success by what the ledger says.
ObserveEphemeral(work) == Meter([work |-> work, cost |-> Absent])
ObserveOther(cost) == Meter([work |-> 0, cost |-> cost])

-----------------------------------------------------------------------------
(* The handlers of the gateway. *)

\* Reading the usage or an estimate opens the account.
Read(t) ==
  /\ Put(t, Account(t))
  /\ UNCHANGED <<meter, sessions, clock>>

Allowance(t, input) ==
  /\ \E field \in {"tier", "included", "cap"} : input[field] # Absent
  /\ Put(t, Adjusted(Account(t), input))
  /\ UNCHANGED <<meter, sessions, clock>>

Checkout(t, tier) ==
  /\ Len(sessions) < MaxSessions
  /\ sessions' = Append(sessions,
       [tenant |-> t, tier |-> tier, status |-> "open", expiresAt |-> clock + SessionTtl,
        payment |-> IF Pricing[tier].price = 0 THEN "no_payment_required" ELSE "unpaid"])
  /\ UNCHANGED <<accounts, meter, clock>>

Marked(s) ==
  IF clock >= s.expiresAt THEN [s EXCEPT !.status = "expired"]
  ELSE [s EXCEPT !.status = "complete",
                 !.payment = IF Pricing[s.tier].price = 0 THEN "no_payment_required" ELSE "paid"]

\* Settling may be repeated; each time the tenant's tier is set again.
SettleAnyway(i) ==   \* mutant of Settle: an expired session upgrades all the same
  LET s == Marked(sessions[i])
      upgrade == [tier |-> s.tier, included |-> Absent, cap |-> Absent]
  IN /\ sessions' = [sessions EXCEPT ![i] = s]
     /\ Put(s.tenant, Adjusted(Account(s.tenant), upgrade))
     /\ UNCHANGED <<meter, clock>>
LapseDowngrades(i) ==   \* mutant of Settle: a session that lapsed takes its plan back
  LET s == Marked(sessions[i])
      tier == IF s.status = "complete" THEN s.tier ELSE DefaultTier
  IN /\ sessions' = [sessions EXCEPT ![i] = s]
     /\ Put(s.tenant, Adjusted(Account(s.tenant), [tier |-> tier, included |-> Absent, cap |-> Absent]))
     /\ UNCHANGED <<meter, clock>>
Settle(i) ==
  LET s == Marked(sessions[i])
      upgrade == [tier |-> s.tier, included |-> Absent, cap |-> Absent]
  IN /\ sessions' = [sessions EXCEPT ![i] = s]
     /\ IF s.status = "complete"
        THEN Put(s.tenant, Adjusted(Account(s.tenant), upgrade))
        ELSE UNCHANGED accounts
     /\ UNCHANGED <<meter, clock>>

Tick ==
  /\ clock < MaxClock /\ clock' = clock + 1
  /\ UNCHANGED <<accounts, meter, sessions>>

-----------------------------------------------------------------------------
Init ==
  /\ accounts = [t \in {DefaultTenant} |-> Fresh(SeedTier)]
  /\ meter = [metered |-> 0, skipped |-> 0, rejected |-> 0, attributed |-> 0]
  /\ sessions = <<>> /\ clock = 0

Next ==
  \/ Skip
  \/ \E work \in Works : ObserveEphemeral(work)
  \/ \E cost \in Costs : ObserveOther(cost)
  \/ \E t \in Tenants : Read(t)
  \/ \E t \in Tenants, input \in Adjustments : Allowance(t, input)
  \/ \E t \in Tenants, tier \in Tiers : Checkout(t, tier)
  \/ \E i \in DOMAIN sessions : Settle(i)
  \/ Tick

Spec == Init /\ [][Next]_vars

-----------------------------------------------------------------------------
(* Properties. *)

Records == [rate : {"included", "overage", "byok"}, cost : Nat, accepted : BOOLEAN]
Accounts == [tier : Tiers, included : Nat \cup {Absent}, cap : Nat \cup {Absent, Unlimited},
             spent : Nat, accepted : Nat, rejected : Nat, log : Seq(Records)]
Sessions == [tenant : Tenants, tier : Tiers, status : {"open", "complete", "expired"},
             expiresAt : Nat, payment : {"unpaid", "paid", "no_payment_required"}]
TypeOK ==
  /\ DefaultTenant \in DOMAIN accounts /\ DOMAIN accounts \subseteq Tenants
  /\ \A t \in DOMAIN accounts : /\ accounts[t] \in Accounts
                                /\ Len(accounts[t].log) <= MaxOccurrences
  /\ meter \in [metered : Nat, skipped : Nat, rejected : Nat, attributed : Nat]
  /\ sessions \in Seq(Sessions) /\ clock \in Nat

\* The meter and the account it bills count the same things on their own: what
\* was attributed is what was spent and the calls that were metered are those
\* accepted and refused, whatever plans the tenant went through in between.
MeterAgrees ==
  LET a == accounts[DefaultTenant]
  IN /\ meter.attributed = a.spent
     /\ meter.rejected = a.rejected
     /\ meter.metered = a.accepted + a.rejected

\* "The hard cap is a firm ceiling for non-BYOK tiers": no call takes the spend
\* of an account above the cap that is in force.
Byok(a) == Pricing[a.tier].byok
CapIsFirm ==
  [][\A t \in DOMAIN accounts :
       LET a == accounts'[t] IN
       (a.spent > accounts[t].spent /\ ~Byok(a) /\ Cap(a) # Unlimited) => a.spent <= Cap(a)]_vars

\* A tenant is on the tier it started with, on one the operator gives, or on one
\* it has checked out and does not owe.
PlanIsPaidFor ==
  \A t \in DOMAIN accounts :
    LET tier == accounts[t].tier IN
    \/ tier \in {DefaultTier, SeedTier} \cup {input.tier : input \in Adjustments}
    \/ \E i \in DOMAIN sessions : /\ sessions[i].tenant = t /\ sessions[i].tier = tier
                                  /\ sessions[i].payment # "unpaid"

\* Settled again past its time, also a session that was complete and paid turns
\* "expired": that costs nobody the plan or the allowance it has by then, what was
\* paid stays paid, and no later settling brings the session back to life.
LapseCostsNothing ==
  [][\A i \in DOMAIN sessions :
       LET before == sessions[i]  after == sessions'[i] IN
       /\ before.status = "expired" => after = before
       /\ before.payment = "paid" => after.payment = "paid"
       /\ after.status = "expired" /\ before.status # "expired" => UNCHANGED accounts]_vars

\* "The tier's standard rate while the account is within its included allowance,
\* and the tier's OVERAGE rate once the included allowance is spent."
Charged(t) == accounts'[t].accepted > accounts[t].accepted
OverageOnlyPastIncluded ==
  [][\A t \in DOMAIN accounts :
       (Charged(t) /\ Last(accounts'[t].log).rate = "overage") =>
         accounts[t].spent >= Included(accounts[t])]_vars
=============================================================================
