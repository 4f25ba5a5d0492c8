----------------------------- MODULE BillingProofs -----------------------------
(***************************************************************************)
(* Theorems about billing, for any tenants, price book, amounts and        *)
(* bounds; and about tenancy, for any catalog of models.                   *)
(***************************************************************************)
EXTENDS Billing, Tenancy, SequenceTheorems, WellFoundedInduction, TLAPS

Bills == [rate : {"included", "overage", "byok"}, cost : Nat]
Uses == [work : Nat, cost : Nat \cup {Absent}]

\* The plan of a tenant has a reason.
Free == {DefaultTier, SeedTier} \cup {input.tier : input \in Adjustments}
PaidIn(ss, t, tier) ==
  \E i \in DOMAIN ss : ss[i].tenant = t /\ ss[i].tier = tier /\ ss[i].payment # "unpaid"

\* A session is told expired only after its time, and paid only when it costs
\* something: settling it again changes neither.
InTime(s) == /\ s.status = "expired" => clock >= s.expiresAt
             /\ s.payment = "paid" => Pricing[s.tier].price # 0
SessionsInTime == \A i \in DOMAIN sessions : InTime(sessions[i])

IInv == TypeOK /\ MeterAgrees /\ PlanIsPaidFor

-----------------------------------------------------------------------------
(* The operators on accounts. *)

LEMMA PriceRow ==
  ASSUME NEW tier \in Tiers
  PROVE  /\ Pricing[tier].perRequest \in Nat /\ Pricing[tier].rate \in Nat
         /\ Pricing[tier].overage \in Nat /\ Pricing[tier].included \in Nat
         /\ Pricing[tier].cap \in Nat \cup {Unlimited} /\ Pricing[tier].fee \in Nat
BY PricingAssumption

LEMMA ProductIsNat == ASSUME NEW x \in Nat, NEW y \in Nat PROVE x * y \in Nat
OBVIOUS

\* Whatever is used, its bill is a natural number of units at a known rate.
LEMMA BillType ==
  ASSUME NEW a \in Accounts, NEW use \in Uses
  PROVE  Bill(a, use) \in Bills
<1> DEFINE p == Pricing[a.tier]
<1>1. a.tier \in Tiers /\ use.work \in Nat
  BY DEF Accounts, Uses
<1>2. /\ p.perRequest \in Nat /\ p.rate \in Nat /\ p.overage \in Nat /\ p.fee \in Nat
  BY <1>1, PriceRow
<1>3. p.perRequest + use.work * p.rate \in Nat /\ p.perRequest + use.work * p.overage \in Nat
  <2>1. use.work * p.rate \in Nat /\ use.work * p.overage \in Nat
    BY <1>1, <1>2, ProductIsNat
  <2> QED BY <2>1, <1>2
<1>4. Estimate(a.tier, use.work, a.spent) \in Bills
  BY <1>2, <1>3 DEF Estimate, Bills
<1>5. CASE Pricing[a.tier].byok \/ use.cost = Absent
  BY <1>4, <1>5 DEF Bill
<1>6. CASE ~(Pricing[a.tier].byok \/ use.cost = Absent)
  <2>1. use.cost \in Nat
    BY <1>6 DEF Uses
  <2> QED BY <1>6, <2>1 DEF Bill, Bills
<1> QED BY <1>5, <1>6

LEMMA RingType ==
  ASSUME NEW log \in Seq(Records), NEW r \in Records, Len(log) <= MaxOccurrences
  PROVE  Ring(log, r) \in Seq(Records) /\ Len(Ring(log, r)) <= MaxOccurrences
<1>1. MaxOccurrences \in Nat \ {0}
  BY BoundsAssumption
<1>2. CASE Len(log) = MaxOccurrences
  <2>1. log # <<>>
    BY <1>1, <1>2
  <2>2. Tail(log) \in Seq(Records) /\ Len(Tail(log)) = Len(log) - 1
    BY <2>1
  <2> QED BY <1>1, <1>2, <2>2 DEF Ring
<1>3. CASE Len(log) # MaxOccurrences
  BY <1>1, <1>3 DEF Ring
<1> QED BY <1>2, <1>3

WellKept(a) == a \in Accounts /\ Len(a.log) <= MaxOccurrences

\* Consuming keeps the account's shape and plan, and says what it adds to it.
LEMMA ConsumedKeeps ==
  ASSUME NEW a, WellKept(a), NEW use \in Uses
  PROVE  LET b == Consumed(a, use)
             bill == Bill(a, use)
             fits == Fits(a, bill.cost)
         IN /\ WellKept(b)
            /\ b.tier = a.tier /\ b.cap = a.cap /\ b.included = a.included
            /\ b.spent = IF fits THEN a.spent + bill.cost ELSE a.spent
            /\ b.accepted = IF fits THEN a.accepted + 1 ELSE a.accepted
            /\ b.rejected = IF fits THEN a.rejected ELSE a.rejected + 1
<1> DEFINE bill == Bill(a, use)
           fits == Fits(a, bill.cost)
           entry == [rate |-> bill.rate, cost |-> bill.cost, accepted |-> fits]
           b == Consumed(a, use)
<1>1. bill \in Bills
  BY BillType DEF WellKept
<1>2. fits \in BOOLEAN
  BY DEF Fits
<1>3. entry \in Records
  BY <1>1, <1>2 DEF Bills, Records
<1>4. Ring(a.log, entry) \in Seq(Records) /\ Len(Ring(a.log, entry)) <= MaxOccurrences
  BY <1>3, RingType DEF WellKept, Accounts
<1>5. b = [a EXCEPT !.spent = IF fits THEN @ + bill.cost ELSE @,
                    !.accepted = IF fits THEN @ + 1 ELSE @,
                    !.rejected = IF fits THEN @ ELSE @ + 1,
                    !.log = Ring(@, entry)]
  BY DEF Consumed
<1> HIDE DEF bill, fits, entry, b
<1>6. /\ b.tier = a.tier /\ b.cap = a.cap /\ b.included = a.included
      /\ b.spent = IF fits THEN a.spent + bill.cost ELSE a.spent
      /\ b.accepted = IF fits THEN a.accepted + 1 ELSE a.accepted
      /\ b.rejected = IF fits THEN a.rejected ELSE a.rejected + 1
      /\ b.log = Ring(a.log, entry)
  BY <1>5 DEF WellKept, Accounts
<1>7. b \in Accounts
  <2>1. a.spent \in Nat /\ a.accepted \in Nat /\ a.rejected \in Nat /\ bill.cost \in Nat
    BY <1>1 DEF WellKept, Accounts, Bills
  <2>2. b.spent \in Nat /\ b.accepted \in Nat /\ b.rejected \in Nat
    <3>1. CASE fits
      BY <2>1, <1>6, <3>1
    <3>2. CASE ~fits
      BY <2>1, <1>6, <3>2
    <3> QED BY <3>1, <3>2
  <2>3. b = [a EXCEPT !.spent = b.spent, !.accepted = b.accepted,
                      !.rejected = b.rejected, !.log = b.log]
    BY <1>5, <1>6
  <2>4. b.log \in Seq(Records)
    BY <1>4, <1>6
  <2> QED BY <2>2, <2>3, <2>4 DEF WellKept, Accounts
<1>8. WellKept(b)
  BY <1>4, <1>6, <1>7 DEF WellKept
<1> QED BY <1>6, <1>8 DEF bill, fits, b

\* Adjusting an account touches neither its money nor its log.
Asks == [tier : Tiers \cup {Absent}, included : Nat \cup {Absent},
         cap : Nat \cup {Absent, Unlimited}]
LEMMA AdjustedKeeps ==
  ASSUME NEW a, WellKept(a), NEW input \in Asks
  PROVE  LET b == Adjusted(a, input)
         IN /\ WellKept(b)
            /\ b.tier = IF input.tier = Absent THEN a.tier ELSE input.tier
            /\ b.spent = a.spent /\ b.accepted = a.accepted
            /\ b.rejected = a.rejected /\ b.log = a.log
<1> DEFINE c == IF input.tier = Absent THEN a
                ELSE [a EXCEPT !.tier = input.tier, !.included = Absent, !.cap = Absent]
           b == Adjusted(a, input)
<1>1. /\ WellKept(c)
      /\ c.tier = IF input.tier = Absent THEN a.tier ELSE input.tier
      /\ c.spent = a.spent /\ c.accepted = a.accepted
      /\ c.rejected = a.rejected /\ c.log = a.log
  <2>1. CASE input.tier = Absent
    BY <2>1
  <2>2. CASE input.tier # Absent
    <3>1. input.tier \in Tiers
      BY <2>2 DEF Asks
    <3> QED BY <2>2, <3>1 DEF WellKept, Accounts
  <2> QED BY <2>1, <2>2
<1>2. b = [c EXCEPT !.included = IF input.included = Absent THEN @ ELSE input.included,
                    !.cap = IF input.cap = Absent THEN @ ELSE input.cap]
  BY DEF Adjusted
<1> HIDE DEF b, c
<1>3. /\ b.tier = c.tier /\ b.spent = c.spent /\ b.accepted = c.accepted
      /\ b.rejected = c.rejected /\ b.log = c.log
  BY <1>1, <1>2 DEF WellKept, Accounts
<1>4. b \in Accounts
  <2> DEFINE i == IF input.included = Absent THEN c.included ELSE input.included
             k == IF input.cap = Absent THEN c.cap ELSE input.cap
  <2>1. i \in Nat \cup {Absent} /\ k \in Nat \cup {Absent, Unlimited}
    BY <1>1 DEF Asks, WellKept, Accounts
  <2>2. b = [c EXCEPT !.included = i, !.cap = k]
    BY <1>1, <1>2 DEF WellKept, Accounts
  <2> HIDE DEF i, k
  <2> QED BY <1>1, <2>1, <2>2 DEF WellKept, Accounts
<1>5. WellKept(b)
  BY <1>1, <1>3, <1>4 DEF WellKept
<1> QED BY <1>1, <1>3, <1>5 DEF b

\* The account a call begins with, and what putting one back changes.
LEMMA AccountKept ==
  ASSUME TypeOK, NEW t \in Tenants
  PROVE  WellKept(Account(t))
<1>1. CASE t \in DOMAIN accounts
  BY <1>1 DEF TypeOK, Account, WellKept
<1>2. CASE t \notin DOMAIN accounts
  <2>1. Fresh(DefaultTier) \in Accounts /\ Len(Fresh(DefaultTier).log) = 0
    BY TenantAssumption DEF Fresh, Accounts
  <2> QED BY <1>2, <2>1, BoundsAssumption DEF Account, WellKept
<1> QED BY <1>1, <1>2

LEMMA PutKeeps ==
  ASSUME TypeOK, NEW t \in Tenants, NEW a, WellKept(a), Put(t, a)
  PROVE  /\ DefaultTenant \in DOMAIN accounts' /\ DOMAIN accounts' \subseteq Tenants
         /\ \A u \in DOMAIN accounts' : WellKept(accounts'[u])
         /\ DOMAIN accounts' = DOMAIN accounts \cup {t}
         /\ accounts'[t] = a
         /\ \A u \in DOMAIN accounts \ {t} : accounts'[u] = accounts[u]
<1>1. DOMAIN accounts' = DOMAIN accounts \cup {t}
  BY DEF Put
<1>2. accounts'[t] = a /\ \A u \in DOMAIN accounts \ {t} : accounts'[u] = accounts[u]
  BY DEF Put
<1>3. \A u \in DOMAIN accounts \ {t} : WellKept(accounts'[u])
  BY <1>2 DEF TypeOK, WellKept
<1> QED BY <1>1, <1>2, <1>3 DEF TypeOK

\* A session that is told paid never comes to owe again.
LEMMA MarkedKeeps ==
  ASSUME NEW s \in Sessions, clock \in Nat
  PROVE  /\ Marked(s) \in Sessions
         /\ Marked(s).tenant = s.tenant /\ Marked(s).tier = s.tier
         /\ (Marked(s).status = "complete" \/ s.payment # "unpaid") => Marked(s).payment # "unpaid"
<1>1. CASE clock >= s.expiresAt
  BY <1>1 DEF Marked, Sessions
<1>2. CASE ~(clock >= s.expiresAt)
  BY <1>2 DEF Marked, Sessions
<1> QED BY <1>1, <1>2

-----------------------------------------------------------------------------
(* The invariant. *)

LEMMA InitIInv == Init => IInv
<1> SUFFICES ASSUME Init PROVE IInv
  OBVIOUS
<1>1. accounts[DefaultTenant] = Fresh(SeedTier) /\ DOMAIN accounts = {DefaultTenant}
  BY DEF Init
<1>2. WellKept(Fresh(SeedTier))
  BY TenantAssumption, BoundsAssumption DEF Fresh, Accounts, WellKept
<1>3. TypeOK
  BY <1>1, <1>2, TenantAssumption DEF Init, TypeOK, WellKept
<1>4. MeterAgrees
  BY <1>1 DEF Init, MeterAgrees, Fresh
<1>5. PlanIsPaidFor
  BY <1>1 DEF PlanIsPaidFor, Fresh
<1> QED BY <1>3, <1>4, <1>5 DEF IInv

\* A dispatch that the meter observes.
LEMMA MeterKeeps ==
  ASSUME IInv, NEW use \in Uses, Meter(use)
  PROVE  IInv'
<1> DEFINE a == Account(DefaultTenant)
           b == Consumed(a, use)
           bill == Bill(a, use)
           fits == Fits(a, bill.cost)
<1>1. a = accounts[DefaultTenant] /\ WellKept(a)
  BY TenantAssumption, AccountKept DEF IInv, TypeOK, Account
<1>2. /\ WellKept(b) /\ b.tier = a.tier
      /\ b.spent = IF fits THEN a.spent + bill.cost ELSE a.spent
      /\ b.accepted = IF fits THEN a.accepted + 1 ELSE a.accepted
      /\ b.rejected = IF fits THEN a.rejected ELSE a.rejected + 1
  BY <1>1, ConsumedKeeps
<1>3. bill.cost \in Nat
  BY <1>1, BillType DEF WellKept, Bills
<1>4. /\ Put(DefaultTenant, b) /\ UNCHANGED <<sessions, clock>>
      /\ meter' = [meter EXCEPT !.metered = @ + 1,
                                !.rejected = IF fits THEN @ ELSE @ + 1,
                                !.attributed = IF fits THEN @ + bill.cost ELSE @]
  BY DEF Meter
<1> HIDE DEF a, b, bill, fits
<1>5. /\ DefaultTenant \in DOMAIN accounts' /\ DOMAIN accounts' \subseteq Tenants
      /\ \A u \in DOMAIN accounts' : WellKept(accounts'[u])
      /\ DOMAIN accounts' = DOMAIN accounts
      /\ accounts'[DefaultTenant] = b
      /\ \A u \in DOMAIN accounts \ {DefaultTenant} : accounts'[u] = accounts[u]
  BY <1>2, <1>4, PutKeeps, TenantAssumption DEF IInv, TypeOK
<1>6. meter \in [metered : Nat, skipped : Nat, rejected : Nat, attributed : Nat]
  BY DEF IInv, TypeOK
<1>7. /\ meter'.metered = meter.metered + 1 /\ meter'.skipped = meter.skipped
      /\ meter'.rejected = IF fits THEN meter.rejected ELSE meter.rejected + 1
      /\ meter'.attributed = IF fits THEN meter.attributed + bill.cost ELSE meter.attributed
  BY <1>4, <1>6
<1>8. meter' \in [metered : Nat, skipped : Nat, rejected : Nat, attributed : Nat]
  <2>1. meter'.metered \in Nat /\ meter'.rejected \in Nat /\ meter'.attributed \in Nat
    <3>1. CASE fits
      BY <1>3, <1>6, <1>7, <3>1
    <3>2. CASE ~fits
      BY <1>3, <1>6, <1>7, <3>2
    <3> QED BY <3>1, <3>2
  <2>2. meter' = [meter EXCEPT !.metered = meter'.metered, !.rejected = meter'.rejected,
                               !.attributed = meter'.attributed]
    BY <1>4, <1>7
  <2> QED BY <1>6, <2>1, <2>2
<1>9. TypeOK'
  BY <1>4, <1>5, <1>8 DEF IInv, TypeOK, WellKept
<1>10. MeterAgrees'
  <2>1. meter.attributed = a.spent /\ meter.rejected = a.rejected
        /\ meter.metered = a.accepted + a.rejected
    BY <1>1 DEF IInv, MeterAgrees
  <2>2. a.accepted \in Nat /\ a.rejected \in Nat
    BY <1>1 DEF WellKept, Accounts
  <2>3. meter'.attributed = b.spent /\ meter'.rejected = b.rejected
        /\ meter'.metered = b.accepted + b.rejected
    <3>1. CASE fits
      BY <1>2, <1>7, <2>1, <2>2, <3>1
    <3>2. CASE ~fits
      BY <1>2, <1>7, <2>1, <2>2, <3>2
    <3> QED BY <3>1, <3>2
  <2> QED BY <1>5, <2>3 DEF MeterAgrees
<1>11. PlanIsPaidFor'
  BY <1>1, <1>2, <1>4, <1>5 DEF IInv, PlanIsPaidFor
<1> QED BY <1>9, <1>10, <1>11 DEF IInv

\* A call that puts back an account with the same money, on a plan with a reason.
LEMMA ReplaceKeeps ==
  ASSUME IInv, NEW t \in Tenants, NEW b, WellKept(b), Put(t, b),
         b.spent = Account(t).spent, b.accepted = Account(t).accepted,
         b.rejected = Account(t).rejected,
         UNCHANGED meter, sessions' \in Seq(Sessions), clock' \in Nat,
         \A u \in Tenants, tier \in Tiers : PaidIn(sessions, u, tier) => PaidIn(sessions', u, tier),
         b.tier \in Free \/ PaidIn(sessions', t, b.tier) \/ b.tier = Account(t).tier
  PROVE  IInv'
<1>1. /\ DefaultTenant \in DOMAIN accounts' /\ DOMAIN accounts' \subseteq Tenants
      /\ \A u \in DOMAIN accounts' : WellKept(accounts'[u])
      /\ DOMAIN accounts' = DOMAIN accounts \cup {t}
      /\ accounts'[t] = b
      /\ \A u \in DOMAIN accounts \ {t} : accounts'[u] = accounts[u]
  BY PutKeeps DEF IInv
<1>2. TypeOK'
  BY <1>1 DEF IInv, TypeOK, WellKept
<1>3. MeterAgrees'
  <2>1. CASE t = DefaultTenant
    <3>1. Account(t) = accounts[DefaultTenant]
      BY <2>1 DEF Account, IInv, TypeOK
    <3> QED BY <1>1, <2>1, <3>1 DEF IInv, MeterAgrees
  <2>2. CASE t # DefaultTenant
    BY <1>1, <2>2 DEF IInv, MeterAgrees, TypeOK
  <2> QED BY <2>1, <2>2
<1>4. PlanIsPaidFor'
  <2> SUFFICES ASSUME NEW u \in DOMAIN accounts'
               PROVE  accounts'[u].tier \in Free \/ PaidIn(sessions', u, accounts'[u].tier)
    BY DEF PlanIsPaidFor, Free, PaidIn
  <2>1. \A v \in DOMAIN accounts : accounts[v].tier \in Free \/ PaidIn(sessions, v, accounts[v].tier)
    BY DEF IInv, PlanIsPaidFor, Free, PaidIn
  <2>2. \A v \in DOMAIN accounts : v \in Tenants /\ accounts[v].tier \in Tiers
    BY DEF IInv, TypeOK, Accounts
  <2>3. CASE u # t
    BY <1>1, <2>1, <2>2, <2>3
  <2>4. CASE u = t /\ b.tier = Account(t).tier
    <3>1. CASE t \in DOMAIN accounts
      BY <1>1, <2>1, <2>2, <2>4, <3>1 DEF Account
    <3>2. CASE t \notin DOMAIN accounts
      <4>1. Account(t).tier = DefaultTier
        BY <3>2 DEF Account, Fresh
      <4> QED BY <1>1, <2>4, <4>1 DEF Free
    <3> QED BY <3>1, <3>2
  <2>5. CASE u = t /\ b.tier # Account(t).tier
    BY <1>1, <2>5
  <2> QED BY <2>3, <2>4, <2>5
<1> QED BY <1>2, <1>3, <1>4 DEF IInv

LEMMA NextIInv == IInv /\ [Next]_vars => IInv'
<1> SUFFICES ASSUME IInv, [Next]_vars PROVE IInv'
  OBVIOUS
<1>1. CASE UNCHANGED vars
  BY <1>1 DEF vars, IInv, TypeOK, MeterAgrees, PlanIsPaidFor
<1>2. ASSUME Skip PROVE IInv'
  <2>1. meter' = [meter EXCEPT !.skipped = @ + 1] /\ UNCHANGED <<accounts, sessions, clock>>
    BY <1>2 DEF Skip
  <2>2. meter \in [metered : Nat, skipped : Nat, rejected : Nat, attributed : Nat]
    BY DEF IInv, TypeOK
  <2>3. meter' \in [metered : Nat, skipped : Nat, rejected : Nat, attributed : Nat]
        /\ meter'.metered = meter.metered /\ meter'.rejected = meter.rejected
        /\ meter'.attributed = meter.attributed
    BY <2>1, <2>2
  <2> QED BY <2>1, <2>3 DEF IInv, TypeOK, MeterAgrees, PlanIsPaidFor
<1>3. ASSUME NEW work \in Works, ObserveEphemeral(work) PROVE IInv'
  <2>1. [work |-> work, cost |-> Absent] \in Uses
    BY BoundsAssumption DEF Uses
  <2> QED BY <1>3, <2>1, MeterKeeps DEF ObserveEphemeral
<1>4. ASSUME NEW cost \in Costs, ObserveOther(cost) PROVE IInv'
  <2>1. [work |-> 0, cost |-> cost] \in Uses
    BY BoundsAssumption DEF Uses
  <2> QED BY <1>4, <2>1, MeterKeeps DEF ObserveOther
<1>5. ASSUME NEW t \in Tenants, Read(t) PROVE IInv'
  <2>1. WellKept(Account(t))
    BY AccountKept DEF IInv
  <2>2. sessions' \in Seq(Sessions) /\ clock' \in Nat /\ UNCHANGED meter
        /\ \A u \in Tenants, tier \in Tiers : PaidIn(sessions, u, tier) => PaidIn(sessions', u, tier)
    BY <1>5 DEF Read, IInv, TypeOK, PaidIn
  <2> QED BY <1>5, <2>1, <2>2, ReplaceKeeps DEF Read
<1>6. ASSUME NEW t \in Tenants, NEW input \in Adjustments, Allowance(t, input) PROVE IInv'
  <2> DEFINE b == Adjusted(Account(t), input)
  <2>1. WellKept(Account(t)) /\ input \in Asks
    BY AccountKept, BoundsAssumption DEF IInv, Asks
  <2>2. /\ WellKept(b)
        /\ b.tier = IF input.tier = Absent THEN Account(t).tier ELSE input.tier
        /\ b.spent = Account(t).spent /\ b.accepted = Account(t).accepted
        /\ b.rejected = Account(t).rejected
    BY <2>1, AdjustedKeeps
  <2>3. b.tier \in Free \/ b.tier = Account(t).tier
    BY <2>2 DEF Free
  <2>4. sessions' \in Seq(Sessions) /\ clock' \in Nat /\ UNCHANGED meter
        /\ \A u \in Tenants, tier \in Tiers : PaidIn(sessions, u, tier) => PaidIn(sessions', u, tier)
    BY <1>6 DEF Allowance, IInv, TypeOK, PaidIn
  <2>5. Put(t, b)
    BY <1>6 DEF Allowance
  <2> HIDE DEF b
  <2> QED BY <2>2, <2>3, <2>4, <2>5, ReplaceKeeps
<1>7. ASSUME NEW t \in Tenants, NEW tier \in Tiers, Checkout(t, tier) PROVE IInv'
  <2> DEFINE s == [tenant |-> t, tier |-> tier, status |-> "open",
                   expiresAt |-> clock + SessionTtl,
                   payment |-> IF Pricing[tier].price = 0 THEN "no_payment_required" ELSE "unpaid"]
  <2>1. sessions' = Append(sessions, s) /\ UNCHANGED <<accounts, meter, clock>>
    BY <1>7 DEF Checkout
  <2>2. sessions \in Seq(Sessions) /\ s \in Sessions
    BY BoundsAssumption DEF IInv, TypeOK, Sessions
  <2> HIDE DEF s
  <2>3. sessions' \in Seq(Sessions) /\ DOMAIN sessions \subseteq DOMAIN sessions'
        /\ \A i \in DOMAIN sessions : sessions'[i] = sessions[i]
    BY <2>1, <2>2
  <2>4. TypeOK' /\ MeterAgrees'
    BY <2>1, <2>3 DEF IInv, TypeOK, MeterAgrees
  <2>5. PlanIsPaidFor'
    BY <2>1, <2>3 DEF IInv, PlanIsPaidFor
  <2> QED BY <2>4, <2>5 DEF IInv
<1>8. ASSUME NEW i \in DOMAIN sessions, Settle(i) PROVE IInv'
  <2> DEFINE s == Marked(sessions[i])
             upgrade == [tier |-> s.tier, included |-> Absent, cap |-> Absent]
             b == Adjusted(Account(s.tenant), upgrade)
  <2>1. sessions \in Seq(Sessions) /\ sessions[i] \in Sessions /\ clock \in Nat
    BY DEF IInv, TypeOK
  <2>2. /\ s \in Sessions /\ s.tenant = sessions[i].tenant /\ s.tier = sessions[i].tier
        /\ (s.status = "complete" \/ sessions[i].payment # "unpaid") => s.payment # "unpaid"
    BY <2>1, MarkedKeeps
  <2>3. sessions' = [sessions EXCEPT ![i] = s] /\ UNCHANGED <<meter, clock>>
    BY <1>8 DEF Settle
  <2>4. s.status = "complete" => Put(s.tenant, b)
    BY <1>8 DEF Settle
  <2>5. s.status # "complete" => UNCHANGED accounts
    BY <1>8 DEF Settle
  <2>6. s.tenant \in Tenants /\ upgrade \in Asks /\ upgrade.tier = s.tier /\ s.tier # Absent
    BY <2>2, MarkersAssumption DEF Sessions, Asks
  <2>7. WellKept(Account(s.tenant))
    BY <2>6, AccountKept DEF IInv
  <2>8. /\ WellKept(b) /\ b.tier = s.tier
        /\ b.spent = Account(s.tenant).spent /\ b.accepted = Account(s.tenant).accepted
        /\ b.rejected = Account(s.tenant).rejected
    BY <2>6, <2>7, AdjustedKeeps
  <2> HIDE DEF s, upgrade, b
  <2>9. sessions' \in Seq(Sessions) /\ DOMAIN sessions' = DOMAIN sessions
        /\ sessions'[i] = s /\ \A j \in DOMAIN sessions \ {i} : sessions'[j] = sessions[j]
    BY <2>1, <2>2, <2>3
  <2>10. \A u \in Tenants, tier \in Tiers : PaidIn(sessions, u, tier) => PaidIn(sessions', u, tier)
    <3> SUFFICES ASSUME NEW u \in Tenants, NEW tier \in Tiers, NEW j \in DOMAIN sessions,
                        sessions[j].tenant = u, sessions[j].tier = tier,
                        sessions[j].payment # "unpaid"
                 PROVE  /\ sessions'[j].tenant = u /\ sessions'[j].tier = tier
                        /\ sessions'[j].payment # "unpaid"
      BY <2>9 DEF PaidIn
    <3> QED BY <2>2, <2>9
  <2>11. CASE s.status = "complete"
    <3>1. PaidIn(sessions', s.tenant, b.tier)
      BY <2>2, <2>8, <2>9, <2>11 DEF PaidIn
    <3> QED BY <2>3, <2>1, <2>4, <2>6, <2>8, <2>9, <2>10, <2>11, <3>1, ReplaceKeeps
  <2>12. CASE s.status # "complete"
    <3>1. TypeOK' /\ MeterAgrees'
      BY <2>3, <2>5, <2>9, <2>12 DEF IInv, TypeOK, MeterAgrees
    <3>2. PlanIsPaidFor'
      <4> SUFFICES ASSUME NEW u \in DOMAIN accounts
                   PROVE  accounts[u].tier \in Free \/ PaidIn(sessions', u, accounts[u].tier)
        BY <2>5, <2>12 DEF PlanIsPaidFor, Free, PaidIn
      <4>1. u \in Tenants /\ accounts[u].tier \in Tiers
        BY DEF IInv, TypeOK, Accounts
      <4>2. accounts[u].tier \in Free \/ PaidIn(sessions, u, accounts[u].tier)
        BY DEF IInv, PlanIsPaidFor, Free, PaidIn
      <4> QED BY <4>1, <4>2, <2>10
    <3> QED BY <3>1, <3>2 DEF IInv
  <2> QED BY <2>11, <2>12
<1>9. ASSUME Tick PROVE IInv'
  BY <1>9 DEF Tick, IInv, TypeOK, MeterAgrees, PlanIsPaidFor
<1> QED BY <1>1, <1>2, <1>3, <1>4, <1>5, <1>6, <1>7, <1>8, <1>9 DEF Next

LEMMA Inductive == Spec => []IInv
BY InitIInv, NextIInv, PTL DEF Spec

LEMMA LateInit == Init => SessionsInTime
BY DEF Init, SessionsInTime

\* What settling does to a session: one told expired stays as it is, and what was
\* paid stays paid.
LEMMA MarkedAgain ==
  ASSUME NEW s \in Sessions, InTime(s), clock \in Nat
  PROVE  /\ InTime(Marked(s))
         /\ s.status = "expired" => Marked(s) = s
         /\ s.payment = "paid" => Marked(s).payment = "paid"
<1>1. CASE clock >= s.expiresAt
  BY <1>1 DEF Marked, Sessions, InTime
<1>2. CASE ~(clock >= s.expiresAt)
  BY <1>2 DEF Marked, Sessions, InTime
<1> QED BY <1>1, <1>2

LEMMA LateNext == IInv /\ SessionsInTime /\ [Next]_vars => SessionsInTime'
<1> SUFFICES ASSUME IInv, SessionsInTime, [Next]_vars PROVE SessionsInTime'
  OBVIOUS
<1>1. sessions \in Seq(Sessions) /\ clock \in Nat
  BY DEF IInv, TypeOK
<1>2. CASE UNCHANGED <<sessions, clock>>
  BY <1>2 DEF SessionsInTime, InTime
<1>3. ASSUME NEW t \in Tenants, NEW tier \in Tiers, Checkout(t, tier) PROVE SessionsInTime'
  <2> DEFINE s == [tenant |-> t, tier |-> tier, status |-> "open",
                   expiresAt |-> clock + SessionTtl,
                   payment |-> IF Pricing[tier].price = 0 THEN "no_payment_required" ELSE "unpaid"]
  <2>1. sessions' = Append(sessions, s) /\ clock' = clock
    BY <1>3 DEF Checkout
  <2>2. s.status # "expired" /\ s.payment # "paid"
    OBVIOUS
  <2> HIDE DEF s
  <2> QED BY <1>1, <2>1, <2>2 DEF SessionsInTime, InTime
<1>4. ASSUME NEW i \in DOMAIN sessions, Settle(i) PROVE SessionsInTime'
  <2> DEFINE s == Marked(sessions[i])
  <2>1. sessions' = [sessions EXCEPT ![i] = s] /\ clock' = clock
    BY <1>4 DEF Settle
  <2>2. sessions[i] \in Sessions /\ InTime(sessions[i])
    BY <1>1 DEF SessionsInTime
  <2>3. InTime(s)
    BY <1>1, <2>2, MarkedAgain
  <2> HIDE DEF s
  <2> QED BY <1>1, <2>1, <2>3 DEF SessionsInTime, InTime
<1>5. ASSUME Tick PROVE SessionsInTime'
  <2>1. ASSUME NEW i \in DOMAIN sessions PROVE sessions[i].expiresAt \in Nat
    <3>1. sessions[i] \in Sessions
      BY <1>1
    <3> QED BY <3>1 DEF Sessions
  <2> QED BY <1>1, <1>5, <2>1 DEF Tick, SessionsInTime, InTime
<1>6. ASSUME Next PROVE \/ UNCHANGED <<sessions, clock>>
                        \/ \E t \in Tenants, tier \in Tiers : Checkout(t, tier)
                        \/ \E i \in DOMAIN sessions : Settle(i)
                        \/ Tick
  BY <1>6 DEF Next, Skip, ObserveEphemeral, ObserveOther, Meter, Read, Allowance
<1> QED BY <1>2, <1>3, <1>4, <1>5, <1>6 DEF vars

LEMMA Late == Spec => []SessionsInTime
BY LateInit, LateNext, Inductive, PTL DEF Spec

-----------------------------------------------------------------------------
(* The theorems. *)

\* Accounts keep their shape, the ring its size, and no tenant that billing was
\* not given ever has an account.
THEOREM BillingTypes == Spec => []TypeOK
BY Inductive, PTL DEF IInv

\* The meter and the default tenant's account never disagree about what was
\* spent, accepted and refused (meter.ts's counters against allowance.ts's).
THEOREM MeterAndAccountAgree == Spec => []MeterAgrees
BY Inductive, PTL DEF IInv

\* No tenant gets a tier from the checkout (stripe_stub.ts, server.ts) without a
\* session for it that owes nothing.
THEOREM PlansArePaidFor == Spec => []PlanIsPaidFor
BY Inductive, PTL DEF IInv

\* A call that only puts an account back, with the spend it had, spends nothing.
LEMMA PutSpendsNothing ==
  ASSUME IInv, NEW t \in Tenants, NEW b, Put(t, b), b.spent = Account(t).spent
  PROVE  \A u \in DOMAIN accounts : accounts'[u].spent = accounts[u].spent
BY DEF Put, Account

\* The cap that is in force bounds the spend at every call that spends
\* (allowance.ts consume), overrides, plan changes and lowered caps included.
THEOREM CapHolds == Spec => CapIsFirm
<1> DEFINE Within(u) == LET a == accounts'[u] IN
             (a.spent > accounts[u].spent /\ ~Byok(a) /\ Cap(a) # Unlimited) => a.spent <= Cap(a)
<1>1. ASSUME IInv, [Next]_vars PROVE UNCHANGED vars \/ \A u \in DOMAIN accounts : Within(u)
  <2>1. \A u \in DOMAIN accounts : u \in Tenants /\ accounts[u].spent \in Nat
    BY <1>1 DEF IInv, TypeOK, Accounts
  <2>2. ASSUME \A u \in DOMAIN accounts : accounts'[u].spent = accounts[u].spent
        PROVE  \A u \in DOMAIN accounts : Within(u)
    BY <2>1, <2>2
  <2>3. ASSUME NEW use \in Uses, Meter(use) PROVE \A u \in DOMAIN accounts : Within(u)
    <3> DEFINE a == Account(DefaultTenant)
               b == Consumed(a, use)
               bill == Bill(a, use)
               fits == Fits(a, bill.cost)
    <3>1. WellKept(a) /\ a = accounts[DefaultTenant]
      BY <1>1, TenantAssumption, AccountKept DEF IInv, TypeOK, Account
    <3>2. /\ b.tier = a.tier /\ b.cap = a.cap
          /\ b.spent = IF fits THEN a.spent + bill.cost ELSE a.spent
      BY <3>1, ConsumedKeeps
    <3>3. Put(DefaultTenant, b)
      BY <2>3 DEF Meter
    <3>4. fits => Byok(b) \/ Cap(b) = Unlimited \/ a.spent + bill.cost <= Cap(b)
      BY <3>2 DEF Fits, Cap, Byok
    <3> HIDE DEF a, b, bill, fits
    <3>5. accounts'[DefaultTenant] = b
          /\ \A u \in DOMAIN accounts \ {DefaultTenant} : accounts'[u] = accounts[u]
      BY <3>3 DEF Put
    <3>6. a.spent \in Nat
      BY <3>1 DEF WellKept, Accounts
    <3>7. b.spent > a.spent => fits /\ b.spent = a.spent + bill.cost
      BY <3>2, <3>6
    <3>8. Within(DefaultTenant)
      BY <3>1, <3>4, <3>5, <3>7
    <3>9. ASSUME NEW u \in DOMAIN accounts \ {DefaultTenant} PROVE Within(u)
      BY <2>1, <3>5
    <3> QED BY <3>8, <3>9
  <2>4. ASSUME NEW work \in Works, ObserveEphemeral(work)
        PROVE  \A u \in DOMAIN accounts : Within(u)
    <3>1. [work |-> work, cost |-> Absent] \in Uses
      BY BoundsAssumption DEF Uses
    <3> QED BY <2>3, <2>4, <3>1 DEF ObserveEphemeral
  <2>5. ASSUME NEW cost \in Costs, ObserveOther(cost)
        PROVE  \A u \in DOMAIN accounts : Within(u)
    <3>1. [work |-> 0, cost |-> cost] \in Uses
      BY BoundsAssumption DEF Uses
    <3> QED BY <2>3, <2>5, <3>1 DEF ObserveOther
  <2>6. ASSUME NEW t \in Tenants, Read(t) PROVE \A u \in DOMAIN accounts : Within(u)
    BY <1>1, <2>2, <2>6, PutSpendsNothing DEF Read
  <2>7. ASSUME NEW t \in Tenants, NEW input \in Adjustments, Allowance(t, input)
        PROVE  \A u \in DOMAIN accounts : Within(u)
    <3>1. WellKept(Account(t)) /\ input \in Asks
      BY <1>1, AccountKept, BoundsAssumption DEF IInv, Asks
    <3>2. Adjusted(Account(t), input).spent = Account(t).spent
      BY <3>1, AdjustedKeeps
    <3> QED BY <1>1, <2>2, <2>7, <3>2, PutSpendsNothing DEF Allowance
  <2>8. ASSUME NEW i \in DOMAIN sessions, Settle(i)
        PROVE  \A u \in DOMAIN accounts : Within(u)
    <3> DEFINE s == Marked(sessions[i])
               upgrade == [tier |-> s.tier, included |-> Absent, cap |-> Absent]
    <3>1. sessions[i] \in Sessions /\ clock \in Nat
      BY <1>1 DEF IInv, TypeOK
    <3>2. s.tenant \in Tenants /\ upgrade \in Asks
      BY <3>1, MarkedKeeps DEF Sessions, Asks
    <3>3. WellKept(Account(s.tenant))
      BY <1>1, <3>2, AccountKept DEF IInv
    <3>4. Adjusted(Account(s.tenant), upgrade).spent = Account(s.tenant).spent
      BY <3>2, <3>3, AdjustedKeeps
    <3>5. Put(s.tenant, Adjusted(Account(s.tenant), upgrade)) \/ UNCHANGED accounts
      BY <2>8 DEF Settle
    <3> HIDE DEF s, upgrade
    <3> QED BY <1>1, <2>2, <3>2, <3>4, <3>5, PutSpendsNothing
  <2>9. CASE UNCHANGED accounts
    BY <2>2, <2>9
  <2>10. Next => \/ UNCHANGED accounts
                 \/ \E work \in Works : ObserveEphemeral(work)
                 \/ \E cost \in Costs : ObserveOther(cost)
                 \/ \E t \in Tenants : Read(t)
                 \/ \E t \in Tenants, input \in Adjustments : Allowance(t, input)
                 \/ \E i \in DOMAIN sessions : Settle(i)
    BY DEF Next, Skip, Checkout, Tick
  <2> HIDE DEF Within
  <2> QED BY <1>1, <2>4, <2>5, <2>6, <2>7, <2>8, <2>9, <2>10
<1>2. IInv /\ [Next]_vars =>
        [\A t \in DOMAIN accounts :
           LET a == accounts'[t] IN
           (a.spent > accounts[t].spent /\ ~Byok(a) /\ Cap(a) # Unlimited) => a.spent <= Cap(a)]_vars
  BY <1>1
<1> QED BY <1>2, Inductive, PTL DEF Spec, CapIsFirm

\* However often a session is settled (stripe_stub.ts, server.ts): one told expired
\* stays as it is, what was paid stays paid, and the settling that finds a session
\* past its time changes nobody's account.
THEOREM LapsesCostNothing == Spec => LapseCostsNothing
<1> DEFINE Kept(i) == LET before == sessions[i]  after == sessions'[i] IN
             /\ before.status = "expired" => after = before
             /\ before.payment = "paid" => after.payment = "paid"
             /\ after.status = "expired" /\ before.status # "expired" => UNCHANGED accounts
<1>1. ASSUME IInv, SessionsInTime, [Next]_vars, NEW k \in DOMAIN sessions PROVE Kept(k)
  <2>1. sessions \in Seq(Sessions) /\ clock \in Nat
    BY <1>1 DEF IInv, TypeOK
  <2>2. CASE sessions'[k] = sessions[k]
    BY <2>2
  <2>3. ASSUME NEW t \in Tenants, NEW tier \in Tiers, Checkout(t, tier) PROVE Kept(k)
    <3> DEFINE s == [tenant |-> t, tier |-> tier, status |-> "open",
                     expiresAt |-> clock + SessionTtl,
                     payment |-> IF Pricing[tier].price = 0 THEN "no_payment_required" ELSE "unpaid"]
    <3>1. sessions' = Append(sessions, s)
      BY <2>3 DEF Checkout
    <3> HIDE DEF s
    <3>2. sessions'[k] = sessions[k]
      BY <2>1, <3>1
    <3> HIDE DEF Kept
    <3> QED BY <2>2, <3>2
  <2>4. ASSUME NEW i \in DOMAIN sessions, Settle(i) PROVE Kept(k)
    <3> DEFINE s == Marked(sessions[i])
    <3>1. sessions' = [sessions EXCEPT ![i] = s] /\ (s.status # "complete" => UNCHANGED accounts)
      BY <2>4 DEF Settle
    <3>2. sessions[i] \in Sessions /\ InTime(sessions[i])
      BY <1>1, <2>1 DEF SessionsInTime
    <3>3. /\ sessions[i].status = "expired" => s = sessions[i]
          /\ sessions[i].payment = "paid" => s.payment = "paid"
      BY <2>1, <3>2, MarkedAgain
    <3> HIDE DEF s
    <3>4. CASE k = i
      BY <2>1, <3>1, <3>3, <3>4
    <3>5. CASE k # i
      <4>1. sessions'[k] = sessions[k]
        BY <2>1, <3>1, <3>5
      <4> HIDE DEF Kept
      <4> QED BY <2>2, <4>1
    <3> HIDE DEF Kept
    <3> QED BY <3>4, <3>5
  <2>5. ASSUME Next PROVE \/ UNCHANGED sessions
                          \/ \E t \in Tenants, tier \in Tiers : Checkout(t, tier)
                          \/ \E i \in DOMAIN sessions : Settle(i)
    BY <2>5 DEF Next, Skip, ObserveEphemeral, ObserveOther, Meter, Read, Allowance, Tick
  <2> HIDE DEF Kept
  <2> QED BY <1>1, <2>2, <2>3, <2>4, <2>5 DEF vars
<1>2. IInv /\ SessionsInTime /\ [Next]_vars => [\A i \in DOMAIN sessions : Kept(i)]_vars
  <2> HIDE DEF Kept
  <2> QED BY <1>1
<1> QED BY <1>2, Inductive, Late, PTL DEF Spec, LapseCostsNothing

-----------------------------------------------------------------------------
(* Tenancy. *)

LEMMA LeastNumber ==
  ASSUME NEW T, T \subseteq Nat, T # {}
  PROVE  \E x \in T : \A y \in T : x <= y
<1>1. PICK R : R = {ss \in Nat \X Nat : ss[1] < ss[2]}
  OBVIOUS
<1>2. IsWellFoundedOn(R, Nat)
  BY <1>1, NatLessThanWellFounded DEF OpToRel
<1>3. PICK x \in T : \A y \in T : ~ (<<y, x>> \in R)
  BY <1>2, WFMin
<1>4. ASSUME NEW y \in T
      PROVE  x <= y
  <2>1. x \in Nat /\ y \in Nat
    OBVIOUS
  <2>2. <<y, x>> \in R <=> y < x
    BY <1>1, <2>1
  <2> QED BY <1>3, <2>1, <2>2
<1> QED BY <1>4

\* The places that the catalog is asked for exist, whatever it holds.
LEMMA FirstOfIs ==
  ASSUME NEW S, S \subseteq DOMAIN Catalog, S # {}
  PROVE  FirstOf(S) \in S
<1>1. \E i \in S : \A j \in S : i <= j
  BY LeastNumber, CatalogAssumption
<1> QED BY <1>1 DEF FirstOf

LEMMA CatalogNumbers ==
  ASSUME NEW i \in DOMAIN Catalog, NEW target \in Nat
  PROVE  Catalog[i].params \in Nat /\ Distance(Catalog[i].params, target) \in Nat
         /\ i \in Nat /\ Uncapped - Catalog[i].params \in Nat
BY CatalogAssumption, SMTT(30) DEF Distance

LEMMA LargestIs ==
  ASSUME NEW S, S \subseteq DOMAIN Catalog, S # {}
  PROVE  Largest(S) \in S
<1> DEFINE Rest == {Uncapped - Catalog[i].params : i \in S}
<1>1. PICK x \in Rest : \A y \in Rest : x <= y
  <2>1. Rest \subseteq Nat /\ Rest # {}
    BY CatalogNumbers
  <2> QED BY <2>1, LeastNumber
<1> DEFINE Most == {i \in S : Uncapped - Catalog[i].params = x}
<1>2. PICK i \in Most : \A j \in Most : i <= j
  <2>1. Most \subseteq Nat /\ Most # {}
    BY <1>1, CatalogNumbers
  <2> QED BY <2>1, LeastNumber
<1>3. ASSUME NEW j \in S
      PROVE  \/ Catalog[i].params > Catalog[j].params
             \/ Catalog[i].params = Catalog[j].params /\ i <= j
  <2>1. x <= Uncapped - Catalog[j].params /\ x = Uncapped - Catalog[i].params /\ i \in S
    BY <1>1
  <2>2. Catalog[i].params \in Nat /\ Catalog[j].params \in Nat /\ Uncapped \in Nat
    BY <2>1, CatalogNumbers, CatalogAssumption
  <2>3. x = Uncapped - Catalog[j].params => i <= j
    BY <1>2
  <2> QED BY <2>1, <2>2, <2>3
<1>4. \E k \in S : \A j \in S : \/ Catalog[k].params > Catalog[j].params
                                \/ Catalog[k].params = Catalog[j].params /\ k <= j
  BY <1>3
<1> QED BY <1>4 DEF Largest

LEMMA NearestIs ==
  ASSUME NEW S, S \subseteq DOMAIN Catalog, S # {}, NEW target \in Nat
  PROVE  /\ NearestByParams(S, target) \in S
         /\ \A j \in S :
              LET i == NearestByParams(S, target)
                  x == Distance(Catalog[i].params, target)
                  y == Distance(Catalog[j].params, target)
              IN  x < y \/ (x = y /\ Catalog[i].params <= Catalog[j].params)
<1> DEFINE Far(i) == Distance(Catalog[i].params, target)
           Better(i, j) == \/ Far(i) < Far(j)
                           \/ Far(i) = Far(j) /\ Catalog[i].params < Catalog[j].params
                           \/ Far(i) = Far(j) /\ Catalog[i].params = Catalog[j].params /\ i <= j
           Fars == {Far(i) : i \in S}
<1>1. \A i \in S : Far(i) \in Nat /\ Catalog[i].params \in Nat /\ i \in Nat
  BY CatalogNumbers
<1>2. PICK x \in Fars : \A y \in Fars : x <= y
  <2>1. Fars \subseteq Nat /\ Fars # {}
    BY <1>1
  <2> QED BY <2>1, LeastNumber
<1> DEFINE Near == {i \in S : Far(i) = x}
           Sizes == {Catalog[i].params : i \in Near}
<1>3. PICK p \in Sizes : \A q \in Sizes : p <= q
  <2>1. Sizes \subseteq Nat /\ Sizes # {}
    BY <1>1, <1>2
  <2> QED BY <2>1, LeastNumber
<1> DEFINE Best == {i \in Near : Catalog[i].params = p}
<1>4. PICK i \in Best : \A j \in Best : i <= j
  <2>1. Best \subseteq Nat /\ Best # {}
    BY <1>1, <1>3
  <2> QED BY <2>1, LeastNumber
<1>5. ASSUME NEW j \in S
      PROVE  Better(i, j)
  <2>1. /\ i \in S /\ Far(i) = x /\ Catalog[i].params = p /\ x <= Far(j)
        /\ Far(j) = x => p <= Catalog[j].params
        /\ Far(j) = x /\ Catalog[j].params = p => i <= j
    BY <1>2, <1>3, <1>4
  <2> HIDE DEF Far
  <2> QED BY <1>1, <2>1
<1>6. NearestByParams(S, target) = CHOOSE k \in S : \A j \in S : Better(k, j)
  BY DEF NearestByParams
<1>7. PICK k \in S : k = NearestByParams(S, target) /\ \A j \in S : Better(k, j)
  <2> HIDE DEF Better
  <2> QED BY <1>5, <1>6
<1>8. \A j \in S : Far(k) < Far(j) \/ (Far(k) = Far(j) /\ Catalog[k].params <= Catalog[j].params)
  <2> HIDE DEF Far
  <2> QED BY <1>1, <1>7
<1> QED BY <1>7, <1>8

\* What a request is answered: nothing, or a model that the tenant may have, with
\* the id it asked for or the nearest size.
LEMMA ResolveIs ==
  ASSUME NEW who, NEW asked, asked.params \in Nat
  PROVE  \/ Resolve(who, asked) = NoModel /\ (AllowedFor(who) = {} \/ asked.id # Unnamed)
         \/ \E i \in AllowedFor(who) :
              /\ Resolve(who, asked) = Catalog[i]
              /\ asked.id # Unnamed => Catalog[i].id = asked.id
              /\ asked.id = Unnamed /\ asked.params # NoSize => \A j \in AllowedFor(who) :
                   LET x == Distance(Catalog[i].params, asked.params)
                       y == Distance(Catalog[j].params, asked.params)
                   IN  x < y \/ (x = y /\ Catalog[i].params <= Catalog[j].params)
<1> DEFINE allowed == AllowedFor(who)
<1>1. allowed \subseteq DOMAIN Catalog /\ \A id : Named(allowed, id) \subseteq allowed
  BY DEF AllowedFor, Named
<1>2. CASE allowed = {}
  BY <1>2 DEF Resolve
<1>3. CASE allowed # {} /\ asked.id # Unnamed
  <2>1. CASE Named(allowed, asked.id) = {}
    BY <1>3, <2>1 DEF Resolve
  <2>2. CASE Named(allowed, asked.id) # {}
    <3>1. FirstOf(Named(allowed, asked.id)) \in Named(allowed, asked.id)
      BY <1>1, <2>2, FirstOfIs
    <3>2. Resolve(who, asked) = Catalog[FirstOf(Named(allowed, asked.id))]
      BY <1>3, <2>2 DEF Resolve
    <3> QED BY <1>1, <1>3, <3>1, <3>2 DEF Named
  <2> QED BY <2>1, <2>2
<1>4. CASE allowed # {} /\ asked.id = Unnamed /\ asked.params # NoSize
  <2>1. Resolve(who, asked) = Catalog[NearestByParams(allowed, asked.params)]
    BY <1>4 DEF Resolve
  <2>2. PICK i \in allowed :
          /\ i = NearestByParams(allowed, asked.params)
          /\ \A j \in allowed :
               LET x == Distance(Catalog[i].params, asked.params)
                   y == Distance(Catalog[j].params, asked.params)
               IN  x < y \/ (x = y /\ Catalog[i].params <= Catalog[j].params)
    BY <1>1, <1>4, NearestIs
  <2> QED BY <1>4, <2>1, <2>2
<1>5. CASE allowed # {} /\ asked.id = Unnamed /\ asked.params = NoSize
  <2>1. PICK i \in allowed : Resolve(who, asked) = Catalog[i]
    <3>1. \A id : Named(allowed, id) # {} => FirstOf(Named(allowed, id)) \in allowed
      BY <1>1, FirstOfIs
    <3>2. Largest(allowed) \in allowed
      BY <1>1, <1>5, LargestIs
    <3>3. Resolve(who, asked) = Catalog[IF Named(allowed, who.preferred) # {}
                                        THEN FirstOf(Named(allowed, who.preferred))
                                        ELSE IF Named(allowed, DefaultModel) # {}
                                        THEN FirstOf(Named(allowed, DefaultModel))
                                        ELSE Largest(allowed)]
      BY <1>5 DEF Resolve
    <3> QED BY <3>1, <3>2, <3>3
  <2> QED BY <1>5, <2>1
<1> QED BY <1>2, <1>3, <1>4, <1>5

LEMMA WideningKeeps ==
  ASSUME NEW who \in TenantRecords, NEW step \in Wider, who.plan = step[1], NEW i \in AllowedFor(who)
  PROVE  i \in AllowedFor([who EXCEPT !.plan = step[2]])
<1>1. PICK cap \in Nat : who.cap = cap /\ who = TenantOf(who.plan, who.keys, who.preferred, cap)
  BY CatalogAssumption DEF TenantRecords, TenantOf
<1>2. PICK up : up = [who EXCEPT !.plan = step[2]]
  OBVIOUS
<1>3. up.plan = step[2] /\ up.cap = cap /\ who.plan = step[1]
  BY <1>1, <1>2 DEF TenantOf
<1>4. i \in DOMAIN Catalog /\ Entitled(who, Catalog[i]) /\ Catalog[i].params \in 1..Uncapped /\ Uncapped \in Nat
  BY CatalogAssumption DEF AllowedFor
<1>5. ~OnByok(who) /\ ~OnByok(up)
  BY <1>3 DEF Wider, OnByok
<1>6. Catalog[i].params <= ParamCap(up)
  BY <1>1, <1>3, <1>4 DEF Wider, Entitled, ParamCap, PlanPolicies
<1>7. Catalog[i].hosting \in PlanPolicies[up.plan].hostings
  BY <1>3, <1>4, <1>5 DEF Wider, Entitled, PlanPolicies, Hostings
<1> QED BY <1>2, <1>4, <1>5, <1>6, <1>7 DEF AllowedFor, Entitled

TenancyInv ==
  \/ route = Unasked
  \/ tenant \in TenantRecords /\ asking \in ModelRequests /\ route = Routing(tenant, asking)

LEMMA TenancyStep == TenancyInv /\ [TenancyNext]_tenancyVars => TenancyInv'
<1> SUFFICES ASSUME TenancyInv, [TenancyNext]_tenancyVars  PROVE TenancyInv'
  OBVIOUS
<1>1. CASE UNCHANGED tenancyVars
  BY <1>1 DEF tenancyVars, TenancyInv, Routing, HostedRoute, StubRoute
<1>2. ASSUME NEW who \in TenantRecords, NEW asked \in ModelRequests, Route(who, asked)
      PROVE  TenancyInv'
  BY <1>2 DEF Route, TenancyInv, Routing, HostedRoute, StubRoute
<1> QED BY <1>1, <1>2 DEF TenancyNext

\* The ways a resolved model is served.
LEMMA RoutingIs ==
  ASSUME NEW who, NEW asked, NEW model, model = Resolve(who, asked)
  PROVE  LET answer == Routing(who, asked) IN
         /\ model = NoModel <=> answer.path = "error"
         /\ answer.model = model
         /\ model # NoModel => (answer.billed = "tenant" <=> OnByok(who))
         /\ answer.billed = "tenant" => answer.path = "byok"
         /\ answer.path = "stub" => model.hosting \notin configured
BY DEF Routing, ResolutionError, ByokRoute, HostedRoute, StubRoute, RouteTo

LEMMA EntitledIs ==
  ASSUME NEW who \in TenantRecords, NEW i \in AllowedFor(who)
  PROVE  /\ Catalog[i].params <= who.cap /\ Catalog[i].params <= PlanPolicies[who.plan].cap
         /\ ~OnByok(who) => Catalog[i].hosting \in PlanPolicies[who.plan].hostings
         /\ Catalog[i] # NoModel /\ Catalog[i].id \in TenancyModels
<1>1. who.cap \in Nat /\ who.plan \in Plans
  BY CatalogAssumption DEF TenantRecords, TenantOf
<1>2. i \in DOMAIN Catalog /\ Entitled(who, Catalog[i]) /\ Catalog[i].params \in Nat
  BY CatalogAssumption DEF AllowedFor
<1>3. PlanPolicies[who.plan].cap \in Nat
  BY <1>1, CatalogAssumption DEF Plans, PlanPolicies
<1>4. Catalog[i].id \in TenancyModels /\ Catalog[i] # NoModel
  BY <1>2, CatalogAssumption DEF TenancyModels, NoModel
<1> QED BY <1>1, <1>2, <1>3, <1>4 DEF Entitled, ParamCap

LEMMA TenancyInvSuffices == TenancyInv => RouteIsEntitled
<1> SUFFICES ASSUME TenancyInv, route # Unasked  PROVE RouteIsEntitled
  BY DEF RouteIsEntitled
<1>1. tenant \in TenantRecords /\ asking \in ModelRequests /\ route = Routing(tenant, asking)
  BY DEF TenancyInv
<1>2. asking.params \in Nat
  BY <1>1, CatalogAssumption DEF ModelRequests, Asking, NoSize
<1>3. PICK model : model = Resolve(tenant, asking)
  OBVIOUS
<1>4. /\ model = NoModel <=> route.path = "error"
      /\ route.model = model
      /\ model # NoModel => (route.billed = "tenant" <=> OnByok(tenant))
      /\ route.billed = "tenant" => route.path = "byok"
      /\ route.path = "stub" => model.hosting \notin configured
  BY <1>1, <1>3, RoutingIs
<1>5. AllowedFor(tenant) = {i \in DOMAIN Catalog : Entitled(tenant, Catalog[i])}
  BY DEF AllowedFor
<1>6. ASSUME route.path = "error"
      PROVE  AllowedFor(tenant) = {} \/ asking.id # Unnamed
  <2>1. model = NoModel
    BY <1>4, <1>6
  <2>2. \A i \in AllowedFor(tenant) : Catalog[i] # NoModel
    BY <1>1, EntitledIs
  <2>3. \/ AllowedFor(tenant) = {} \/ asking.id # Unnamed
        \/ \E i \in AllowedFor(tenant) : model = Catalog[i]
    BY <1>2, <1>3, ResolveIs
  <2> QED BY <2>1, <2>2, <2>3
<1>7. ASSUME route.path # "error"
      PROVE  \E i \in AllowedFor(tenant) :
               /\ model = Catalog[i]
               /\ asking.id # Unnamed => Catalog[i].id = asking.id
               /\ asking.id = Unnamed /\ asking.params # NoSize => \A j \in AllowedFor(tenant) :
                    LET x == Distance(Catalog[i].params, asking.params)
                        y == Distance(Catalog[j].params, asking.params)
                    IN  x < y \/ (x = y /\ Catalog[i].params <= Catalog[j].params)
  <2>1. model # NoModel
    BY <1>4, <1>7
  <2> QED BY <1>2, <1>3, <2>1, ResolveIs
<1>8. ASSUME route.path # "error", NEW step \in Wider, tenant.plan = step[1], asking.id # Unnamed
      PROVE  Routing([tenant EXCEPT !.plan = step[2]], asking).model = model
  <2>1. PICK up : up = [tenant EXCEPT !.plan = step[2]]
    OBVIOUS
  <2>2. PICK i \in AllowedFor(tenant) : model = Catalog[i] /\ Catalog[i].id = asking.id
    BY <1>7, <1>8
  <2>3. i \in AllowedFor(up) /\ i \in DOMAIN Catalog
    BY <1>1, <1>8, <2>1, <1>5, WideningKeeps
  <2>4. Named(AllowedFor(up), asking.id) = {i}
    BY <2>2, <2>3, CatalogAssumption DEF Named, AllowedFor
  <2>5. FirstOf(Named(AllowedFor(up), asking.id)) = i
    <3>1. FirstOf({i}) \in {i}
      BY <2>3, FirstOfIs
    <3> QED BY <2>4, <3>1
  <2>6. Resolve(up, asking) = Catalog[i]
    BY <1>8, <2>3, <2>4, <2>5 DEF Resolve
  <2> QED BY <2>1, <2>2, <2>6, RoutingIs
<1>9. ASSUME route.path # "error"
      PROVE  /\ model.params <= tenant.cap /\ model.params <= PlanPolicies[tenant.plan].cap
             /\ route.billed = "platform" => model.hosting \in PlanPolicies[tenant.plan].hostings
             /\ route.billed = "tenant" <=> (tenant.plan = "BYOK" /\ tenant.keys # "none")
  <2>1. PICK i \in AllowedFor(tenant) : model = Catalog[i]
    BY <1>7, <1>9
  <2>2. route.billed = "tenant" <=> OnByok(tenant)
    BY <1>4, <1>9
  <2>3. route.billed = "platform" => ~OnByok(tenant)
    BY <2>2
  <2> QED BY <1>1, <2>1, <2>2, <2>3, EntitledIs DEF OnByok
<1>10. ASSUME route.path # "error", asking.id = Unnamed, asking.params # NoSize, NEW j \in AllowedFor(tenant)
       PROVE  LET near == Distance(model.params, asking.params)
                  other == Distance(Catalog[j].params, asking.params)
              IN  \/ near < other
                  \/ near = other /\ model.params <= Catalog[j].params
  BY <1>7, <1>10
<1> QED BY <1>4, <1>5, <1>6, <1>8, <1>9, <1>10 DEF RouteIsEntitled

\* Whatever the catalog, the caps and what the environment configures: a tenant is
\* answered by a model within both caps and its plan's hostings, of the size nearest to
\* what it asked for, on the bill of whoever's endpoint runs it, and is refused only what
\* it may not have; a wider plan keeps every id (tenancy/tenant.ts, catalog.ts, router.ts).
THEOREM RoutesAreEntitled == TenancyInit /\ [][TenancyNext]_tenancyVars => []RouteIsEntitled
<1>1. TenancyInit => TenancyInv
  BY DEF TenancyInit, TenancyInv
<1> QED BY <1>1, TenancyStep, TenancyInvSuffices, PTL
=============================================================================
