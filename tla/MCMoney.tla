-------------------------------- MODULE MCMoney --------------------------------
(***************************************************************************)
(* What is charged and what is paid out, for TLC: Billing with the seeded  *)
(* tenant and another one, and a price list with the shape of              *)
(* config/pricing.json in units that let a few dispatches cross an         *)
(* allowance and a cap; CreatorPayout with two creators and two requests   *)
(* in flight; Tenancy with the seven models of config/models.json, their   *)
(* sizes in whole billions.  They share no state, so one behaviour moves   *)
(* one of them.                                                            *)
(***************************************************************************)
EXTENDS Billing, CreatorPayout, Tenancy, TLC

Priced(perRequest, rate, overage, included, cap, byok, price) ==
  [perRequest |-> perRequest, rate |-> rate, overage |-> overage, included |-> included,
   cap |-> cap, byok |-> byok, fee |-> 0, price |-> price]
PriceList ==
  [FREE |-> Priced(0, 1, 1, 1, 1, FALSE, 0),
   STARTER |-> Priced(1, 1, 2, 2, 5, FALSE, 29),
   BYOK |-> Priced(0, 0, 0, 0, Unlimited, TRUE, 19)]
Ask(tier, included, cap) == [tier |-> tier, included |-> included, cap |-> cap]
Asked == {Ask("FREE", Absent, Absent), Ask(Absent, 4, 3), Ask("STARTER", Absent, Unlimited)}

CONSTANTS ada, bea, r1, r2
TwoCreators == {ada, bea}
TwoRequests == {r1, r2}
Interchangeable == Permutations(TwoCreators) \cup Permutations(TwoRequests)

Entry(id, params, hosting, byok) ==
  [id |-> id, params |-> params, hosting |-> hosting, byok |-> byok]
SevenModels ==
  <<Entry("tinyllama", 1, "local", TRUE), Entry("phi", 3, "local", TRUE),
    Entry("mistral-7b", 7, "local", TRUE), Entry("llama3-8b", 8, "hostinger", TRUE),
    Entry("llama3-70b", 70, "hostinger", TRUE), Entry("gpt-4o-mini", 8, "cloud", TRUE),
    Entry("gpt-4o", 200, "cloud", FALSE)>>

VARIABLE part   \* the part that this behaviour moves

PartsInit ==
  /\ Init /\ PayoutInit /\ TenancyInit /\ part \in {"billing", "payouts", "tenancy"}
  /\ part # "tenancy" => configured = {}
PartsNext ==
  /\ UNCHANGED part
  /\ \/ part = "billing" /\ Next
     \/ part # "billing" /\ UNCHANGED vars
  /\ \/ part = "payouts" /\ PayoutNext
     \/ part # "payouts" /\ UNCHANGED payoutVars
  /\ \/ part = "tenancy" /\ TenancyNext
     \/ part # "tenancy" /\ UNCHANGED tenancyVars
PartsSpec == PartsInit /\ [][PartsNext]_<<part, vars, payoutVars, tenancyVars>>
=============================================================================
