SPECIFICATION PartsSpec
CONSTANTS
  \* Billing
  Tenants = {"demo", "acme"}
  DefaultTenant = "demo"
  Tiers = {"FREE", "STARTER", "BYOK"}
  DefaultTier = "FREE"
  SeedTier = "STARTER"
  Pricing <- PriceList
  Unlimited = Unlimited
  Absent = Absent
  MaxOccurrences = 2
  SessionTtl = 1
  Works = {2}
  Costs = {1}
  Adjustments <- Asked
  MaxEvents = 3
  MaxSessions = 1
  MaxClock = 1
  \* CreatorPayout
  ada = ada
  bea = bea
  Nobody = Nobody
  r1 = r1
  r2 = r2
  Creators <- TwoCreators
  Requests <- TwoRequests
  MaxMade = 3
  \* Tenancy
  Catalog <- SevenModels
  DefaultModel = "mistral-7b"
  AskedSizes = {2, 5, 8, 500}
  OwnCaps = {0, 5, 8, 1000}
  Uncapped = 1000
  Unnamed = "unnamed"
SYMMETRY Interchangeable
INVARIANTS
  MeterAgrees
  PlanIsPaidFor
  PayoutStateIsSound
  RouteIsEntitled
PROPERTIES
  CapIsFirm
  LapseCostsNothing
  PaidOnlyVerified
CHECK_DEADLOCK FALSE
