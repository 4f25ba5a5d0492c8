SPECIFICATION FairSpec
CONSTANTS
  Tenants = {"t1"}
  Arrivals <- AllArrivals
  ReportContents = {0, 300}
  Handlers = {"APEX", "DREAM", "VISION", "HOPE"}
  Tokens = {"none", "prime"}
  Recognized = {"prime"}
  NoToken = "none"
  RateLimit = 2
  RateWindow = 1
  ScoreWindow = 1
  RateSoftCap = 2
  Threshold = 340
  FlagThreshold = 200
  LearnedEnforce = TRUE
  MaxClock = 1
  MaxRows = 3
INVARIANTS
  LayersNeverNest
  CulpritQuarantined
  DeliveredIsLawful
  AuditMatchesLedger
  RateBound
PROPERTIES
  NoDeliveryWhileFrozen
  FreezeHeld
  EveryDispatchReturns
