SPECIFICATION Spec
CONSTANTS
  Tenants = {"t1"}
  Arrivals <- EdgeArrivals
  ReportContents = {0, 300}
  Handlers = {"APEX", "DREAM", "VISION", "HOPE"}
  Tokens = {"none", "prime"}
  Recognized = {"prime"}
  NoToken = "none"
  RateLimit = 2
  RateWindow = 2
  ScoreWindow = 2
  RateSoftCap = 2
  Threshold = 340
  FlagThreshold = 200
  LearnedEnforce = FALSE
  MaxClock = 2
  MaxRows = 4
INVARIANTS
  QuarantineNeverRouted
