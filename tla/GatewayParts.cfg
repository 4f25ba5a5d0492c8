SPECIFICATION Spec
CONSTANTS
  \* FrontDoor
  Addresses <- TwoAddresses
  Tenants <- OneTenant
  AddressLimit = 1
  AuthLimit = 0
  TenantLimit = 1
  Window = 2
  SweepAbove = 1
  KeyRequired = TRUE
  MaxClock = 4
  MaxCount = 2
  \* Companion
  Turns <- TwoTurns
  Companions <- OneCompanion
  People <- TwoPeople
  Nobody = Nobody
  MaxTurns = 3
  MaxTokens = 2
  \* Intake
  Intents <- OneIntent
  Workers <- OneWorker
  Hope = Hope
  Retries = 3
  MaxIntents = 1
  \* DeepHealth
  Checks <- OneIntent
  Dependencies <- TwoDependencies
  \* Waitlist
  Emails <- TwoEmails
  Details <- TwoDetails
  Blank = Blank
  Invalid = Invalid
  Capacity = 1
  \* ProviderCall
  Timeout = 2
  MaxPieces = 6
  \* Routes
  Users = {"u", "v"}
  Personas = {"p"}
  NoOwner = NoOwner
  SessionLife = 1
  MaxSessions = 2
  MaxUses = 1
  MaxDays = 1
  \* HopeMemory
  Minds = {"m1", "m2"}
  Texts <- TwoTexts
  Likeness <- SameIsNearer
  HopeTenants = {"t1", "t2"}
  NoTenant = NoTenant
  HowMany = {0, 1, 2}
  Owners = {"u", "v", "w"}
  ReflectedIds = {"reflected-uv", "reflected-w"}
  ReflectedId <- TwoCollide
  MaxRemembered = 3
  MaxObserved = 2
  MaxLogged = 4
  MaxMillis = 1
  ip1 = ip1  ip2 = ip2  tenant = tenant
  r1 = r1  r2 = r2  ada = ada  bea = bea  luna = luna
  intent1 = intent1  worker1 = worker1
  postgres = postgres  redis = redis
  eve = eve  fay = fay  yes = yes  no = no
INVARIANTS
  LimitsHold
  CompanionRemembers
  ReportedOnceUnlessSilent
  SaysWhatItHeard
  HopeKeepsApart
PROPERTIES
  ClaimsAreKept
  EverythingAnswered
\* The requests of a behaviour are bounded, and it ends when they are answered.
CHECK_DEADLOCK FALSE
