SPECIFICATION Spec
CONSTANTS
  \* Sovereignty
  Primes <- TwoPrimes
  First = nova
  Seeds <- NoSeeds
  Nobody = Nobody
  MaxDirectives = 2
  MaxRecords = 4
  \* AuditChain
  Surfaces <- OneSurface
  Packets <- OnePacket
  Spoilt = Spoilt
  Outcomes = {"BLOCKED"}
  Readings = {"unreachable"}
  MaxEntries = 3
  \* Fleet
  Managers = 2
  PerManager = 3
  MaxBreadth = 2
  MaxDepth = 3
  \* Sandbox
  Sessions <- ThreeSessions
  MaxLive = 1
  MaxRuns = 2
  \* SafeArithmetic
  Numbers <- TwoNumbers
  MaxTokens = 7
  \* DreamScheduler
  IdleTicks = 5
  Spike = 70
  Threshold = 50
  Magnitudes <- SomeEnergies
  Unstated = Unstated
  MaxTime = 3
  \* TaskQueue
  Tasks <- FourTasks
  PriorityOf <- OneCriticalTwoStandard
  MaxTickets = 6
  nova = nova  vega = vega
  surface = surface  packet = packet
  box1 = box1  box2 = box2  box3 = box3
  t0 = t0  t1 = t1  t2 = t2  t3 = t3
  \* Meters
  Sinks <- TwoObservers
  Bounds <- TwoBuckets
  Traffic <- FourDispatches
  Window = 1
  Capacity = 2
  KeptResults = 1
  ReadMost = 2
  ReadDefault = 1
  MaxEvents = 3
  MaxInstant = 2
  \* Vetting
  ToolNames = {"x"}
  Versions = {"1", "2"}
  Secrets = {"s"}
  MaxTools = 3
  MaxTasks = 1
  \* LearnedGate
  Senders = {"HOPE", "APEX"}
  Cases <- FiveCases
  WeightSets <- TwoTrainings
  MostPerSpan = 2
  RateSpan = 1
  SeenSpan = 2
  SeenSoftCap = 3
  MaxCases = 3
  MaxInstants = 1
  \* KafkaStub
  g1 = g1
  g2 = g2
  Partitions = {"APEX"}
  Groups <- OneGroup
  Modes = {"consumer"}
  Replays = {FALSE}
  IdleOps = {"publish", "subscribe"}
  HandlerOps = {"publish"}
  MaxOffset = 2
  MaxSubs = 1
  MaxAttempts = 1
INVARIANTS
  DeliveredOnce
CHECK_DEADLOCK FALSE
