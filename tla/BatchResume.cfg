SPECIFICATION PartsSpec
CONSTANTS
  \* NodeLease and RedisLease
  Nobody = Nobody
  Keys = {"k1", "k2"}
  Holders = {a, b, c}
  Ttls = {0, 2}
  MaxToken = 2
  RedisTtls = {1, 2}
  Slices = {"k1"}
  RedisWorkers = {a, b}
  NoValue = NoValue
  Networks = {"prompt", "late"}
  \* WriteThrough
  Emails = {ann}
  Companions = {luna}
  Faults = TRUE
  MaxWrites = 5
  \* KafkaReal
  Messages = {"m1", "m2"}
  Groups = {"g1"}
  Consumers = {"c1", "c2"}
  Replaying = {"c2"}
  NoConsumer = "none"
  MaxTopic = 2
  MaxSends = 1
  \* Pregenerate
  Cells = 3
  WithScene = {2}
  MaxStarts = 4
  \* Projections
  RowNames = {1, 2}
  Marks = {"m", "n"}
  MaxSaves = 3
  MaxClock = 1
  \* PortraitServer
  Threads = {"t1", "t2"}
  Styles = {"realistic", "anime"}
  DefaultStyle = "realistic"
  Modelless = {"anime"}
  Faces = {"jordyn", "nova"}
  Trained = {"jordyn"}
  NoFace = "plain"
  PreloadAll = FALSE
  MaxRequests = 3
INVARIANT ResumesAfterCrash
CHECK_DEADLOCK FALSE
