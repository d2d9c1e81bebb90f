SPECIFICATION Spec
CONSTANTS
  Sessions = {"s"}
  Calls = {"c1", "c2"}
  MaxDay = 2
  MaxBoot = 1
  CallDays = 1
  RollupDays = 1
  LongContext = 2
  Requests = {"r1", "r2", "r3"}
  TokenOf <- TokenOfDef
  UploadSlots = 2
  TokenSlots = 2
  InstanceSlots = 2
  ConnectionSlots = 2
  Releases = {"v1", "v2"}
  StateRows = {"i", "j"}
  Readable <- ReadableDef
  MaxSerial = 8
  Jobs = {"q1", "q2"}
  CancelledJobs = {"q1"}
  CancelAttempts = 2
  MaxDeaths = 1
  ModelIds = {"m1", "m2"}
  CommitOf <- CommitOfDef
  BlobsOf <- BlobsOfDef
  Downloads = {"d1", "d2"}
  Wants <- WantsDef
  Removals = {"x1", "x2"}
  DownloadSlots = 1
  DiskBlobs = 3
  DiskReserve = 1
  Versions = {"g1", "g2"}
  MaxWrites = 2
  Browsers = {"b1", "b2"}
  MaxStarts = 2
  MaxFlows = 2
  PendingLogins = 2
  MaxSessions = 2
  Launches = {"l1", "l2", "l3"}
  MaxIssued = 3
  Recent = 1
  HighWater = 3
  RequestBytes = 8
  AdapterMax = 4
  ModelLimits = {2, 4}
  Batches <- BatchesDef
  MaxImages = 6
INVARIANTS
  UsageIsAccounted
  
  
  PinnedClientConnects
  RunnerIsContained
  
  GeneratedFilesAreSafe
  LoginIsSound
  LaunchLeavesNothing
CONSTRAINT Bounded
CHECK_DEADLOCK FALSE
