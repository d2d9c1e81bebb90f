SPECIFICATION ModelCacheSpec
CONSTANTS
  ModelIds = {"m1", "m2"}
  CommitOf <- CommitOfDef
  BlobsOf <- BlobsOfDef
  Downloads = {"d1", "d2"}
  Wants <- WantsDef
  Removals = {"r1"}
  DownloadSlots = 1
  DiskBlobs = 4
  DiskReserve = 1
INVARIANT RemovesOnlyUnreferenced
CHECK_DEADLOCK FALSE
