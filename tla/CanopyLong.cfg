SPECIFICATION Spec
CONSTANTS
  Docs <- MCDocs
  Filters <- MCFilters
  Specs <- MCSpecs
  Oids <- MCOids
  IndexNames <- MCIndexNames
  KeyPaths <- MCKeyPaths
  Matches <- MCMatches
  ApplyUpdate <- MCApplyUpdate
  SeedUpsert <- MCSeedUpsert
  DocKeys <- MCDocKeys
  Workload <- LongWorkload
  SyncFull = FALSE
  CheckpointFrames = 2
  FsyncPersistsName = TRUE
  Faults = {"append", "snapshot"}
  MaxSeq = 5
  MaxSlots = 2
INVARIANTS
  NothingPromisedIsLost
  LogContinuesSnapshot
PROPERTIES
  NoStepForgets
  KeepsContract
