SPECIFICATION FairSpec
CONSTANTS
  Docs <- MCDocs
  Filters <- MCFilters
  Specs <- MCSpecs
  Oids <- MCOids
  IndexNames <- MCIndexNames
  KeyPaths <- MCKeyPaths
  Matches <- MCMatches
  ApplyUpdate <- MCApplyUpdate
  SeedUpsert <- MCSeedUpsert
  DocKeys <- MCDocKeys
  Workload <- FailingWorkload
  SyncFull = FALSE
  CheckpointFrames = 2
  FsyncPersistsName = FALSE
  Faults = {"append", "snapshot", "dirsync", "load"}
  MaxSeq = 2
  MaxSlots = 2
PROPERTIES
  CallReturns
