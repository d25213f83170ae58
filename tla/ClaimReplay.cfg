SPECIFICATION Spec
CONSTANTS
  Docs <- MCDocs
  Filters <- MCFilters
  Specs <- MCSpecs
  Oids <- MCOids
  IndexNames <- MCIndexNames
  KeyPaths <- MCKeyPaths
  Matches <- MCMatches
  ApplyUpdate <- MCApplyUpdate
  SeedUpsert <- MCSeedUpsert
  DocKeys <- MCDocKeys
  Workload <- FailingWorkload
  SyncFull = TRUE
  CheckpointFrames = 4
  FsyncPersistsName = TRUE
  Faults = {}
  MaxSeq = 3
  MaxSlots = 2
INVARIANTS
  ReopensWithoutRepair
