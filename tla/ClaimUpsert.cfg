SPECIFICATION Spec
CONSTANTS
  Docs <- MCDocs
  Filters <- MCFilters
  Specs <- MCSpecs
  Oids <- MCOids
  IndexNames <- MCIndexNames
  KeyPaths <- MCKeyPaths
  Matches <- MCMatches
  ApplyUpdate <- MCApplyUpdate
  SeedUpsert <- MCSeedUpsert
  DocKeys <- MCDocKeys
  Workload <- SeededWorkload
  SyncFull = TRUE
  CheckpointFrames = 2
  FsyncPersistsName = TRUE
  Faults = {}
  MaxSeq = 2
  MaxSlots = 2
INVARIANTS
  RestartObservesDocuments
