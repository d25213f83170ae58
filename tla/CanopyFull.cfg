SPECIFICATION FairSpec
CONSTANTS
  Docs <- MCDocs
  Filters <- MCFilters
  Specs <- MCSpecs
  Oids <- MCOids
  IndexNames <- MCIndexNames
  KeyPaths <- MCKeyPaths
  Matches <- MCMatches
  ApplyUpdate <- MCApplyUpdate
  SeedUpsert <- MCSeedUpsert
  DocKeys <- MCDocKeys
  Workload <- PlainWorkload
  SyncFull = TRUE
  CheckpointFrames = 2
  FsyncPersistsName = TRUE
  Faults = {"append", "snapshot"}
  MaxSeq = 3
  MaxSlots = 2
INVARIANTS
  TypeOK
  LiveStateIsCommitted
  NothingPromisedIsLost
  ReplayAccepts
  Inv
PROPERTIES
  RecoveryCompletes
