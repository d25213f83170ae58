SPECIFICATION Spec
CONSTANTS
  Docs <- MCDocs
  Filters <- MCFilters
  Specs <- MCSpecs
  Oids <- MCOids
  IndexNames <- MCIndexNames
  KeyPaths <- MCKeyPaths
  Matches <- MatchesFilter
  ApplyUpdate <- MCApplyUpdate
  SeedUpsert <- MCSeedUpsert
  DocKeys <- KeysOf
  ClearsOrder <- HasArray
  Calls <- PrefixCalls
  Queries <- PrefixQueries
  Cursors = {c1}
  MaxSlots = 3
INVARIANT FindAgreesWithScan
