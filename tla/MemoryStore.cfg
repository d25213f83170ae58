SPECIFICATION Spec
CONSTANTS
  Docs <- StoreDocs
  Filters <- MCFilters
  Specs <- MCSpecs
  Oids <- MCOids
  IndexNames <- MCIndexNames
  KeyPaths <- StoreKeyPaths
  Matches <- MatchesFilter
  ApplyUpdate <- MCApplyUpdate
  SeedUpsert <- MCSeedUpsert
  DocKeys <- KeysOf
  ClearsOrder <- HasArray
  Calls <- StoreCalls
  Queries <- StoreQueries
  Cursors = {c1}
  MaxSlots = 3
INVARIANTS
  TypeOK
  CallInv
  IndexHoldsLiveKeys
  UniqueIsUnique
  FindAgreesWithScan
  CursorReturnsOnce
  CursorMissesNothing
PROPERTY
  CallsAreAtomic
