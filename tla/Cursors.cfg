SPECIFICATION FairSpec
CONSTANTS
  remote = remote
  local = local
  Readers = {remote, local}
  Local = {local}
  Namespaces = {"zoo", "farm"}
  Setups <- MCSetups
  Configs = {other}
  Calls = {k1, k2}
  MaxLength = 3
  MaxTroubles = 2
CHECK_DEADLOCK FALSE
INVARIANTS
  TypeOK
  OwnNamespace
  OwnDocumentsOnce
  NullMeansAll
  EntriesAreHeld
PROPERTIES
  ToArrayEnds
