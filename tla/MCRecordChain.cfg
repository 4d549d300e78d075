SPECIFICATION ChainSpec
CONSTANTS
  MATERIALIZED_TABLE_PAGE_LEN = 24
  DIRECTORY_OFFSET = 2
  Page <- MCPage
  RecordId = {0, 1, 2}
  ResolverKey = {"k1", "k2", "k3"}
  InitialTarget <- MCInitialTarget
  Limits <- MCLimits
  Context <- MCContext
INVARIANTS
  RecordsAreServed
  RecordIsBounded
  RejectNamesFirstMisfit
  ChainIsTheRecords
PROPERTIES
  WalkIsChain
CHECK_DEADLOCK FALSE
