SPECIFICATION FairSpec
CONSTANTS
  t1 = t1
  t2 = t2
  t3 = t3
  t4 = t4
  Target <- MCTarget
  InitialTarget = t1
  Bytes <- MCBytes
  Limits <- MCLimits
INVARIANTS
  NeverResolvedTwice
  WithinLimits
  ChainFollowsBytes
  VerdictIsDeserved
PROPERTIES
  CallsOnlyWhenChecked
  IsBoundedWalk
CHECK_DEADLOCK FALSE
