SPECIFICATION FairSpec
CONSTANTS
  PageCount = 4
  PageNumber <- MCPageNumber
  Contents <- MCContents
  MaxPages = {0, 1, 2, 3, 4, 5}
INVARIANTS
  OnlySafeTargetsFollowed
  StopIsTrue
PROPERTIES
  IsBoundedWalk
CHECK_DEADLOCK FALSE
