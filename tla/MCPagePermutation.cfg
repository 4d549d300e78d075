SPECIFICATION Spec
CONSTANTS
  BYTE = 4
  PAGE_PERMUTATION_SECTOR_LEN = 8
  Call <- MCCall
  Image <- MCImage
INVARIANTS
  InactiveUntouched
  EachByteMovedOnce
  CycleIsFound
  NegatedKeyRestores
CHECK_DEADLOCK FALSE
