SPECIFICATION Spec
CONSTANTS
  BYTE = 4
  SEARCH_LIMIT = 6
  SLOT_OFFSET_MIN = 3
  TRAILER_START = 14
  MIN_LIVE_SLOTS = 2
  Page <- MCPage
  GivenSlots <- MCGivenSlots
INVARIANTS
  RowsTileTheRowArea
  FindsTheLongest
  LeadingZeroIsTold
  TwoViewsAgree
CHECK_DEADLOCK FALSE
