SPECIFICATION ValueSpec
CONSTANTS
  Token <- MCToken
  Made <- MCMade
  STEP = 1439
  Spans <- MCSpans
INVARIANTS
  RenderingIsTheToken
  TextIsPlain
PROPERTIES
  DatesAreGregorian
CHECK_DEADLOCK FALSE
