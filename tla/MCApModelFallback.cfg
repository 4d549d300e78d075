SPECIFICATION Spec
CONSTANTS
  BYTE = 8
  STEPS = 8
  Peaks <- MCPeaks
  BLOCK = 4
  SAMPLES = 3
  SECTOR = 3
  LAST_SECTOR = 2
  SECTORS = 2
  Store <- MCStore
  Newer <- MCNewer
INVARIANTS
  FallbackIsLowestBlock
CHECK_DEADLOCK FALSE
