SPECIFICATION InspectSpec
CONSTANTS
  PAGE_SIZE = 2
  InitialFile <- MCInitialFile
  MaxLen = 6
  MaxWrites = 5
  BadTrailer = {9}
  BadMagic = {7}
  PageArg = {1, 2}
INVARIANTS
  TypeOK
  SnapshotIsWholePages
  OneWayResizeIsRejected
  SnapshotWasInFile
  ExitTellsIntegrity
  VerifiedPagesWereWhole
PROPERTIES
  InspectEnds
CHECK_DEADLOCK FALSE
