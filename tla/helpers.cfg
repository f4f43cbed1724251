SPECIFICATION Spec
CONSTANTS
  Devices <- MCDevices
  TooLong <- MCTooLong
  Frames <- MCFrames
  TCIs = {5, 8197, 65541}
  MaxUnits = 17
  Small = 30
  Fractions = {0, 1, 3, 8, 24}
INVARIANTS
  CopyModesExclusive
  MapsInPlace
  InsnsPatched
  FailedLoadCloses
  CursorWithin
  PopUndoesPush
  SumsTruncate
  QuotientsTruncate
  LogOrdered
PROPERTIES
  TagsSkipped
  RewriteKeeps
CHECK_DEADLOCK FALSE
