SPECIFICATION Spec
CONSTANTS
  Procs = {p1, p2}
  p1 = p1
  p2 = p2
  Devices <- MCDevices
  TooLong <- MCTooLong
  Declared <- MCDeclared
  Files <- MCFiles
  Commands <- MCCommands
  MaxRuns = 3
  MaxFaults = 2
SYMMETRY Symmetry
INVARIANT
  PrevMapsUnpinned
CHECK_DEADLOCK FALSE
