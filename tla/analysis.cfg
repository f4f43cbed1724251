SPECIFICATION Spec
CONSTANTS
  IPs = {a, b, d}
  MaxEntries = 2
  InitBits = 0
  Bursts = {2, 27, 43}
  MaxBursts = 5
SYMMETRY Symmetry
CHECK_DEADLOCK FALSE
INVARIANT EntropyNotNegative
PROPERTIES NewFlowsStay CountsShift
