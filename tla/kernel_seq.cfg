SPECIFICATION LogSpec
CONSTANTS
  CPUs = {c1}
  IPs = {a, b, d}
  Elems = {e1, e2, e3}
  NoCPU = NoCPU
  NoIP = NoIP
  NoElem = NoElem
  Blockable = {d}
  MaxEntries = 2
  Interval = 1
  InitBits = 0
  MinBits = 2
  TxPort = TRUE
  MaxPkts = 5
  MaxNow = 6
SYMMETRY Symmetry
INVARIANTS NothingDropped FlowsWithinTotal BitsCoverTotal
PROPERTY ImplementsFlowLog
