SPECIFICATION Spec
CONSTANTS
  CPUs = {c1, c2}
  IPs = {a}
  Elems = {e1, e2}
  NoCPU = NoCPU
  NoIP = NoIP
  NoElem = NoElem
  Blockable = {}
  MaxEntries = 1
  Interval = 1
  InitBits = 0
  MinBits = 2
  TxPort = TRUE
  MaxPkts = 3
  MaxNow = 4
SYMMETRY Symmetry
INVARIANT NothingDropped
