SPECIFICATION Spec
CONSTANTS
  CPUs = {c1, c2}
  IPs = {a, b}
  Elems = {e1, e2}
  NoCPU = NoCPU
  NoIP = NoIP
  NoElem = NoElem
  Blockable = {}
  MaxEntries = 1
  Interval = 1
  InitBits = 4
  MinBits = 4
  TxPort = TRUE
  MaxPkts = 5
  MaxNow = 6
SYMMETRY Symmetry
INVARIANT CountedUnderSource
