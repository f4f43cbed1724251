SPECIFICATION Spec
CONSTANTS
  CPUs = {c1, c2}
  IPs = {a, b}
  Elems = {e1, e2}
  NoCPU = NoCPU
  NoIP = NoIP
  NoElem = NoElem
  Blockable = {}
  MaxEntries = 1
  Interval = 1
  InitBits = 2
  MinBits = 2
  TxPort = TRUE
  MaxPkts = 4
  MaxNow = 6
SYMMETRY Symmetry
INVARIANTS TypeOK LockHeld SeparatedCloses BitsBounded NoDoubleCount
PROPERTY StampAdvances
