SPECIFICATION FairSpec
CONSTANTS
  CPUs = {c1, c2}
  IPs = {a}
  Elems = {e1, e2}
  NoCPU = NoCPU
  NoIP = NoIP
  NoElem = NoElem
  Blockable = {a}
  MaxEntries = 1
  Interval = 1
  InitBits = 0
  MinBits = 2
  TxPort = FALSE
  MaxPkts = 3
  MaxNow = 4
PROPERTY PacketsFinish
