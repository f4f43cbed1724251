SPECIFICATION FairSpec
CONSTANTS
  CPUs = {c1}
  Sources = {a, z}
  Zero = z
  Elems = {e1, e2, e3}
  NoIP = NoIP
  NoElem = NoElem
  Blockable = {a}
  MaxEntries = 2
  Garbage = {1}
  RoundUp = 1
  MaxPkts = 2
PROPERTIES FlowsExpire RoundComplete
