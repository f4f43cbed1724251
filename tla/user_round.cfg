SPECIFICATION Spec
CONSTANTS
  CPUs = {c1}
  Sources = {a, b}
  Zero = z
  Elems = {e1, e2, e3}
  NoIP = NoIP
  NoElem = NoElem
  Blockable = {}
  MaxEntries = 2
  Garbage = {0, 1}
  RoundUp = 1
  MaxPkts = 3
SYMMETRY Symmetry
INVARIANTS TypeOK WalkFits TotalsOnce FlowsOnce
PROPERTY RoundComplete
