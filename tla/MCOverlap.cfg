SPECIFICATION Spec
CONSTANTS
  None = None
  Symbol <- MCSymbol
  Node <- MCNode
  Height <- MCHeight
  Term <- MCTerm
  Subclass <- MCSubclass
  Compared <- EmptyCompared
  Probes <- MCProbes
  Members <- MCMembers
  Fuel = 3
INVARIANT
  OverlapIsShared
CHECK_DEADLOCK FALSE
