SPECIFICATION Spec
CONSTANTS
  None = None
  Symbol <- MCSymbol
  Node <- MCNode
  Height <- MCHeight
  Term <- MCTerm
  Subclass <- MCSubclass
  Compared <- MCCompared
  Probes <- MCProbes
  Members <- MCMembers
  Fuel = 3
INVARIANT
  DisjointIsKnown
CHECK_DEADLOCK FALSE
