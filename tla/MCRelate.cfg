SPECIFICATION Spec
CONSTANTS
  None = None
  Symbol <- MCSymbol
  Node <- MCNode
  Height <- MCHeight
  Term <- MCTerm
  Subclass <- MCSubclass
  Compared <- MCCompared
  Probes <- MCProbes
  Members <- MCMembers
  Fuel = 3
INVARIANTS
  TypeOK
  SubshapeIsInclusion
  DisjointIsApart
  ProbesDecide
  RegionsAreExact
CHECK_DEADLOCK FALSE
