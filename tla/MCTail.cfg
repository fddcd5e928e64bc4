SPECIFICATION Spec
CONSTANTS
  None = None
  Symbol <- MCSymbol
  MaxDepth = 3
  Node <- TailNode
  Term <- TailTerm
  Subclass <- MCSubclass
  Requests <- MCRequests
  Bases <- MCBases
  Height <- MCHeight
  Positive <- MCPositive
  Always <- MCAlways
  Larger = {1, 2}
INVARIANT
  ValuesCaptureLikeExprs
