SPECIFICATION FairSpec
CONSTANTS
  None = None
  Symbol <- MCSymbol
  MaxDepth = 3
  Node <- MCNode
  Term <- MCTerm
  Subclass <- MCSubclass
  Requests <- MCRequests
  Bases <- MCBases
  Height <- MCHeight
  Positive <- MCPositive
  Always <- MCAlways
  Larger = {1, 2}
INVARIANTS
  TypeOK
  BudgetAccounted
  ScopesAccounted
  AnswerIsMeaning
  FailsClosed
PROPERTY
  Answers
