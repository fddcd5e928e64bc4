SPECIFICATION FairSpec
CONSTANTS
  Case = {c1, c2, c3}
  Priorities = {0, 1, 2}
  Demands <- MCDemands
  Checked = {c1, c2}
  Arity = 2
  NoCase = NoCase
INVARIANTS
  TypeOK
  OneMatch
  LeastForcing
  NoErrorLost
  ConflictIsReal
PROPERTY
  ImplementsCall
CHECK_DEADLOCK FALSE
