SPECIFICATION MCSpec
CONSTANTS
  Case <- MCCase
  Priorities = {0, 1}
  Scores = {1, 2, 3}
  Subshapes <- MCSubshapes
INVARIANTS
  SelectTypeOK
  PriorityWins
  NeverSubsumed
  BestIsBest
PROPERTY
  ImplementsChoice
CHECK_DEADLOCK FALSE
