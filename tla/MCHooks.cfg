SPECIFICATION Spec
CONSTANTS
  Stacks <- MCStacks
  Inners <- MCInners
  Scores <- MCScores
  Deltas <- MCDeltas
  Reject <- MCReject
  Half = 4
INVARIANTS
  TypeOK
  TransparentKeepsVerdict
  VerdictExplained
  HooksAsked
  FloorHolds
  VerdictOfStack
CHECK_DEADLOCK FALSE
