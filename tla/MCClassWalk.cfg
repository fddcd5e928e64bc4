SPECIFICATION FairSpec
CONSTANTS
  None = None
  Class = {A, B, C}
  Hierarchies <- MCHierarchies
INVARIANTS
  TypeOK
  AnswerIsAbove
  ReportsKept
  WalkedOnce
PROPERTY
  Ends
CHECK_DEADLOCK FALSE
