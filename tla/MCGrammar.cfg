CONSTANTS
  None = None
  FieldsHead = "shape/fields"
  Nesting = 12
  Fuel = 3
  Local <- MCLocal
  Unescaped <- MCUnescaped
  Symbol <- MCSymbol
  Node <- MCNode
  Height <- MCHeight
  Term <- MCTerm
  Subclass = {}
SPECIFICATION Spec
INVARIANT GrammarIsShape
CHECK_DEADLOCK FALSE
