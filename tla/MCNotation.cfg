CONSTANTS
  None = None
  MaxDepth = 4
  Bases = {0, 1, 3, 4}
  Source <- MCSource
  Name <- MCName
  Bare <- MCBare
  Size <- MCSize
  Spelling <- MCSpelling
  Nesting = 12
  Letters <- MCLetters
  Edits <- MCEdits
SPECIFICATION Spec
INVARIANTS ParseTypeOK ReadsGrammar StoredComesBack ValuesAreStorable
