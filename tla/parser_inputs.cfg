SPECIFICATION FairSpec
CONSTANTS
  Alphabet = {"motif", "extern", "identifier", "is", "number", "<", "+", "*",
              "(", ")", "{", "}", ",", "?", ":", "other"}
  MaxLength = 3
  Fragments = {"identifier", "number", "+", "*", "(", ")", "{"}
  Inputs <- MCInputs
  StackLimit = 40
  MemoryLimit = 5
INVARIANTS
  TypeOK
  TreesAreComplete
  TokensUsedOnce
  SourceOrder
  ResultUsesTokensOnce
  RightOperandBindsTighter
  OverflowOnlyAtOperator
PROPERTIES
  ItemReturns
  SpinsOnlyAtClosers
