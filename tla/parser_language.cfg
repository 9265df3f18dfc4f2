SPECIFICATION FairSpec
CONSTANTS
  BinaryOperators = {"+", "*"}
  Inputs <- MCInputs
  StackLimit = 30
  MemoryLimit = 5
PROPERTY
  ParsesToReference
