SPECIFICATION Spec
CONSTANTS
  Inputs <- ClimbingInputs
  StackLimit = 30
  MemoryLimit = 5
INVARIANT
  DeclarationsSurvive
