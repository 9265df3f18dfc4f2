SPECIFICATION Spec
CONSTANTS
  Inputs <- ChainInputs
  StackLimit = 30
  MemoryLimit = 5
INVARIANT
  ProgramsParse
