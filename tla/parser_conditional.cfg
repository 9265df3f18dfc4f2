SPECIFICATION Spec
CONSTANTS
  Inputs <- ConditionalInputs
  StackLimit = 30
  MemoryLimit = 5
INVARIANT
  ProgramsParse
