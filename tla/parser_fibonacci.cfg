SPECIFICATION Spec
CONSTANTS
  Inputs <- FibonacciInputs
  StackLimit = 30
  MemoryLimit = 5
INVARIANT
  ProgramsParse
