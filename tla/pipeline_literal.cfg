SPECIFICATION Spec
CONSTANTS
  Letters = {"m", "o", "t", "i", "f", "e", "x", "r", "n", "a", "p", "c", "s", "g", "b"}
  Digits = {"1", "2", "5"}
  Others = {"+", "-", "*", "<", ">", "(", ")", "{", "}", ",", "?", ":", "%"}
  Motif <- MCMotif
  Extern <- MCExtern
  Is <- MCIs
  NameOfWord <- MCNameOfWord
  Files = {"program"}
  Invocations <- MCLiteralInvocations
  CallLimit = 1
  StackLimit = 30
  MemoryLimit = 5
INVARIANT
  WholeFileCompiled
