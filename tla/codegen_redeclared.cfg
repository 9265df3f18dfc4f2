SPECIFICATION Spec
CONSTANTS
  Programs <- RedeclaredPrograms
INVARIANT
  BodiesUseTheirPrototype
