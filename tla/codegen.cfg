SPECIFICATION FairSpec
CONSTANTS
  Binary = {"+", "<", ">"}
  Programs <- MCPrograms
INVARIANTS
  TypeOK
  ArityRespected
  ScopeRespected
  CleanBetweenTrees
  MeaningPreserved
  EffectsInOrder
  RejectsIllFormed
PROPERTY
  AcceptsWellFormed
