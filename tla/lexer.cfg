SPECIFICATION FairSpec
CONSTANTS
  Letters = {"m", "x"}
  Digits = {"1"}
  Others = {"+"}
  Motif <- MCMotif
  Extern <- MCExtern
  MaxLength = 5
  CallLimit = 1
  Texts <- MCTexts
INVARIANTS
  TypeOK
  TokensAreTheText
  TokensInOrder
  MaximalMunch
  OverflowOnlyAfterComments
PROPERTY
  LexerEnds
