SPECIFICATION Spec
CONSTANTS
  Translations <- EveryPair
  Tests <- FewTests
  MaxTokens = 7
INVARIANTS
  ParsedAsWritten
  FilterKept
  LossOnlyWidens
  VerdictsMatchNotes
  TranslationIsRead
