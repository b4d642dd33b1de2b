SPECIFICATION Spec
CONSTANTS
  Translations <- LogsToSpans
  Tests <- FewTests
  MaxTokens = 7
INVARIANTS
  FiltersConjoined
