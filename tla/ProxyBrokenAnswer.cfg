SPECIFICATION Spec
CONSTANTS
  r1 = r1
  r2 = r2
  Request = {r1}
  Contents <- TypicalOnly
  AllowPartial = FALSE
INVARIANTS
  AnswersAreVerbatim
