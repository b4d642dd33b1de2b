SPECIFICATION Spec
CONSTANTS
  r1 = r1
  r2 = r2
  Request = {r1, r2}
  Contents <- FewContents
  AllowPartial = FALSE
INVARIANTS
  TypeOK
PROPERTIES
  AnswerIsFinal
  RequestConcluded
  DrainEnds
