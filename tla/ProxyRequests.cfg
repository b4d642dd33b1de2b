SPECIFICATION Spec
CONSTANTS
  r1 = r1
  r2 = r2
  Request = {r1}
  Contents <- EveryContent
  AllowPartial = FALSE
INVARIANTS
  FailClosed
  BackendRunsTranslation
  OneParameterRewritten
  CostIsReported
PROPERTIES
  ImplementsGate
