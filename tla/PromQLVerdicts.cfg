SPECIFICATION Spec
CONSTANTS
  MaxQueries = 2
  MaxStages = 3
  MaxModifiers = 1
  Source = "promql"
  Target = "logql"
  Constructs <- VerdictConstructs
INVARIANTS
  FlagIsWorstVerdict
  EveryVerdictReported
  RefusalsAreUnsupported
