SPECIFICATION Spec
CONSTANTS
  MaxQueries = 1
  MaxStages = 5
  MaxModifiers = 0
  Source = "logql"
  Target = "logql"
  Constructs <- PipelineConstructs
INVARIANTS
  StableSorted
  SwappedPairFlagged
  SameLanguageIsComplete
