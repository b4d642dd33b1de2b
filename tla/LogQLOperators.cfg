SPECIFICATION Spec
CONSTANTS
  MaxQueries = 3
  MaxStages = 4
  MaxModifiers = 0
  Source = "logql"
  Target = "logql"
  Constructs <- OperatorConstructs
INVARIANTS
  TypeOK
  SilentLossOnlyByReorder
PROPERTIES
  TranslationReturns
