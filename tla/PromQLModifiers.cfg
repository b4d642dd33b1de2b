SPECIFICATION Spec
CONSTANTS
  MaxQueries = 2
  MaxStages = 2
  MaxModifiers = 3
  Source = "promql"
  Target = "logql"
  Constructs <- ModifierConstructs
INVARIANTS
  LossesAreKnown
  DroppedOffsetsNoted
