SPECIFICATION Spec
CONSTANTS
  Results = {"page", "note", "log"}
  Summaries = {"short", "long"}
  Size <- Lengths
  Header = 2
  SingleLimit = 8
  BatchLimit = 10
  Trigger = 14
  Target = 10
  BreakerLimit = 2
  MaxTurns = 3
  MaxBatches = 2
  Batches <- SomeBatches
  Nothing = Nothing
CHECK_DEADLOCK FALSE
INVARIANTS
  LinkedIsKept
PROPERTIES
  CompressionKeepsTurn
  BatchBounded
