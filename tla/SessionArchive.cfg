SPECIFICATION Spec
CONSTANTS
  MaxAppends = 3
  CallCounts = {0, 2}
  MaxFaults = 2
  Trigger = 8
  Target = 7
  Nothing = Nothing
CHECK_DEADLOCK FALSE
INVARIANTS
  TearCostsOneLine
  ResumeClean
  
PROPERTIES
  IsTurnLog
