SPECIFICATION Spec
CONSTANTS
  read = read
  write = write
  out1 = out1
  ReadTools = {read}
  WriteTools = {write}
  Outputs = {out1}
  ExecErrors = {"timeout"}
  MaxCalls = 2
  MaxTurns = 2
  ObsLimit = 2
  ErrLimit = 2
  StagnantLimit = 1
  Nothing = Nothing
CHECK_DEADLOCK FALSE
INVARIANT NoDanglingInHistory
