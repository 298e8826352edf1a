SPECIFICATION Spec
CONSTANTS
  s1 = s1
  s2 = s2
  Nothing = Nothing
  Ids <- TwoIds
  OldArchives <- NewOrOld
  MaxTurns = 4
  MaxCommands = 2
  LargeFrom = 2
  IntervalTurns = 3
CHECK_DEADLOCK FALSE
INVARIANT ClearedStaysEmpty
