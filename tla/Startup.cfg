SPECIFICATION StartupSpec
CONSTANTS
  s1 = s1
  s2 = s2
  Nothing = Nothing
  Ids <- TwoIds
  OldArchives <- NewOrOld
  MaxTurns = 3
  MaxCommands = 3
  LargeFrom = 2
  IntervalTurns = 2
  SkillNames <- SomeNames
  ModeOf <- TheirModes
  Scans <- FoundByScans
  MaxIncludeDepth = 3
  MaxContent = 4
  CoreTools = {"Bash"}
  Environment = {"TOKEN"}
  Documents <- SomeDocuments
CHECK_DEADLOCK FALSE
INVARIANTS
  SurfaceAgrees
  InstructionsComplete
  WholeOrTold
  ReplyOwnsConversation
  MemoryIsArchive
PROPERTIES
  NotesGrow
