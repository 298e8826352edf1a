SPECIFICATION TasksFairSpec
CONSTANTS
  t1 = t1
  t2 = t2
  read = read
  write = write
  SpawnWorker = SpawnWorker
  Tasks <- TwoTasks
  ReadTools <- OneRead
  WriteTools <- OneWrite
  Capacity = 2
  Allowances <- AllOrReads
CHECK_DEADLOCK FALSE
INVARIANTS
  ToldOnce
  CancelledIsKilled
  AnswerIsFinal
PROPERTIES
  IsLifecycle
  TasksEnd
