SPECIFICATION Spec
CONSTANTS
  f = f
  git = git
  script = script
  format = format
  app1 = app1
  app2 = app2
  work = work
  v1 = v1
  v2 = v2
  Nothing = Nothing
  Files <- OneFile
  Commands <- SomeCommands
  ReadOnlyCommands = {}
  HardBlocked <- Blocked
  Unwritable <- TwoLines
  Contents <- TwoVersions
  AppCalls <- AppTwo
  WorkerCalls <- WorkerOne
  Configs <- SomeConfigs
  AppMode = "default"
  RoleModes = {"strict", "default"}
  MaxOutside = 1
  MaxRestarts = 1
SYMMETRY Alike
CHECK_DEADLOCK FALSE
INVARIANTS
  DenyHolds
  EffectsConsented
  PermanentLasts
PROPERTIES
  ReplacesWhatItRead
