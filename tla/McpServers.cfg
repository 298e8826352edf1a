SPECIFICATION ServersFairSpec
CONSTANTS
  boot = boot
  call1 = call1
  call2 = call2
  Callers <- BootAndTwo
  Boot = boot
  MaxProcs = 2
  LastPage = 2
  MaxEpochs = 2
  HttpServers <- Hinting
  Lost = Lost
  Nothing = Nothing
CHECK_DEADLOCK FALSE
INVARIANTS
  TableIsAwaited
  AnswersAreMine
  RemoteConsented
PROPERTIES
  OnlySendsHang
