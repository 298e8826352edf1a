SPECIFICATION Spec
CONSTANTS
  boot = boot
  call1 = call1
  call2 = call2
  Callers <- BootAndTwo
  Boot = boot
  MaxProcs = 3
  LastPage = 2
  Lost = Lost
  Nothing = Nothing
CHECK_DEADLOCK FALSE
INVARIANT NoOrphans
