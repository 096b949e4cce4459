SPECIFICATION LiveSpec
CONSTANTS
  MaxPid = 3
  File = {f1}
  NULL = NULL
  ExitCode = {0, 1}
  MAX_OPEN = 2
  MaxFd = 4
  MainExits = FALSE
CHECK_DEADLOCK FALSE

  
  
PROPERTIES
  ReportsTrue
  ExecutableKept
  CallsReturn
