SPECIFICATION Spec
CONSTANTS
  SECTORS = 9
  BLOCK_SECTOR_SIZE = 2
  ZERO = ZERO
  NULL = NULL
  CNT_MAX = 4
  ENTRIES = 2
  Proc = {p1}
  Data = {one}
  Path <- MCPath
  Size = {3}
  MAX_OPEN = 1
  MaxFd = 3
INVARIANTS
  NoSharing
  OpenInodes
  
  FilesMeetSpec
  RestartKeeps
CHECK_DEADLOCK FALSE
