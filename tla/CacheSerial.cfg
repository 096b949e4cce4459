CONSTANTS
  Client = {c1}
  Dumper = dumper
  ReadAhead = ahead
  Scheduled = {dumper}
  NULL = NULL
  FREED = FREED
  CACHE_SIZE = 2
  SECTORS = 3
  Offset = {1, 2}
  Writable = {1}
  Byte = {0, 1, 2}
  Val = {2}
  Zero = 0
  Old = 1
  CanClose = TRUE
  MaxRequests = 0
SPECIFICATION LiveSpec
INVARIANTS CleanOnDisk
PROPERTIES Implements 
CHECK_DEADLOCK FALSE
