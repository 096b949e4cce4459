CONSTANTS
  Client = {c1, c2}
  Dumper = dumper
  ReadAhead = ahead
  Scheduled = {}
  NULL = NULL
  FREED = FREED
  CACHE_SIZE = 1
  SECTORS = 2
  Offset = {1}
  Writable = {1}
  Byte = {0, 1}
  Val = {1}
  Zero = 0
  Old = 0
  CanClose = FALSE
  MaxRequests = 0
SPECIFICATION Spec
INVARIANTS CleanOnDisk
CHECK_DEADLOCK FALSE
