CONSTANTS
  Client = {c1}
  Dumper = dumper
  ReadAhead = ahead
  Scheduled = {dumper, ahead}
  NULL = NULL
  FREED = FREED
  CACHE_SIZE = 2
  SECTORS = 3
  Offset = {1}
  Writable = {1}
  Byte = {0}
  Val = {0}
  Zero = 0
  Old = 0
  CanClose = TRUE
  MaxRequests = 1
SPECIFICATION Spec
INVARIANTS DirtyIsPresent
CHECK_DEADLOCK FALSE
