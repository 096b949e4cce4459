SPECIFICATION Spec
CONSTANTS
  t1 = t1
  t2 = t2
  d1 = d1
  d2 = d2
  NULL = NULL
  Thread = {t1, t2}
  Disk = {d1, d2}
  Script <- MCScript
  Incoming <- MCIncoming
  Char = {0, 1, 2, 11, 12, 13, 21, 22, 31, 32, 33, 99}
  Message = 99
  INTQ_BUFSIZE = 3
  SECTORS = 2
  Old = 0
  MaxUnexpected = 1
INVARIANTS
  OutputInOrder
  InputInOrder
  InterruptsArmed
  NotMixed
PROPERTIES
  TransferMeetsCall
  CallsReturn
CHECK_DEADLOCK FALSE
