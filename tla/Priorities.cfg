SPECIFICATION LiveSpec
CONSTANTS
  Thread = {m, a, b}
  Main = m
  Idle = idle
  Lock = {l1}
  Sema = {}
  IrqSema = {}
  NULL = null
  PRI_MAX = 1
  PRI_DEFAULT = 1
  TIME_SLICE = 1
  CreatePri = {0, 1}
  SetPri = {0}
  SleepTicks = {1}
  MaxTicks = 1
  MaxValue = 0
  MaxHeld = 1
INVARIANTS
  ElemInOneList
  RunningIsHighest
PROPERTIES
  ThreadsProgress
