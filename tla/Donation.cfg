SPECIFICATION Spec
CONSTANTS
  Thread = {m, a, b}
  Main = m
  Idle = idle
  Lock = {l1, l2}
  Sema = {s1}
  IrqSema = {s1}
  NULL = null
  PRI_MAX = 2
  PRI_DEFAULT = 1
  TIME_SLICE = 1
  CreatePri = {0, 2}
  SetPri = {}
  SleepTicks = {1, 2}
  MaxTicks = 2
  MaxValue = 2
  MaxHeld = 1
SYMMETRY Symmetry
INVARIANTS
  NoLostLockWakeup
  NoLostSemaWakeup
  
  
  SleepersOnTime
PROPERTIES
  Implements
