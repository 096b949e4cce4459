SPECIFICATION Spec
CONSTANTS
  Thread = {t1, t2}
  Main = t1
  Idle = idle
  Nice = {0, 1}
  PRI_MAX = 3
  TIMER_FREQ = 4
  TIME_SLICE = 2
  PRI_PERIOD = 2
  f = 2
  LOAD_WINDOW = 2
  NiceMax = 1
INVARIANTS
  ReadyQueues
  UsageBounded
PROPERTY
  NoStarvation
