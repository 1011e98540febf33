SPECIFICATION Spec
CONSTANTS
  mutex = mutex
  Thread = {idle, a, b, d}
  Idle = idle
  UserMutex = {mutex}
  UserCond = {c}
  CondMutex <- MCCondMutex
  BuddyLock = buddy
  ThreadSlab = slab
  PIT_TICKS = 1
SYMMETRY Slots
INVARIANTS
  MutualExclusion
  ListInv
  OneSchedulerList
  SleepersWait
  NoLostWakeup
  NoLostDeath
  NeverHalts
  ReapedIsQuiet
  AllocatorLockOrder
PROPERTY
  MonitorSpec
