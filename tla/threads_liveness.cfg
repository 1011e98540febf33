SPECIFICATION FairSpec
CONSTANTS
  mutex = mutex
  Thread = {idle, a, b}
  Idle = idle
  UserMutex = {mutex}
  UserCond = {c}
  CondMutex <- MCCondMutex
  BuddyLock = buddy
  ThreadSlab = slab
  PIT_TICKS = 2
PROPERTIES
  AliveRuns
  DeathReachesJoiner
  BuddyLockReleased
