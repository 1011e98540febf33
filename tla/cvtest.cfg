SPECIFICATION TestSpec
CONSTANTS
  Thread = {idle, a, b}
  Idle = idle
  UserMutex = {cs}
  UserCond = {cv}
  cs = cs
  cv = cv
  CondMutex <- MCCondMutex
  BuddyLock = buddy
  ThreadSlab = slab
  PIT_TICKS = 3
  YIELDS = 20
  MAX_LEVEL = 1
CHECK_DEADLOCK FALSE
PROPERTY TestEnds
