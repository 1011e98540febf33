SPECIFICATION Spec
CONSTANTS
  Thread = {main, t1, t2}
  Main = main
  NULL = NULL
  NAME_SIZE = 3
  CommandLines <- MCCommandLines
  LogLevels = {30, 40}
  Line = {0, 1}
  Exception = {0, 14, 17}
  PIT_TICKS = 2
INVARIANTS
  MaskMatchesStack
  InterruptsFindKernel
  LogLinesWhole
  OptionsApplied
PROPERTY
  TimerGoesOn
