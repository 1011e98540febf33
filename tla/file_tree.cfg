SPECIFICATION Spec
CONSTANTS
  Thread = {t, u}
  File = {root, f, g, h}
  root = root
  NULL = NULL
  DirPath <- MCDirPath
  FilePath <- MCFilePath
SYMMETRY Interchangeable
CHECK_DEADLOCK FALSE
INVARIANTS
  EntriesFormATree
  LookupSeesWhatExists
  NoCircularWait
  OnlyFailedInitKeepsLock
  ReaddirComplete
