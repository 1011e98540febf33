SPECIFICATION LoadSpec
CONSTANTS
  Thread = {boot}
  main = boot
  File = {root, f, g, h}
  root = root
  NULL = NULL
  DirPath <- MCDirPath
  FilePath <- MCFilePath
CHECK_DEADLOCK FALSE
INVARIANT EveryArchiveLoads
