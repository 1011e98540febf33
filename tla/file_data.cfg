SPECIFICATION Spec
CONSTANTS
  MAX_LEVEL = 2
  PAGE_SIZE = 1
  Desc = {d, e}
  Byte <- MCByte
  Buffer <- MCBuffer
  Foreign = Foreign
INVARIANT SizeFits
PROPERTY RegularFileSpec
