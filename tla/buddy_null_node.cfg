SPECIFICATION Spec
CONSTANTS
  LEVELS = 4
  nodes_count = 10
  Free0 <- MCFree0
  PastTheEnd <- MCPastTheEnd
INVARIANT
  NullNodeUntouched
