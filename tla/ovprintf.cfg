SPECIFICATION Spec
CONSTANTS
  Char <- MCChar
  Zero = "NUL"
  SIZE_T = 1048576
  Pieces <- MCPieces
  MaxPieces = 2
  Sizes = {0, 1, 5, 30}
INVARIANTS
  PrintsMeaning
  StoresWhatFits
