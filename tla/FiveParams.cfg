CONSTANTS
  Top = 121
  MaxDepth = 3
  Programs <- FiveParams
SPECIFICATION Spec
INVARIANT ReadersFindTheirs
CHECK_DEADLOCK FALSE
