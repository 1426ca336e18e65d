\* Three activations of the helper below princeps and the stub.
CONSTANTS
  Top = 121
  MaxDepth = 3
  Programs <- MCPrograms
SPECIFICATION Spec
INVARIANTS
  FramesIntact
  ReadersFindTheirs
  Aligned
\* The program exits.
CHECK_DEADLOCK FALSE
