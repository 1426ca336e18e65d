\* Six registers (RBX, RSI, RDI, R8, R9, R10), three of them callee-saved: calls
\* make the allocator spill; R11 only carries arguments.
CONSTANTS
  MaxVreg = 6
  NumPhysRegs = 6
  NumCalleeSaved = 3
  PlainOps <- MirPlainOps
  OptLevels = {0, 1, 2}
  Functions <- MCFunctions
SPECIFICATION MirSpec
INVARIANTS
  ReadsWhatIsMeant
  HomesHoldValues
PROPERTY SavesWhatItWrites
\* The function returns.
CHECK_DEADLOCK FALSE
