\* Three registers, one of them callee-saved, four vregs: small enough that
\* nodes run out of registers in simplify and in select.
CONSTANTS
  MaxVreg = 4
  NumPhysRegs = 3
  NumCalleeSaved = 1
  PlainOps = {"SIR_OP"}
  OptLevels = {0, 2}
  Functions <- MCFunctions
SPECIFICATION FairSpec
INVARIANTS
  TypeOK
  NoClobber
  CallSurvivors
  LivenessIsExact
  LowDegreeGetsColor
PROPERTY Terminates
\* The allocator returns.
CHECK_DEADLOCK FALSE
