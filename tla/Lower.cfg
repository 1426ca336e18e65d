SPECIFICATION Spec
CONSTANTS
    Programs <- FunctionBodies
    Levels = {0, 1}
    Values = {1, 2, 3}
    Depth = 6
    Fuel = 40
INVARIANTS
    BlocksEndOnce
PROPERTIES
    Implements
    Finishes
\* The compiled function returns.
CHECK_DEADLOCK FALSE
