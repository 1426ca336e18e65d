SPECIFICATION Spec
CONSTANTS
    Sources <- Programs
    Callers = {"twice", "test", "print", "loop", "leave", "branch", "call"}
    Helpers = {"triple", "echo", "say", "four", "same", "one", "low", "high", "switch", "trap", "less", "logic", "fork", "up", "sum", "pow", "count"}
    Outer = {"tail", "waste", "even", "keep", "two"}
    Inner = {"triple", "echo", "four", "low", "switch", "sum", "even", "mix", "fact"}
    Levels = {1, 2, 3}
    Inputs = {0, 1, 3}
    InlineLimit = 20
    GrowLimit = 30
    EvalDepth = 15
    Fuel = 15
INVARIANTS
    KeepsMeaning
    WellFormed
    GrowthBounded
PROPERTIES
    Terminates
\* The compiler returns.
CHECK_DEADLOCK FALSE
