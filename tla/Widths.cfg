\* Folded, forwarded and computed values mean what the source means.
CONSTANTS
    Pointers <- MCPointers
    Cell <- MCCell
    Literals <- MCLiterals
    Plans <- MCPlans
    NarrowOperands = FALSE
SPECIFICATION Spec
INVARIANTS
    ValuesAreMeant
    BranchesGoWhereMeant
