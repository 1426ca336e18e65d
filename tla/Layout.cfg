SPECIFICATION Spec
CONSTANTS
    Programs <- MCPrograms
    MaxStores = 2
INVARIANTS
    FieldsApart
    SizeCovers
    Aligned
    TameFieldsKeepValues
\* The bound on stores is reached.
CHECK_DEADLOCK FALSE
