\* What every displacement of the executable leads to.
CONSTANTS
    Programs <- MCPrograms
    Caseless <- MCCaseless
    NameLength <- MCNameLength
SPECIFICATION Spec
INVARIANTS
    ReferencesResolve
    SectionsApart
PROPERTY
    SecondPassMovesNothing
