CONSTANT Programs <- MCPrograms
SPECIFICATION FairIrSpec
INVARIANTS
  UsesReachVisible
  AcceptedAreTyped
  AliasesMeanTheirTargets
  ConstantsAreExact
  InitialisedOnce
  PlainUsesKeepTheirMeaning
PROPERTY Terminates
\* The compiler returns.
CHECK_DEADLOCK FALSE
