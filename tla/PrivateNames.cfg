CONSTANT Programs <- PrivateNames
SPECIFICATION FairIrSpec
INVARIANT UsesKeepTheirMeaning
\* The compiler returns.
CHECK_DEADLOCK FALSE
