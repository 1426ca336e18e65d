CONSTANTS
  Idents   <- MCIdents
  Literals <- MCLiterals
  Texts    <- MCTexts
  Spare    = {";", ")", "}", "x", "sit", "?"}
SPECIFICATION Spec
INVARIANT AcceptsTheLanguage
INVARIANT TreesAreTheirText
INVARIANT NoErrorBeforeTheDamage
INVARIANT NoErrorThrice
PROPERTY Finishes
