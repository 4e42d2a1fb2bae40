SPECIFICATION Spec
CONSTANTS
  Nines = 3
  Stated <- MCStated
  Texts <- MCTexts
INVARIANTS
  ShownJustBefore
  NothingLost
