SPECIFICATION Spec
CONSTANTS
  Files = {f1, f2, f3}
  Attempts = {a1, a2, a3, a4}
  Handlers = {h1, h2}
  MaxImages = 2
SYMMETRY Symmetry
INVARIANTS
  TypeOK
  NothingOfferedIsLost
  CompleteIsReadable
  RemovalsCanFinish
  DerivedIsHonest
PROPERTIES
  VerdictFrozen
CHECK_DEADLOCK FALSE
