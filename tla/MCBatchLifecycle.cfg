SPECIFICATION Spec
CONSTANTS
  Batches = {b1, b2}
  NoBatch = NoBatch
  Handlers = {h1, h2}
  Runs = {r1, r2}
  MaxImages = 2
  MaxFaults = 2
  MaxCrashes = 1
  LostAcks = {"submit", "claim"}
SYMMETRY Symmetry
INVARIANTS
  TypeOK
  OneRunPerBatch
  OutcomeWritesAreExclusive
  NeverReadEmpty
PROPERTY KeepsContract
CHECK_DEADLOCK FALSE
