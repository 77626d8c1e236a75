SPECIFICATION Spec
CONSTANTS
  Works = {w1}
  Services = {s1, s2}
  Batches = {b1, b2}
  None = None
  Handlers = {h1, h2}
  Asked = {"close", "undo", "undoGroup", "restore", "add", "purge", "suppress"}
  MaxRows = 2
  MaxFaults = 1
  Overlap = TRUE
SYMMETRY Symmetry
INVARIANTS
  UndoneLeavesNothing
  LedgerIsComplete
  ReferencesHold
  RemovalsAreScoped
  AppliedOnce
PROPERTIES
  CloseGatesSuppressed
  UndoTakesItsOwn
CHECK_DEADLOCK FALSE
