SPECIFICATION Spec
CONSTANTS
  Works = {w1, w2}
  Services = {s1, s2}
  Batches = {b1, b2}
  None = None
  Handlers = {h1}
  Asked = {"close", "undo", "undoGroup", "restore", "remove", "badge", "fix", "purge", "suppress"}
  MaxRows = 2
  MaxFaults = 0
  Overlap = TRUE
SYMMETRY Symmetry
INVARIANTS
  ListMirrorsListings
  ServiceStateCurrent
PROPERTIES
  NothingSuppressedReturns
  GroupUndoneWhole
CHECK_DEADLOCK FALSE
