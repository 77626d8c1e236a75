SPECIFICATION Spec
CONSTANTS
  Works = {w1}
  Services = {s1, s2}
  Batches = {b1}
  None = None
  Handlers = {h1}
  Asked = {"close", "add", "remove", "restore"}
  MaxRows = 3
  MaxFaults = 0
  Overlap = FALSE
INVARIANT CloseNeverBlocked
CHECK_DEADLOCK FALSE
