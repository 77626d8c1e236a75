SPECIFICATION Spec
CONSTANTS
  Batches = {b1}
  NoBatch = NoBatch
  Handlers = {h1}
  Runs = {r1}
  MaxImages = 1
  MaxFaults = 1
  MaxCrashes = 0
  LostAcks = {"outcome"}
PROPERTY TerminalNeverReopens
CHECK_DEADLOCK FALSE
