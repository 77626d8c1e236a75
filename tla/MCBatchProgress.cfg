SPECIFICATION FairSpec
CONSTANTS
  Batches = {b1, b2}
  NoBatch = NoBatch
  Handlers = {h1}
  Runs = {r1, r2}
  MaxImages = 1
  MaxFaults = 1
  MaxCrashes = 0
  LostAcks = {"outcome"}
PROPERTY NeverSilentlyStops
CHECK_DEADLOCK FALSE
