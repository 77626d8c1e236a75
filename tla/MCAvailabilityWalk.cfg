SPECIFICATION FairSpec
CONSTANTS
  Rows <- MCRows
  Pages = {p1}
  Handlers = {h1, h2}
  Batch = 2
  MaxAge = 1
  MaxClock = 2
  MaxOthers = 2
INVARIANTS
  WalkCoversAll
PROPERTIES
  AsksOnce
  WalkEnds
CHECK_DEADLOCK FALSE
