SPECIFICATION Spec
CONSTANTS
  Services = {s1}
  Handlers = {h1, h2, h3}
  Asked = {"wait", "track", "discover", "auto", "close", "absent", "undoGroup", "add", "promote", "move", "drop", "restore", "hide", "suppress"}
  MixedRoutes = FALSE
  BlindAlone = TRUE
  MaxTitles = 2
  MaxListings = 2
  MaxIntents = 2
SYMMETRY Symmetry
INVARIANTS
  OneIntentPerWork
PROPERTIES
  GraduatesWithListing
  NothingVanishes
  PlacedIsShown
CHECK_DEADLOCK FALSE
