SPECIFICATION FairSpec
CONSTANTS
  blank = blank
  office = office
  officeUS = officeUS
  party = party
  none = none
  Images = 2
  Captions = {blank, office, officeUS, party}
  Blank = blank
  None = none
  Text <- TextOf
  Within <- WithinOf
  Catalogue <- CatalogueOf
  Listed = {"Office", "Party"}
  Screens <- ScreensOf
  MaxRuns = 2
  MaxFaults = 2
INVARIANTS
  AbsenceIsEvidence
  HoldsItsReadings
  CollapsesEnd
  SeenIsKept
  ShownOnce
PROPERTIES
  RunEnds
CHECK_DEADLOCK FALSE
