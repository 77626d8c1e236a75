SPECIFICATION Spec
CONSTANTS
  blank = blank
  office = office
  officeUS = officeUS
  party = party
  none = none
  Images = 1
  Captions = {blank, office, officeUS, party}
  Blank = blank
  None = none
  Text <- TextOf
  Within <- WithinOf
  Catalogue <- CatalogueOf
  Listed = {"Office", "Party"}
  Screens <- OneScreen
  MaxRuns = 1
  MaxFaults = 0
INVARIANT ReadWholeIsKept
CHECK_DEADLOCK FALSE
