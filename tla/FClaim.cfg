SPECIFICATION HSpec
CONSTANTS
  Clients = {c1, c2}
  NoClient = NoClient
  Requests <- ClaimRequests
  Handler <- HandlersAsBuilt
  Readings = {0, 90}
  MaxPolls = 2
  CardBars <- Card
  KnownId = 2
  KnownBars <- Known
  DefaultBars <- Guess
  SliceDefault = 4
  Bar1Maps = {TRUE}
  Shortages = {}
  Unplug = FALSE
INVARIANT ClaimIsKnown
