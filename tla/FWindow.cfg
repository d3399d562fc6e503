SPECIFICATION HSpec
CONSTANTS
  Clients = {c1, c2}
  NoClient = NoClient
  Requests <- WindowRequests
  Handler <- HandlersAsNumbered
  Readings = {0}
  MaxPolls = 2
  CardBars <- Card
  KnownId = 2
  KnownBars <- Known
  DefaultBars <- Guess
  SliceDefault = 4
  Bar1Maps = {TRUE}
  Shortages = {}
  Unplug = FALSE
INVARIANT WindowSlides
