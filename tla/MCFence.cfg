SPECIFICATION FairSpec
CONSTANTS
  Clients = {c1, c2}
  NoClient = NoClient
  Requests <- FenceRequests
  Handler <- HandlersAsNumbered
  Readings = {0}
  MaxPolls = 2
  CardBars <- Card
  KnownId = 2
  KnownBars <- Known
  DefaultBars <- Guess
  SliceDefault = 4
  Bar1Maps = {TRUE}
  Shortages = {"buffer"}
  Unplug = FALSE
INVARIANT NoOops
PROPERTIES FenceWokenByProbeOnly EveryCallReturns
