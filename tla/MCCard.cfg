SPECIFICATION Spec
CONSTANTS
  Clients = {c1, c2}
  NoClient = NoClient
  Requests <- CardRequests
  Handler <- HandlersAsNumbered
  Readings = {0}
  MaxPolls = 2
  CardBars <- Card
  KnownId = 2
  KnownBars <- Known
  DefaultBars <- Guess
  SliceDefault = 4
  Bar1Maps = {TRUE, FALSE}
  Shortages = {"buffer", "page"}
  Unplug = TRUE
INVARIANTS BoundHasPages InitializedMapped
SYMMETRY Symmetry
