SPECIFICATION HSpec
CONSTANTS
  Clients = {c1, c2}
  NoClient = NoClient
  Requests <- LimitRequests
  Handler <- HandlersAsNumbered
  Readings = {0, 90}
  MaxPolls = 2
  CardBars <- Card
  KnownId = 1
  KnownBars <- Known
  DefaultBars <- Guess
  SliceDefault = 4
  Bar1Maps = {TRUE}
  Shortages = {"page"}
  Unplug = FALSE
INVARIANTS LockHeld CoolCopy LandsInPlace
PROPERTY LimitsAreSerial
SYMMETRY HSymmetry
