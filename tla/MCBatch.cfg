SPECIFICATION Spec
CONSTANTS
  Clients = {c1, c2}
  NoClient = NoClient
  Requests <- BatchRequests
  Handler <- HandlersAsNumbered
  Readings = {0, 90}
  MaxPolls = 2
  CardBars <- Card
  KnownId = 2
  KnownBars <- Known
  DefaultBars <- Guess
  SliceDefault = 4
  Bar1Maps = {TRUE}
  Shortages = {"buffer"}
  Unplug = FALSE
INVARIANTS TypeOK InsideBatch PrefixExecuted AnswerSound DoneIsDone
PROPERTY RollbackAfterFailure
SYMMETRY Symmetry
