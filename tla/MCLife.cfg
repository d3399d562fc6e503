SPECIFICATION FairSpec
CONSTANTS
  c1 = c1
  h1 = h1
  h2 = h2
  Cards = {c1}
  NoCard = NoCard
  Hosts = {h1, h2}
  NoHost = NoHost
  OtherDrivers = {"vfio-pci"}
  MaxLoads = 1
  Jobs <- Requested
INVARIANTS BinderTypeOK FilesKeepDevice HeartbeatHasDevice FreesItsOwn NothingLeft PdevIsBound LostCardIsReported
PROPERTIES ModuleSettles ProgramsEnd
CHECK_DEADLOCK FALSE
