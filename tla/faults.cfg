CONSTANTS
  c1 = c1
  c2 = c2
  c3 = c3
  Server = server
  NoClient = none
  Clients = {c1, c2}
  Size <- SizesOfTwo
  MsgWords = 2
  ReadWords = 3
  MaxLive = 2
  Mortal = {c1}
  BadPriority = {c2}
  SingleCore = TRUE
  Faults <- AllFaults
  FdLimit = 4
  Signals = TRUE
  Stale = {c1, server}
SPECIFICATION Spec
CHECK_DEADLOCK FALSE
INVARIANTS
  SlotInv
  NoDuplicateWorkers
  RequestNamesLiveObjects
