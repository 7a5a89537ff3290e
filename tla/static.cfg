CONSTANTS
  c1 = c1
  c2 = c2
  c3 = c3
  Server = server
  NoClient = none
  NULL = NULL
  NoList = NoList
  Clients = {c1, c2, c3}
  Size <- SizesOneNegative
  MsgWords = 2
  ReadWords = 3
  MaxLive = 2
  Mortal = {c1}
  BadPriority = {}
  SingleCore = FALSE
  Faults <- AllocationFaults
  FdLimit <- Unlimited
  Signals = TRUE
  Stale = {}
SPECIFICATION StaticSpec
CHECK_DEADLOCK FALSE
CONSTRAINT OneOfTheOthers
INVARIANTS
  ListHoldsThreads
  CrashNeedsTwoAnswersOrDeath
  WrongReportHasCause
