CONSTANTS
  c1 = c1
  c2 = c2
  c3 = c3
  Server = server
  NoClient = none
  Clients = {c1, c2}
  Size <- SizesOfTwo
  MsgWords = 2
  ReadWords = 2
  MaxLive = 2
  Mortal = {}
  BadPriority = {}
  SingleCore = TRUE
  Faults <- GroupFaults
  FdLimit <- Unlimited
  Signals = TRUE
  Stale = {}
  StaleGroups = {c2}
SPECIFICATION CgroupSpec
CHECK_DEADLOCK FALSE
INVARIANTS
  CgroupTypeOK
  RequestsStayFramed
  JoinGoesForward
  BudgetLostToAnotherWorker
  OneAnswerPerWorker
PROPERTIES
  EveryRequestGetsAWorker
