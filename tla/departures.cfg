CONSTANTS
  c1 = c1
  c2 = c2
  c3 = c3
  Server = server
  NoClient = none
  Clients = {c1, c2}
  Size <- OneOfTwoNegative
  MsgWords = 2
  ReadWords = 3
  MaxLive = 2
  Mortal = {c1, c2}
  BadPriority = {}
  SingleCore = FALSE
  Faults <- NoFaults
  FdLimit <- Unlimited
  Signals = TRUE
  Stale = {}
SPECIFICATION FairSpec
CHECK_DEADLOCK FALSE
INVARIANTS
  CrashNeedsRaceOrDeath
PROPERTIES
  MainWaitsForTheDeadOnly
  HoldEndsEof
  InterruptTakesEffectAtNextRequest
