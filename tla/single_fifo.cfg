CONSTANTS
  c1 = c1
  c2 = c2
  c3 = c3
  Server = server
  Clients = {c1, c2, c3}
  Quitters = {c3}
  Huge = {c2}
  Mortal = {c1}
  Stale <- ResultFifo
  Faults <- AllFaults
SPECIFICATION FairSpec
CHECK_DEADLOCK FALSE
INVARIANTS
  TypeOK
  WaitersAreOwed
  SurplusMeansKilled
  ShutdownWasAsked
PROPERTIES
  SendersLeave
