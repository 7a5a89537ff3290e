CONSTANTS
  c1 = c1
  c2 = c2
  c3 = c3
  c4 = c4
  Clients = {c1, c2, c3, c4}
  Programs = {"priority", "text"}
  MaxEvent = 2
  Keys = 1
  Backlog = 2
  MaxOpen = 3
  Mortal = {c1}
SPECIFICATION FairSpec
CHECK_DEADLOCK FALSE
INVARIANTS
  TypeOK
  AcceptNeverSleeps
PROPERTIES
  NoLiveClientCut
  LastHangUpIsSeen
  AcceptedUnlessBroken
