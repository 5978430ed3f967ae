SPECIFICATION FairSpec
CONSTANTS
  Ids = {1, 2, 3}
  PendingBuffer = 1
  MaxWire = 1
  None = None
  Cycles = {c1}
  Slots = {s1}
  Initially = {1}
  MaxOperations = 3
  MaxAsked = 2
  QuietGate = FALSE
  HasMAC = TRUE
  Hazards = {"file", "rest", "connect", "cancel", "transfer", "packet", "reject", "silent", "uncorrelated", "owner", "power", "drop"}
  Budget = 1
INVARIANTS TypeOK WaitersAreServed TakenOnce ReceiptsAreTrue LeftAlone
PROPERTIES NothingBetween OperationEnds
CHECK_DEADLOCK FALSE
