SPECIFICATION Spec
CONSTANTS
  Digests = {d1, d2, d3}
  ContentIds = {c1, c2, c3, c4, c5}
  None = None
  Foreign = Foreign
  AllowEmpty = FALSE
  RemoveUnknown = FALSE
  RotationOn = TRUE
  PowerOffPolicy = FALSE
  MaxShortfalls = 1
  MaxAttempts = 2
  TvCapacity = 2
  Budget = 3
  Hazards = {"crash", "lost-reply", "collection", "bytes-full", "overwrites", "owner-adds", "owner-removes", "owner-switches"}
SYMMETRY Symmetry
INVARIANTS SavesAreValid
PROPERTIES LastPieceStays OwnersArtStays
