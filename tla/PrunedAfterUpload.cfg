SPECIFICATION Spec
CONSTANTS
  Digests = {d1}
  ContentIds = {c1, c2, c3}
  None = None
  Foreign = Foreign
  AllowEmpty = FALSE
  RemoveUnknown = FALSE
  RotationOn = FALSE
  PowerOffPolicy = FALSE
  MaxShortfalls = 1
  MaxAttempts = 2
  TvCapacity = 2
  Budget = 2
  Hazards = {"owner-removes"}
INVARIANTS NothingIsForgotten
