SPECIFICATION FairSpec
CONSTANTS
  Digests = {d1, d2}
  ContentIds = {c1, c2, c3, c4}
  None = None
  Foreign = Foreign
  AllowEmpty = FALSE
  RemoveUnknown = FALSE
  RotationOn = FALSE
  PowerOffPolicy = FALSE
  MaxShortfalls = 1
  MaxAttempts = 2
  TvCapacity = 2
  Budget = 4
  Hazards = {"crash", "save", "unknown-save", "link", "lost-reply", "collection", "observe", "reject", "owner-switches"}
PROPERTIES Converges
