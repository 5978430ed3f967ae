SPECIFICATION FairSpec
CONSTANTS
  Digests = {d1, d2}
  ContentIds = {c1, c2, c3, c4}
  None = None
  Foreign = Foreign
  AllowEmpty = TRUE
  RemoveUnknown = FALSE
  RotationOn = TRUE
  PowerOffPolicy = TRUE
  MaxShortfalls = 1
  MaxAttempts = 2
  TvCapacity = 1
  Budget = 3
  Hazards = {"crash", "save", "lost-reply", "collection", "bytes-full", "link", "uncorrelated", "slow-pacing", "unlisted", "observe", "reject", "owner-switches"}
PROPERTIES RunEnds TurnsOff
