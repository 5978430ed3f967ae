SPECIFICATION Spec
CONSTANTS
  Digests = {d1, d2}
  ContentIds = {c1, c2, c3, c4, c5}
  None = None
  Foreign = Foreign
  AllowEmpty = FALSE
  RemoveUnknown = TRUE
  RotationOn = TRUE
  PowerOffPolicy = TRUE
  MaxShortfalls = 1
  MaxAttempts = 2
  TvCapacity = 3
  Budget = 4
  Hazards = {"crash", "save", "unknown-save", "link", "reject", "lost-reply", "observe", "pacing", "collection", "owner-adds", "owner-switches", "owner-tunes", "bytes-full"}
SYMMETRY Symmetry
INVARIANTS TypeOK BindingsAreTrue NothingIsForgotten NoDuplicates JournalledBeforeSent
PROPERTIES GivenUpMeansAbsent 
