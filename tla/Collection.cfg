SPECIFICATION FairSpec
CONSTANTS
  Names = {1, 2}
  Digests = {a, b}
  None = None
  Hazards = {"stop", "power", "fail", "unconfirmed", "unreadable", "owner", "rename"}
  Budget = 2
INVARIANTS Recoverable Survives LineageKept
PROPERTIES Atomic Recovers
