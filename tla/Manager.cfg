SPECIFICATION Spec
CONSTANTS
  Slugs = {s1}
  Pictures = {1, 2}
  Initial = {{}}
  Sourced = {1}
  Added = {2}
  MaxImages = 1
  LastDay = 2
  Chosen <- MCChosen
  NumTVs = 2
  MaximumConcurrentTVs = 1
  Clients = {c1, c2}
  TransformConcurrency = 1
  TransformQueue = 1
  Kinds = {"upload", "add", "edit", "preview"}
  MaxRequests = 2
  Hazards = {"store", "transform", "policy", "tv", "gone", "update", "unreadable", "midnight", "bind", "http", "adapter", "crash"}
  Budget = 1
  None = None
INVARIANTS TypeOK HiddenStaysHidden Truthful CleanExit
SYMMETRY Symmetry
CHECK_DEADLOCK FALSE
