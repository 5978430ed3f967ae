SPECIFICATION FairSpec
CONSTANTS
  Slugs = {s1}
  Pictures = {1, 2}
  Initial = {{}}
  Sourced = {1}
  Added = {2}
  MaxImages = 0
  LastDay = 1
  Chosen <- MCChosen
  NumTVs = 1
  MaximumConcurrentTVs = 1
  Clients = {c1, c2}
  TransformConcurrency = 1
  TransformQueue = 1
  Kinds = {"upload", "sync"}
  MaxRequests = 2
  Hazards = {"store", "transform", "tv", "unreadable", "http", "crash"}
  Budget = 1
  None = None
PROPERTIES RequestServed ProcessEnds
CHECK_DEADLOCK FALSE
