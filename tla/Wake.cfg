SPECIFICATION FairSpec
CONSTANTS
  MaxBoundary = 3
  Hazards = {"owner", "clock-back", "link", "packet", "crash", "save"}
  Budget = 4
PROPERTIES WokenOnce WindowHandled
