SPECIFICATION Spec
SYMMETRY Interchangeable
CONSTANTS
  Versions = {v1, v2}
  Partial = partial
  Inodes = {i1, i2, i3, i4}
  None = none
  Hazards = {"fail", "cancel", "owner", "edit", "power"}
  Budget = 2
  MaxCalls = 3
INVARIANTS Survives ReadsAreWhole
PROPERTIES NoClobber ControlIsAtomic
CHECK_DEADLOCK FALSE
