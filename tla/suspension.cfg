SPECIFICATION Spec
CONSTANTS
  Instances = {one, two}
  Ttl = 2
  MaxRead = 1
  MaxTime = 5
  MaxFlips = 2
  MaxCrashes = 1
SYMMETRY InstanceSymmetry
INVARIANTS
  LockedOutInTime
  EvictionSettles
CHECK_DEADLOCK FALSE
