CONSTANTS
  Entries <- Dutch
  Skew = 0
  MaxEdits = 8
  MaxSubmits = 2
  MaxFaults = 1
  MaxTime = 2
SPECIFICATION
  Spec
INVARIANTS
  LastsAsHinted
CHECK_DEADLOCK FALSE
