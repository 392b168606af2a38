CONSTANTS
  Bidders = {b}
  Latencies = {1, 2}
  RESERVOIR_SIZE = 2
  LIVE_CAP = 1
  Limit = 1
  MaxBids = 4
  MaxClicks = 1
  MaxFaults = 0
SPECIFICATION
  Spec
INVARIANTS
  TypeOK
  RingHoldsLatest
CONSTRAINT
  Unflagged
CHECK_DEADLOCK FALSE
