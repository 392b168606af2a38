CONSTANTS
  Bidders = {b}
  Latencies = {1}
  RESERVOIR_SIZE = 2
  LIVE_CAP = 1
  Limit = 1
  MaxBids = 1
  MaxClicks = 1
  MaxFaults = 1
SPECIFICATION
  Spec
INVARIANTS
  TypeOK
  RingHoldsLatest
PROPERTIES
  SuspensionShows
  FlagsAreCounted
CHECK_DEADLOCK FALSE
