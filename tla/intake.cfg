SPECIFICATION FairSpec
CONSTANTS
  Servers = {s1, s2}
  NoServer = NoServer
  Users = {ann, bob}
  Auctions = {x}
  NoAuction = NoAuction
  Backpressure = 2
  StreamLength = 4
  ReadCount = 2
  MaxCrashes = 1
  MaxRedisErrors = 1
INVARIANTS
  StreamBounded
  AckedWasTried
PROPERTIES
  BidsInOrderOnce
  BacklogCleared
CHECK_DEADLOCK FALSE
